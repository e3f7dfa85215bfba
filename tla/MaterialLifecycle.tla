-------------------------- MODULE MaterialLifecycle --------------------------
(***************************************************************************)
(* What the parse pipeline promises to its users (the "parse status"       *)
(* appendix of docs/api-reference.md), with no workers, requests, retries  *)
(* or restarts in sight: a material is queued, parsed, and then done or    *)
(* failed; every time it is queued again it gets a new generation; its     *)
(* chunks and content are replaced together, only while it is being        *)
(* parsed; and it is never shown as done before the chunks of the present  *)
(* generation are in the index.                                            *)
(***************************************************************************)
EXTENDS Naturals

CONSTANTS Materials

VARIABLES status, gen, content, chunks

lifecycleVars == <<status, gen, content, chunks>>

Text     == [edit: Nat, passes: Nat]
NoText   == [edit |-> 0, passes |-> 0]
NoChunks == [gen |-> 0, text |-> NoText]
Live     == {"pending", "parsing", "done", "failed"}

Init ==
  /\ status  = [m \in Materials |-> "none"]
  /\ gen     = [m \in Materials |-> 0]
  /\ content = [m \in Materials |-> NoText]
  /\ chunks  = [m \in Materials |-> NoChunks]

Submit(m) ==
  /\ status[m] = "none"
  /\ status' = [status EXCEPT ![m] = "pending"]
  /\ gen' = [gen EXCEPT ![m] = 1]
  /\ UNCHANGED <<content, chunks>>

\* The tasks of S are queued again, each under a new generation.
Requeue(S) ==
  /\ status' = [m \in Materials |-> IF m \in S THEN "pending" ELSE status[m]]
  /\ gen' = [m \in Materials |-> IF m \in S THEN gen[m] + 1 ELSE gen[m]]

\* Some text replaces the content of m.
Rewrite(m) ==
  /\ content'[m] \in Text
  /\ content' = [content EXCEPT ![m] = content'[m]]

\* A user submits a new text.
Edit(m) ==
  /\ status[m] \in Live
  /\ Requeue({m})
  /\ Rewrite(m)
  /\ UNCHANGED chunks

\* A failed material, or every interrupted one after a restart.
TryAgain(S) ==
  /\ (\A m \in S : status[m] = "parsing") \/ (\E m \in S : S = {m} /\ status[m] = "failed")
  /\ Requeue(S)
  /\ UNCHANGED <<content, chunks>>

Begin(m) ==
  /\ status[m] = "pending"
  /\ status' = [status EXCEPT ![m] = "parsing"]
  /\ UNCHANGED <<gen, content, chunks>>

\* The content and the chunks cut from it are replaced together.
Publish(m) ==
  /\ status[m] = "parsing"
  /\ Rewrite(m)
  /\ chunks' = [chunks EXCEPT ![m] = [gen |-> gen[m], text |-> content'[m]]]
  /\ UNCHANGED <<status, gen>>

Complete(m) ==
  /\ status[m] = "parsing"
  /\ chunks[m] = [gen |-> gen[m], text |-> content[m]]
  /\ status' = [status EXCEPT ![m] = "done"]
  /\ UNCHANGED <<gen, content, chunks>>

GiveUp(m) ==
  /\ status[m] = "parsing"
  /\ status' = [status EXCEPT ![m] = "failed"]
  /\ UNCHANGED <<gen, content, chunks>>

Remove(m) ==
  /\ status[m] \in Live
  /\ status' = [status EXCEPT ![m] = "deleted"]
  /\ chunks' = [chunks EXCEPT ![m] = NoChunks]
  /\ UNCHANGED <<gen, content>>

Next ==
  \/ \E m \in Materials :
       \/ Submit(m) \/ Begin(m) \/ Complete(m) \/ GiveUp(m) \/ Remove(m)
       \/ Edit(m) \/ Publish(m)
  \/ \E S \in SUBSET Materials : TryAgain(S)

Spec == Init /\ [][Next]_lifecycleVars
=============================================================================
