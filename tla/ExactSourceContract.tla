------------------------ MODULE ExactSourceContract ------------------------
(***************************************************************************)
(* What a holder of a context-reduction marker may count on, whatever the  *)
(* local store does underneath: a call answers "exact" only with the very  *)
(* text its key names, only for a text that may be kept at all, and only   *)
(* if some retention of that text had not yet run out when the call was    *)
(* made.  Every other answer is allowed at any time.                       *)
(***************************************************************************)
EXTENDS Naturals

CONSTANTS Procs,       \* callers: threads and processes that share one profile
          Digests,     \* source texts, each named by its SHA-256
          Aliases,     \* provider hashes and synthesized local_... names
          SourceOf,    \* the text each alias was issued for
          Secret,      \* texts that redaction would change
          Absent       \* "no text"

VARIABLES now,         \* the clock
          granted,     \* per text: the latest expiry an exact retention recorded
          asked,       \* per caller: when the current call was made
          reply        \* per caller: the answer of its last call, or Pending

vars == <<now, granted, asked, reply>>

Keys == Aliases \cup Digests
Named(k) == IF k \in Aliases THEN SourceOf[k] ELSE k

States == {"exact", "redacted", "expired", "missing", "corrupt",
           "disabled", "not_allowed", "error"}
Pending == [key |-> Absent, state |-> "pending", content |-> Absent]

Init ==
  /\ now = 0
  /\ granted = [d \in Digests |-> 0]
  /\ asked = [p \in Procs |-> 0]
  /\ reply = [p \in Procs |-> Pending]

ClockAdvances == now' > now /\ UNCHANGED <<granted, asked, reply>>

Call(p) ==
  /\ now' >= now
  /\ asked' = [asked EXCEPT ![p] = now']
  /\ reply' = [reply EXCEPT ![p] = Pending]
  /\ UNCHANGED granted

\* An exact retention of d may put off the expiry of d, never bring it forward.
Grant(d) ==
  /\ d \notin Secret
  /\ granted'[d] >= granted[d]
  /\ granted' = [granted EXCEPT ![d] = granted'[d]]
  /\ UNCHANGED <<now, asked, reply>>

\* The only way to answer "exact" for key k.
ExactAnswer(p, k) ==
  /\ Named(k) \notin Secret
  /\ asked[p] < granted[Named(k)]
  /\ reply' = [reply EXCEPT ![p] =
                 [key |-> k, state |-> "exact", content |-> Named(k)]]

OtherAnswer(p, k) ==
  \E s \in States \ {"exact"} :
    reply' = [reply EXCEPT ![p] = [key |-> k, state |-> s, content |-> Absent]]

Answer(p) ==
  /\ \E k \in Keys : ExactAnswer(p, k) \/ OtherAnswer(p, k)
  /\ asked' = [asked EXCEPT ![p] = 0]
  /\ UNCHANGED <<now, granted>>

\* A caller dies without an answer.
Die(p) ==
  /\ asked' = [asked EXCEPT ![p] = 0]
  /\ UNCHANGED <<now, granted, reply>>

Next ==
  \/ ClockAdvances
  \/ \E p \in Procs : Call(p) \/ Answer(p) \/ Die(p)
  \/ \E d \in Digests : Grant(d)

Spec == Init /\ [][Next]_vars
=============================================================================
