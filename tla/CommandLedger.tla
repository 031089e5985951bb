--------------------------- MODULE CommandLedger ---------------------------
(***************************************************************************)
(* What the local server promises the clients that give it commands, without *)
(* keys, receipts, state files, processes or failures.  A client sends an   *)
(* operation, as often as it likes; the operation has effects; a verdict    *)
(* ends it.  An accepted operation has had every effect that its command    *)
(* needs, there is one verdict on an operation, and no effect after it.     *)
(* Before the verdict an operation may have its effects more than once.     *)
(***************************************************************************)
EXTENDS Naturals, Sequences

CONSTANTS Verdicts,   \* "accepted" among them
          Needs(_)    \* the kinds of effect that a command has

VARIABLES
  asked,    \* the commands of the operations, in the order they were first sent
  verdict,  \* verdict[n]: the verdicts on operation n that its client was told
  effects   \* the effects, each of an operation and a kind

vars == <<asked, verdict, effects>>

Init == asked = <<>> /\ verdict = <<>> /\ effects = <<>>

LongerByOne(new, old) ==
  Len(new) = Len(old) + 1 /\ \A i \in 1..Len(old) : new[i] = old[i]

Ask ==
  /\ LongerByOne(asked', asked)
  /\ LongerByOne(verdict', verdict)
  /\ verdict'[Len(verdict')] = {}
  /\ UNCHANGED effects

Has(n, kind) == \E i \in 1..Len(effects) : effects[i].op = n /\ effects[i].kind = kind

\* An operation without a verdict has one more of the effects of its command.
Act ==
  /\ LongerByOne(effects', effects)
  /\ LET e == effects'[Len(effects')]
     IN /\ e.op \in 1..Len(asked)
        /\ verdict[e.op] = {}
        /\ e.kind \in Needs(asked[e.op])
  /\ UNCHANGED <<asked, verdict>>

Decide(n, answer) ==
  /\ verdict[n] = {}
  /\ answer = "accepted" => \A kind \in Needs(asked[n]) : Has(n, kind)
  /\ Len(verdict') = Len(verdict)
  /\ verdict'[n] = {answer}
  /\ \A m \in 1..Len(asked) : m # n => verdict'[m] = verdict[m]
  /\ UNCHANGED <<asked, effects>>

Next ==
  \/ Ask
  \/ Act
  \/ \E n \in 1..Len(asked), answer \in Verdicts : Decide(n, answer)

Spec == Init /\ [][Next]_vars

\* There is at most one verdict on an operation, and if it is "accepted" the
\* operation has had every effect that its command needs.
VerdictsAreTrue ==
  \A n \in 1..Len(asked) :
    /\ \A a, b \in verdict[n] : a = b
    /\ "accepted" \in verdict[n] => \A kind \in Needs(asked[n]) : Has(n, kind)

\* A verdict is for ever, and what it ended has no further effect.
VerdictsEnd ==
  [][\A n \in 1..Len(asked) :
       verdict[n] # {} =>
         /\ verdict'[n] = verdict[n]
         /\ \A i \in 1..Len(effects') : effects'[i].op = n => i \in 1..Len(effects)]_vars
=============================================================================
