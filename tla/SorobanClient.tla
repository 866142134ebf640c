---------------------------- MODULE SorobanClient ----------------------------
(***************************************************************************)
(* How the API gets a transaction onto the ledger (soroban.service.ts):    *)
(* load the payer's account, simulate, enlarge the resources, sign, send,  *)
(* and poll for two minutes.  The transaction itself is good for three, so *)
(* that it may take effect after the caller was told that it did not.      *)
(* Time is counted in minutes.                                             *)
(***************************************************************************)
EXTENDS Naturals, FiniteSets

CONSTANTS
  Accounts,   \* who pays for transactions
  Calls,      \* invocations, each of one handler
  PayerOf,    \* the account whose key a call signs with
  Horizon     \* bound on the minutes that pass

\* What an instance has to assume of the constants.
ClientAssumption == PayerOf \in [Calls -> Accounts] /\ Horizon \in Nat

TimeBound == 3   \* setTimeout(180)
PollFor == 2     \* waitForTransaction: 120 seconds

VARIABLES
  now,
  sequence,   \* the sequence number of each account, on the ledger
  calls       \* call -> where its handler is, what it signed, and the fate of that

vars == <<now, sequence, calls>>

NotSent == [at |-> "start", seq |-> 0, built |-> 0, sent |-> 0, fate |-> "none", answer |-> "none"]

Init ==
  /\ now = 0
  /\ sequence = [a \in Accounts |-> 0]
  /\ calls = [c \in Calls |-> NotSent]

-----------------------------------------------------------------------------
Answers(c, answer) == [calls[c] EXCEPT !.at = "done", !.answer = answer]

\* getAccount and the builder: the next sequence number, and the time bound from now on.
Build(c) ==
  /\ calls[c].at = "start"
  /\ calls' = [calls EXCEPT ![c] = [@ EXCEPT !.at = "built", !.seq = sequence[PayerOf[c]] + 1,
                                             !.built = now]]
  /\ UNCHANGED <<now, sequence>>

\* The simulation refuses the call, or the resources are enlarged; a failure to enlarge
\* them is ignored and the transaction is sent as it was prepared.
Prepare(c) ==
  /\ calls[c].at = "built"
  /\ \/ calls' = [calls EXCEPT ![c] = Answers(c, "refused")]
     \/ calls' = [calls EXCEPT ![c].at = "prepared"]
  /\ UNCHANGED <<now, sequence>>

\* The network takes the transaction, answers ERROR, or has no room for it now: only
\* ERROR is looked at, and a transaction that was not taken is waited for in vain.
Send(c) ==
  /\ calls[c].at = "prepared"
  /\ \E status \in {"PENDING", "ERROR", "TRY_AGAIN_LATER"} :
       calls' = [calls EXCEPT ![c] =
                  IF status = "ERROR" THEN Answers(c, "refused")
                  ELSE [@ EXCEPT !.at = "waiting", !.sent = now,
                                 !.fate = IF status = "PENDING" THEN "open" ELSE "none"]]
  /\ UNCHANGED <<now, sequence>>

TimeIsUp(c) == now - calls[c].sent >= PollFor

\* Faulty variant: a transaction not found when the time is up counts as failed.
PollGivesUpAsFailed(c) ==
  /\ calls[c].at = "waiting"
  /\ \/ TimeIsUp(c) /\ calls' = [calls EXCEPT ![c] = Answers(c, "failed")]
     \/ /\ ~ TimeIsUp(c) /\ calls[c].fate = "success"
        /\ calls' = [calls EXCEPT ![c] = Answers(c, "confirmed")]
     \/ /\ ~ TimeIsUp(c) /\ calls[c].fate = "failed"
        /\ calls' = [calls EXCEPT ![c] = Answers(c, "failed")]
  /\ UNCHANGED <<now, sequence>>

\* waitForTransaction: the time is looked at before the transaction, so that one that
\* landed in the last interval is reported as not confirmed.  A look that finds nothing
\* changes nothing.
Poll(c) ==
  /\ calls[c].at = "waiting"
  /\ \/ TimeIsUp(c) /\ calls' = [calls EXCEPT ![c] = Answers(c, "not confirmed")]
     \/ /\ ~ TimeIsUp(c) /\ calls[c].fate = "success"
        /\ calls' = [calls EXCEPT ![c] = Answers(c, "confirmed")]
     \/ /\ ~ TimeIsUp(c) /\ calls[c].fate = "failed"
        /\ calls' = [calls EXCEPT ![c] = Answers(c, "failed")]
  /\ UNCHANGED <<now, sequence>>

\* getTransaction throws: the handler learns nothing of a transaction that was sent.
PollFails(c) ==
  /\ calls[c].at = "waiting"
  /\ calls' = [calls EXCEPT ![c] = Answers(c, "not confirmed")]
  /\ UNCHANGED <<now, sequence>>

\* The ledger takes a transaction with the account's next number within its time bound;
\* the call inside it may fail, which uses up the number as well.
Apply(c, fate) ==
  /\ calls[c].fate = "open"
  /\ calls[c].seq = sequence[PayerOf[c]] + 1
  /\ now < calls[c].built + TimeBound
  /\ calls' = [calls EXCEPT ![c].fate = fate]
  /\ sequence' = [sequence EXCEPT ![PayerOf[c]] = @ + 1]
  /\ UNCHANGED now

Tick == now < Horizon /\ now' = now + 1 /\ UNCHANGED <<sequence, calls>>

Step(c) == Build(c) \/ Prepare(c) \/ Send(c) \/ Poll(c) \/ PollFails(c)

Next ==
  \/ Tick
  \/ \E c \in Calls : Step(c) \/ (\E fate \in {"success", "failed"} : Apply(c, fate))

Spec == Init /\ [][Next]_vars

-----------------------------------------------------------------------------
(* Properties *)

Final(c) == calls[c].fate # "open" \/ now >= calls[c].built + TimeBound
             \/ calls[c].seq <= sequence[PayerOf[c]]

\* What a handler is told is so: "confirmed" for what took effect, "failed" for what did
\* not and never will; calls of one account that took the same number do not both take
\* effect; and what was not confirmed is settled a minute after the handler was told.
AnswersAreTrue ==
  \A c \in Calls :
    /\ calls[c].answer = "confirmed" => calls[c].fate = "success"
    /\ calls[c].answer \in {"failed", "refused"} => calls[c].fate \in {"failed", "none"}
    /\ calls[c].answer = "not confirmed" /\ now > calls[c].sent + PollFor => Final(c)
    /\ \A d \in Calls \ {c} :
         PayerOf[c] = PayerOf[d] /\ calls[c].seq = calls[d].seq
           => ~ (calls[c].fate = "success" /\ calls[d].fate = "success")
=============================================================================
