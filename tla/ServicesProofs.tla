--------------------------- MODULE ServicesProofs ---------------------------
(***************************************************************************)
(* Proofs about the components that Services puts side by side: the client *)
(* of the network, a form, the indexer, the market and the pages that pay, *)
(* each with an invariant of its own state, and the commitment tree.  No   *)
(* component disturbs another, so that each theorem is one of Spec.  What  *)
(* concerns one user is proved in UserProofs.                              *)
(***************************************************************************)
EXTENDS Services, SequenceTheorems, FiniteSetTheorems, TLAPS

-----------------------------------------------------------------------------
(* The client of the network.                                               *)

CallRecords ==
  [at : {"start", "built", "prepared", "waiting", "done"},
   seq : Nat, built : Nat, sent : Nat,
   fate : {"none", "open", "success", "failed"},
   answer : {"none", "refused", "confirmed", "failed", "not confirmed"}]

\* What holds of a call r when it is minute n and its payer is at sequence number q.
CallOK(r, n, q) ==
  /\ r \in CallRecords
  /\ r.at # "start" => r.built <= n
  /\ r.at \in {"start", "built", "prepared"} => r.fate = "none" /\ r.answer = "none"
  /\ r.at = "waiting" => r.answer = "none"
  /\ r.at \in {"waiting", "done"} /\ r.answer # "refused" => r.built <= r.sent
  /\ r.fate \in {"success", "failed"} => r.seq <= q
  /\ r.answer = "confirmed" => r.fate = "success"
  /\ r.answer = "failed" => r.fate = "failed"
  /\ r.answer = "refused" => r.fate = "none"

OneOfANumber ==
  \A c, d \in Invocations :
    c # d /\ PayerOf[c] = PayerOf[d] /\ calls[c].seq = calls[d].seq
      => ~ (calls[c].fate = "success" /\ calls[d].fate = "success")

ClientInv ==
  /\ now \in Nat
  /\ sequence \in [Payers -> Nat]
  /\ DOMAIN calls = Invocations /\ calls = [c \in Invocations |-> calls[c]]
  /\ \A c \in Invocations : CallOK(calls[c], now, sequence[PayerOf[c]])
  /\ OneOfANumber

-----------------------------------------------------------------------------
(* Time and the payer's other transactions do no harm to what is known of a call. *)
LEMMA CallStaysOK ==
  ASSUME NEW r, NEW n \in Nat, NEW q \in Nat, NEW m \in Nat, NEW p \in Nat,
         CallOK(r, n, q), n <= m, q <= p
  PROVE  CallOK(r, m, p)
<1>1. r.built \in Nat /\ r.seq \in Nat
  BY DEF CallOK, CallRecords
<1>2. r.built <= n => r.built <= m
  BY <1>1
<1>3. r.seq <= q => r.seq <= p
  BY <1>1
<1>. QED
  BY <1>2, <1>3 DEF CallOK

(* A step of a handler keeps the invariant if what becomes of the call is in order and the
   fate of what it sent is left to the ledger. *)
LEMMA CallMoves ==
  ASSUME Client!ClientAssumption, ClientInv, NEW c \in Invocations, NEW r,
         calls' = [calls EXCEPT ![c] = r],
         UNCHANGED <<now, sequence>>,
         CallOK(r, now, sequence[PayerOf[c]]),
         r.fate = "success" => calls[c].fate = "success" /\ r.seq = calls[c].seq
  PROVE  ClientInv'
<1>1. /\ calls'[c] = r
      /\ \A d \in Invocations : d # c => calls'[d] = calls[d]
      /\ DOMAIN calls' = Invocations /\ calls' = [d \in Invocations |-> calls'[d]]
  BY DEF ClientInv
<1>2. \A d \in Invocations : CallOK(calls'[d], now', sequence'[PayerOf[d]])
  BY <1>1 DEF ClientInv
<1>3. OneOfANumber'
  BY <1>1 DEF ClientInv, OneOfANumber
<1>. QED
  BY <1>1, <1>2, <1>3 DEF ClientInv

LEMMA ClientInitially == ASSUME Client!ClientAssumption, Client!Init PROVE ClientInv
<1>1. \A c \in Invocations : calls[c] = Client!NotSent
  BY DEF Client!Init
<1>2. \A q \in Nat : CallOK(Client!NotSent, 0, q)
  BY DEF CallOK, CallRecords, Client!NotSent
<1>3. \A c \in Invocations : sequence[PayerOf[c]] \in Nat
  BY DEF Client!Init, Client!ClientAssumption
<1>4. OneOfANumber
  BY <1>1 DEF OneOfANumber, Client!NotSent
<1>. QED
  BY <1>1, <1>2, <1>3, <1>4 DEF Client!Init, ClientInv

LEMMA StepKeepsClientInv == ASSUME Client!ClientAssumption, ClientInv, NEW c \in Invocations, Client!Step(c) PROVE ClientInv'
<1>. DEFINE q == sequence[PayerOf[c]]
<1>1. CallOK(calls[c], now, q) /\ now \in Nat /\ q \in Nat
  BY DEF ClientInv, Client!ClientAssumption
<1>2. CASE Client!Build(c)
  <2>. DEFINE r == [calls[c] EXCEPT !.at = "built", !.seq = q + 1, !.built = now]
  <2>1. /\ calls[c].at = "start" /\ UNCHANGED <<now, sequence>>
        /\ calls' = [calls EXCEPT ![c] = r]
    BY <1>2 DEF Client!Build
  <2>2. calls[c] \in CallRecords /\ calls[c].fate = "none" /\ calls[c].answer = "none"
    BY <1>1, <2>1 DEF CallOK
  <2>3. /\ r \in CallRecords /\ r.at = "built" /\ r.seq = q + 1 /\ r.built = now
        /\ r.fate = "none" /\ r.answer = "none"
    <3>1. q + 1 \in Nat
      BY <1>1
    <3>. HIDE DEF q
    <3>. QED
      BY <1>1, <2>2, <3>1 DEF CallRecords
  <2>4. CallOK(r, now, q)
    BY <1>1, <2>3 DEF CallOK
  <2>. QED
    BY <2>1, <2>3, <2>4, CallMoves
<1>3. ASSUME NEW answer \in {"refused", "confirmed", "failed", "not confirmed"},
             calls' = [calls EXCEPT ![c] = Client!Answers(c, answer)],
             UNCHANGED <<now, sequence>>,
             answer = "refused" => calls[c].fate = "none",
             answer # "refused" => calls[c].at = "waiting",
             answer \in {"confirmed"} => calls[c].fate = "success",
             answer \in {"failed"} => calls[c].fate = "failed",
             calls[c].at # "start"
      PROVE  ClientInv'
  <2>. DEFINE r == [calls[c] EXCEPT !.at = "done", !.answer = answer]
  <2>1. calls[c] \in CallRecords
    BY <1>1 DEF CallOK
  <2>2. /\ r \in CallRecords /\ r.at = "done" /\ r.answer = answer
        /\ r.seq = calls[c].seq /\ r.fate = calls[c].fate
        /\ r.built = calls[c].built /\ r.sent = calls[c].sent
    BY <2>1 DEF CallRecords
  <2>3. /\ r.built <= now
        /\ r.answer # "refused" => r.built <= r.sent
        /\ r.fate \in {"success", "failed"} => r.seq <= q
        /\ r.answer = "confirmed" => r.fate = "success"
        /\ r.answer = "failed" => r.fate = "failed"
        /\ r.answer = "refused" => r.fate = "none"
    BY <1>1, <1>3, <2>2 DEF CallOK
  <2>4. CallOK(r, now, q)
    BY <2>2, <2>3 DEF CallOK
  <2>. QED
    BY <1>3, <2>2, <2>4, CallMoves DEF Client!Answers
<1>4. CASE Client!Prepare(c)
  <2>1. calls[c].at = "built" /\ calls[c].fate = "none" /\ UNCHANGED <<now, sequence>>
    BY <1>1, <1>4 DEF Client!Prepare, CallOK
  <2>2. CASE calls' = [calls EXCEPT ![c] = Client!Answers(c, "refused")]
    BY <1>3, <2>1, <2>2
  <2>3. CASE calls' = [calls EXCEPT ![c].at = "prepared"]
    <3>. DEFINE r == [calls[c] EXCEPT !.at = "prepared"]
    <3>1. CallOK(r, now, q) /\ r.fate = "none"
      BY <1>1, <2>1 DEF CallOK, CallRecords
    <3>2. calls' = [calls EXCEPT ![c] = r]
      BY <2>3
    <3>. QED
      BY <2>1, <3>1, <3>2, CallMoves
  <2>. QED
    BY <1>4, <2>2, <2>3 DEF Client!Prepare
<1>5. CASE Client!Send(c)
  <2>1. calls[c].at = "prepared" /\ calls[c].fate = "none" /\ UNCHANGED <<now, sequence>>
    BY <1>1, <1>5 DEF Client!Send, CallOK
  <2>2. CASE calls' = [calls EXCEPT ![c] = Client!Answers(c, "refused")]
    BY <1>3, <2>1, <2>2
  <2>3. ASSUME NEW fate \in {"open", "none"},
               calls' = [calls EXCEPT ![c] =
                          [@ EXCEPT !.at = "waiting", !.sent = now, !.fate = fate]]
        PROVE  ClientInv'
    <3>. DEFINE r == [calls[c] EXCEPT !.at = "waiting", !.sent = now, !.fate = fate]
    <3>1. CallOK(r, now, q) /\ r.fate # "success"
      BY <1>1, <2>1 DEF CallOK, CallRecords
    <3>2. calls' = [calls EXCEPT ![c] = r]
      BY <2>3
    <3>. QED
      BY <2>1, <3>1, <3>2, CallMoves
  <2>4. PICK status \in {"PENDING", "ERROR", "TRY_AGAIN_LATER"} :
          calls' = [calls EXCEPT ![c] =
                     IF status = "ERROR" THEN Client!Answers(c, "refused")
                     ELSE [@ EXCEPT !.at = "waiting", !.sent = now,
                                    !.fate = IF status = "PENDING" THEN "open" ELSE "none"]]
    BY <1>5 DEF Client!Send
  <2>5. CASE status = "ERROR"
    BY <2>2, <2>4, <2>5
  <2>6. CASE status = "PENDING"
    BY <2>3, <2>4, <2>6
  <2>7. CASE status = "TRY_AGAIN_LATER"
    BY <2>3, <2>4, <2>7
  <2>. QED
    BY <2>4, <2>5, <2>6, <2>7
<1>6. CASE Client!Poll(c)
  <2>1. calls[c].at = "waiting" /\ UNCHANGED <<now, sequence>>
    BY <1>6 DEF Client!Poll
  <2>2. CASE calls' = [calls EXCEPT ![c] = Client!Answers(c, "not confirmed")]
    BY <1>3, <2>1, <2>2
  <2>3. CASE calls[c].fate = "success" /\ calls' = [calls EXCEPT ![c] = Client!Answers(c, "confirmed")]
    BY <1>3, <2>1, <2>3
  <2>4. CASE calls[c].fate = "failed" /\ calls' = [calls EXCEPT ![c] = Client!Answers(c, "failed")]
    BY <1>3, <2>1, <2>4
  <2>. QED
    BY <1>6, <2>2, <2>3, <2>4 DEF Client!Poll
<1>7. CASE Client!PollFails(c)
  BY <1>3, <1>7 DEF Client!PollFails
<1>. QED
  BY <1>2, <1>4, <1>5, <1>6, <1>7 DEF Client!Step

LEMMA ApplyKeepsClientInv ==
  ASSUME Client!ClientAssumption, ClientInv, NEW c \in Invocations, NEW fate \in {"success", "failed"},
         Client!Apply(c, fate)
  PROVE  ClientInv'
<1>. DEFINE r == [calls[c] EXCEPT !.fate = fate]
            q == sequence[PayerOf[c]]
<1>1. /\ now \in Nat /\ q \in Nat
      /\ \A d \in Invocations : PayerOf[d] \in Payers /\ sequence[PayerOf[d]] \in Nat
      /\ \A d \in Invocations : CallOK(calls[d], now, sequence[PayerOf[d]])
  BY DEF ClientInv, Client!ClientAssumption
<1>2. calls[c].fate = "open" /\ calls[c].seq = q + 1 /\ now' = now
  BY DEF Client!Apply
<1>3. /\ calls'[c] = r /\ r.seq = calls[c].seq /\ r.fate = fate
      /\ \A d \in Invocations : d # c => calls'[d] = calls[d]
      /\ DOMAIN calls' = Invocations /\ calls' = [d \in Invocations |-> calls'[d]]
  BY <1>1 DEF Client!Apply, ClientInv, CallOK, CallRecords
<1>4. /\ sequence' \in [Payers -> Nat]
      /\ \A d \in Invocations : sequence'[PayerOf[d]] \in Nat
      /\ \A d \in Invocations : sequence[PayerOf[d]] <= sequence'[PayerOf[d]]
      /\ sequence'[PayerOf[c]] = q + 1
  BY <1>1 DEF Client!Apply, ClientInv
<1>5. CallOK(r, now', sequence'[PayerOf[c]])
  <2>1. calls[c].at \in {"waiting", "done"} /\ calls[c].answer \in {"none", "not confirmed"}
    BY <1>1, <1>2 DEF CallOK, CallRecords
  <2>2. r \in CallRecords
    BY <1>1 DEF CallOK, CallRecords
  <2>3. /\ r.at = calls[c].at /\ r.answer = calls[c].answer /\ r.built = calls[c].built
        /\ r.sent = calls[c].sent
    BY <1>1 DEF CallOK, CallRecords
  <2>4. /\ r.built <= now'
        /\ r.answer # "refused" => r.built <= r.sent
        /\ r.seq <= sequence'[PayerOf[c]]
        /\ r.answer \in {"none", "not confirmed"}
        /\ r.at \in {"waiting", "done"}
        /\ r.at = "waiting" => r.answer = "none"
    <3>1. /\ calls[c].built <= now
          /\ calls[c].answer # "refused" => calls[c].built <= calls[c].sent
          /\ calls[c].at = "waiting" => calls[c].answer = "none"
      BY <1>1, <2>1 DEF CallOK
    <3>2. q + 1 <= q + 1
      BY <1>1
    <3>. QED
      BY <1>2, <1>3, <1>4, <2>1, <2>3, <3>1, <3>2
  <2>. QED
    BY <2>2, <2>4 DEF CallOK
<1>6. \A d \in Invocations : d # c => CallOK(calls'[d], now', sequence'[PayerOf[d]])
  <2>. SUFFICES ASSUME NEW d \in Invocations, d # c
                PROVE  CallOK(calls[d], now, sequence'[PayerOf[d]])
    BY <1>2, <1>3
  <2>1. /\ now <= now
        /\ sequence[PayerOf[d]] <= sequence'[PayerOf[d]]
        /\ sequence[PayerOf[d]] \in Nat /\ sequence'[PayerOf[d]] \in Nat
    BY <1>1, <1>4
  <2>. QED
    BY <1>1, <2>1, CallStaysOK
<1>7. OneOfANumber'
  <2>1. \A d \in Invocations : PayerOf[d] = PayerOf[c] /\ calls[d].fate = "success" =>
                           calls[d].seq # calls[c].seq
    <3>. SUFFICES ASSUME NEW d \in Invocations, PayerOf[d] = PayerOf[c], calls[d].fate = "success"
                  PROVE  calls[d].seq # calls[c].seq
      OBVIOUS
    <3>1. calls[d].seq <= q
      BY <1>1 DEF CallOK
    <3>2. calls[d].seq \in Nat
      BY <1>1 DEF CallOK, CallRecords
    <3>. QED
      BY <1>1, <1>2, <3>1, <3>2
  <2>2. \A d \in Invocations : calls'[d].seq = calls[d].seq
    BY <1>3
  <2>3. \A d \in Invocations : d # c /\ PayerOf[d] = PayerOf[c] /\ calls'[d].seq = calls'[c].seq
                            => calls'[d].fate # "success"
    BY <1>3, <2>1
  <2>. QED
    BY <1>3, <2>2, <2>3 DEF ClientInv, OneOfANumber
<1>. QED
  BY <1>1, <1>2, <1>3, <1>4, <1>5, <1>6, <1>7 DEF ClientInv

LEMMA TickKeepsClientInv == ASSUME Client!ClientAssumption, ClientInv, Client!Tick PROVE ClientInv'
<1>1. \A c \in Invocations : sequence[PayerOf[c]] \in Nat
  BY DEF ClientInv, Client!ClientAssumption
<1>2. \A c \in Invocations : CallOK(calls[c], now + 1, sequence[PayerOf[c]])
  BY <1>1, CallStaysOK DEF ClientInv
<1>. QED
  BY <1>2 DEF ClientInv, Client!Tick, OneOfANumber

(* A poll that gave up did so before the network's time bound, and a moment later the     *)
(* bound has passed too (waitForTransaction polls for 120 seconds, setTimeout(180)).         *)
LEMMA BoundPassed ==
  ASSUME NEW b \in Nat, NEW s \in Nat, NEW n \in Nat, b <= s, n > s + Client!PollFor
  PROVE  n >= b + Client!TimeBound
BY DEF Client!PollFor, Client!TimeBound

(* What waitForTransaction answers is so, whatever else the account sends and whenever a
   transaction lands; and what it could not confirm is settled a minute later. *)
LEMMA CallersAreToldTheTruth == ASSUME ClientInv PROVE Client!AnswersAreTrue
<1>. SUFFICES ASSUME NEW c \in Invocations
     PROVE  /\ calls[c].answer = "confirmed" => calls[c].fate = "success"
            /\ calls[c].answer \in {"failed", "refused"} => calls[c].fate \in {"failed", "none"}
            /\ calls[c].answer = "not confirmed" /\ now > calls[c].sent + Client!PollFor => Client!Final(c)
            /\ \A d \in Invocations \ {c} :
                 PayerOf[c] = PayerOf[d] /\ calls[c].seq = calls[d].seq
                   => ~ (calls[c].fate = "success" /\ calls[d].fate = "success")
  BY DEF Client!AnswersAreTrue
<1>1. CallOK(calls[c], now, sequence[PayerOf[c]]) /\ now \in Nat
  BY DEF ClientInv
<1>2. ASSUME calls[c].answer = "not confirmed", now > calls[c].sent + Client!PollFor
      PROVE  Client!Final(c)
  <2>1. calls[c].at = "done" /\ calls[c].built <= calls[c].sent
    BY <1>1, <1>2 DEF CallOK, CallRecords
  <2>2. calls[c].built \in Nat /\ calls[c].sent \in Nat
    BY <1>1 DEF CallOK, CallRecords
  <2>3. /\ now \in Nat /\ calls[c].built <= calls[c].sent
        /\ now > calls[c].sent + Client!PollFor
    BY <1>1, <1>2, <2>1
  <2>4. now >= calls[c].built + Client!TimeBound
    BY <2>2, <2>3, BoundPassed
  <2>. QED
    BY <2>4 DEF Client!Final
<1>. QED
  BY <1>1, <1>2 DEF CallOK, ClientInv, OneOfANumber

LEMMA ClientStep == ASSUME Client!ClientAssumption, ClientInv, [Client!Next]_(Client!vars) PROVE ClientInv'
<1>1. ASSUME Client!Next PROVE ClientInv'
  BY <1>1, StepKeepsClientInv, ApplyKeepsClientInv, TickKeepsClientInv DEF Client!Next
<1>2. ASSUME UNCHANGED Client!vars PROVE ClientInv'
  BY <1>2 DEF ClientInv, Client!vars, OneOfANumber
<1>. QED
  BY <1>1, <1>2

-----------------------------------------------------------------------------
(* A form with a preview.                                                   *)

\* Only the last request of an aborting form may still be answered (the AbortController
\* of the effect that asks for the preview).
OnlyLatest ==
  form \in Form!Aborting =>
    /\ armed => pending = {}
    /\ pending \subseteq {[id |-> asked, input |-> typed]}
    /\ typed = NoInput => shown = NoInput /\ ~ armed /\ pending = {}

FormInv ==
  /\ form \in Form!Forms /\ armed \in BOOLEAN /\ asked \in Nat
  /\ OnlyLatest
  /\ Form!PreviewFitsInput

\* The effect of a change of the input aborts the request before it.
LEMMA TypeKeepsFormInv ==
  ASSUME FormInv, NEW v \in Inputs \cup {NoInput}, Form!Type(v)
  PROVE  FormInv'
<1>1. form' = form /\ asked' = asked /\ outcome' = "open" /\ armed' \in BOOLEAN /\ typed' = v
  BY DEF Form!Type
<1>2. form \in Form!Aborting => pending' = {}
  BY DEF Form!Type, Form!AbortOlder
<1>3. form \in Form!Aborting /\ v = NoInput => shown' = NoInput /\ ~ armed'
  BY DEF Form!Type, Form!Aborting
<1>4. form \in Form!Aborting /\ ~ armed' => v = NoInput
  BY DEF Form!Type
<1>5. OnlyLatest'
  BY <1>1, <1>2, <1>3 DEF OnlyLatest
<1>6. Form!PreviewFitsInput'
  BY <1>1, <1>3, <1>4 DEF Form!PreviewFitsInput
<1>. QED
  BY <1>1, <1>5, <1>6 DEF FormInv

\* The timer fires: the one request under way is for what is typed.
LEMMA AskKeepsFormInv ==
  ASSUME FormInv, Form!Ask
  PROVE  FormInv'
<1>1. armed /\ armed' = FALSE /\ form' = form /\ typed' = typed
  BY DEF Form!Ask
<1>2. CASE typed = NoInput
  <2>1. shown' = NoInput /\ pending' = pending /\ asked' = asked /\ form \notin Form!Aborting
    BY <1>1, <1>2 DEF Form!Ask, FormInv, OnlyLatest
  <2>. QED
    BY <1>1, <2>1 DEF Form!Ask, FormInv, OnlyLatest, Form!PreviewFitsInput
<1>3. CASE typed # NoInput
  <2>1. /\ asked' = asked + 1 /\ shown' = shown
        /\ pending' = pending \cup {[id |-> asked', input |-> typed]}
    BY <1>3 DEF Form!Ask
  <2>2. asked' \in Nat
    BY <2>1 DEF FormInv
  <2>3. form \in Form!Aborting => pending' = {[id |-> asked', input |-> typed']}
    BY <1>1, <2>1 DEF FormInv, OnlyLatest
  <2>4. OnlyLatest' /\ Form!PreviewFitsInput'
    BY <1>1, <1>3, <2>3 DEF OnlyLatest, Form!PreviewFitsInput
  <2>. QED
    <3>1. form' \in Form!Forms /\ armed' \in BOOLEAN
      BY <1>1 DEF FormInv
    <3>. QED
      BY <2>2, <2>4, <3>1 DEF FormInv
<1>. QED
  BY <1>2, <1>3

\* An answer, a refusal or a failure is that of the one request under way.
LEMMA AnswerKeepsFormInv ==
  ASSUME FormInv, NEW r \in pending, Form!Answer(r) \/ Form!Refuse(r) \/ Form!Fail(r)
  PROVE  FormInv'
<1>1. /\ form' = form /\ typed' = typed /\ armed' = armed /\ asked' = asked
      /\ pending' = pending \ {r}
  BY DEF Form!Answer, Form!Refuse, Form!Fail, Form!Over
<1>3. CASE form \notin Form!Aborting
  BY <1>1, <1>3 DEF FormInv, OnlyLatest, Form!PreviewFitsInput
<1>4. CASE form \in Form!Aborting
  <2>1. ~ armed /\ r.id = asked /\ r.input = typed /\ typed # NoInput
        /\ pending \subseteq {[id |-> asked, input |-> typed]}
    BY <1>4 DEF FormInv, OnlyLatest
  <2>2. OnlyLatest'
    BY <1>1, <2>1 DEF OnlyLatest
  <2>3. \/ shown' = typed /\ outcome' = "answered"
        \/ outcome' = "lost"
        \/ outcome' = "refused" /\ (form # "sponsorship" => shown' \in {typed, NoInput})
    BY <2>1 DEF Form!Answer, Form!Refuse, Form!Fail, Form!Over
  <2>4. Form!PreviewFitsInput'
    BY <1>1, <2>1, <2>3 DEF Form!PreviewFitsInput
  <2>. QED
    BY <1>1, <2>2, <2>4 DEF FormInv
<1>. QED
  BY <1>3, <1>4

LEMMA FormInitially == ASSUME Form!Init PROVE FormInv
<1>1. form \in Form!Forms /\ armed \in BOOLEAN
  BY DEF Form!Init
<1>2. asked \in Nat
  BY DEF Form!Init
<1>3. OnlyLatest /\ Form!PreviewFitsInput
  BY DEF Form!Init, OnlyLatest, Form!PreviewFitsInput
<1>. QED
  BY <1>1, <1>2, <1>3 DEF FormInv

LEMMA FormStep == ASSUME FormInv, [Form!Next]_(Form!vars) PROVE FormInv'
<1>1. ASSUME Form!Next PROVE FormInv'
  BY <1>1, TypeKeepsFormInv, AskKeepsFormInv, AnswerKeepsFormInv DEF Form!Next
<1>2. ASSUME UNCHANGED Form!vars PROVE FormInv'
  BY <1>2 DEF FormInv, OnlyLatest, Form!PreviewFitsInput, Form!vars
<1>. QED
  BY <1>1, <1>2

-----------------------------------------------------------------------------
(* The commitment tree has proofs of its own, about the module that Services   *)
(* takes an instance of.                                                       *)

TreeSide == INSTANCE MerkleTreeProofs WITH Leaves <- TreeLeaves

LEMMA SameTree ==
  /\ Tree!TreeAssumption <=> TreeSide!TreeAssumption
  /\ Tree!Init <=> TreeSide!Init
  /\ Tree!Next <=> TreeSide!Next
  /\ UNCHANGED Tree!vars <=> UNCHANGED TreeSide!vars
  /\ TreeSide!RootIsOfFullTree <=> Tree!RootIsOfFullTree
  /\ TreeSide!PathsProve <=> Tree!PathsProve
  /\ TreeSide!RootsDiffer <=> Tree!RootsDiffer
<1>1. Tree!TreeAssumption <=> TreeSide!TreeAssumption
  BY DEF Tree!TreeAssumption, TreeSide!TreeAssumption
<1>2. Tree!Init <=> TreeSide!Init
  BY DEF Tree!Init, TreeSide!Init, Tree!Leaf, TreeSide!Leaf
<1>3. UNCHANGED Tree!vars <=> UNCHANGED TreeSide!vars
  BY DEF Tree!vars, TreeSide!vars
<1>4. Tree!Zeros = TreeSide!Zeros
  BY DEF Tree!Zeros, TreeSide!Zeros, Tree!Leaf, TreeSide!Leaf, Tree!Hash, TreeSide!Hash
<1>5. \A l : Tree!Levels(l) = TreeSide!Levels(l)
  BY DEF Tree!Zeros, TreeSide!Zeros, Tree!Levels, TreeSide!Levels, Tree!Leaf, TreeSide!Leaf,
         Tree!Hash, TreeSide!Hash, Tree!Parents, TreeSide!Parents, Tree!FillUp, TreeSide!FillUp
<1>6. \A l : Tree!ComputeRoot(l) = TreeSide!ComputeRoot(l)
  BY <1>4, <1>5 DEF Tree!ComputeRoot, TreeSide!ComputeRoot
<1>7. Tree!Next <=> TreeSide!Next
  BY <1>6 DEF Tree!Next, TreeSide!Next, Tree!AppendCommitment, TreeSide!AppendCommitment
<1>8. \A l, i : Tree!Siblings(l, i) = TreeSide!Siblings(l, i)
  BY <1>4, <1>5 DEF Tree!Siblings, TreeSide!Siblings, Tree!NodeAt, TreeSide!NodeAt,
         Tree!Sibling, TreeSide!Sibling, Tree!Places, TreeSide!Places
<1>9. \A x, i, s : Tree!RootFromPath(x, i, s) = TreeSide!RootFromPath(x, i, s)
  BY Zenon DEF Tree!RootFromPath, TreeSide!RootFromPath, Tree!Path, TreeSide!Path,
         Tree!Leaf, TreeSide!Leaf, Tree!Hash, TreeSide!Hash, Tree!Places, TreeSide!Places
<1>10. \A l, k : Tree!LeafAt(l, k) = TreeSide!LeafAt(l, k)
  BY DEF Tree!LeafAt, TreeSide!LeafAt, Tree!NodeAt, TreeSide!NodeAt
<1>11. \A l : Tree!FullTree(l) = TreeSide!FullTree(l)
  BY Zenon DEF Tree!FullTree, TreeSide!FullTree, Tree!LeafAt, TreeSide!LeafAt,
         Tree!NodeAt, TreeSide!NodeAt, Tree!Leaf, TreeSide!Leaf, Tree!Hash, TreeSide!Hash
<1>12. Tree!Width = TreeSide!Width
  BY DEF Tree!Width, TreeSide!Width
<1>13. Tree!Capacity = TreeSide!Capacity /\ Tree!Positions = TreeSide!Positions
  BY <1>12 DEF Tree!Capacity, TreeSide!Capacity, Tree!Positions, TreeSide!Positions
<1>14. TreeSide!RootIsOfFullTree <=> Tree!RootIsOfFullTree
  BY <1>6, <1>11 DEF Tree!RootIsOfFullTree, TreeSide!RootIsOfFullTree
<1>15. TreeSide!PathsProve <=> Tree!PathsProve
  BY <1>8, <1>9, <1>10, <1>13 DEF Tree!PathsProve, TreeSide!PathsProve
<1>16. TreeSide!RootsDiffer <=> Tree!RootsDiffer
  BY <1>6, <1>13 DEF Tree!RootsDiffer, TreeSide!RootsDiffer
<1>. QED
  BY <1>1, <1>2, <1>3, <1>7, <1>14, <1>15, <1>16

-----------------------------------------------------------------------------
(* The indexer.  The invariant says what each sync may rely on when it saves: *)
(* the leaves it saw are leaves of the pool for ever, and once its bulk has   *)
(* succeeded they are in the cache, which only grows, whatever the other      *)
(* syncs did meanwhile.                                                       *)

\* The first n leaves of a pool are in the cache, each at its index.
CachedUpTo(p, n) == \A i \in 1 .. n : <<i - 1, leaves[p][i]>> \in cached[p]

LaneSet == Index!Networks \X Pools

\* A sync that runs is at a lane, and has seen no more leaves than there are; when it saves,
\* those are cached.
SyncOK(s) ==
  syncs[s] # Index!Idle =>
    /\ syncs[s] \in [at : {"read", "bulk", "save", "degrade"}, lane : 1 .. Len(Index!Lanes),
                     seen : Nat, first : BOOLEAN]
    /\ syncs[s].seen <= Len(leaves[Index!Lane(s)[2]])
    /\ syncs[s].at = "save" => CachedUpTo(Index!Lane(s)[2], syncs[s].seen)

\* What a lane counts is there and cached, also while it reads degraded.
StateOK(l) ==
  /\ state[l] \in [status : {"untracked", "healthy", "degraded"}, count : Nat]
  /\ state[l].count <= Len(leaves[l[2]])
  /\ CachedUpTo(l[2], state[l].count)

IndexTypes ==
  /\ env \in Environments
  /\ leaves \in [Pools -> Seq(Leaves)]
  /\ DOMAIN cached = Pools
  /\ DOMAIN state = LaneSet
  /\ DOMAIN syncs = Slots

IndexInv ==
  /\ IndexTypes
  /\ \A s \in Slots : SyncOK(s)
  /\ \A l \in LaneSet : StateOK(l)

-----------------------------------------------------------------------------
(* The lanes *)

\* Every lane is a network and a pool (getPoolsForNetwork of syncAllOnce).
LEMMA LanesAreLanes ==
  ASSUME Index!IndexerAssumption, env \in Environments
  PROVE  Index!Lanes \in Seq(LaneSet)
<1>1. ASSUME NEW n \in Index!Networks, NEW a \in Index!Assets
      PROVE  Index!LaneIf(n, a) \in Seq(LaneSet)
  <2>1. Index!ContractAddress(n, a) \in Pools \cup {Unset}
    <3>1. env \in [{"MAINNET", "TESTNET", "UNPREFIXED"} \X Index!Assets -> Pools \cup {Unset}]
      BY DEF Index!IndexerAssumption
    <3>2. <<"MAINNET", a>> \in {"MAINNET", "TESTNET", "UNPREFIXED"} \X Index!Assets
      OBVIOUS
    <3>3. <<"TESTNET", a>> \in {"MAINNET", "TESTNET", "UNPREFIXED"} \X Index!Assets
      OBVIOUS
    <3>4. <<"UNPREFIXED", a>> \in {"MAINNET", "TESTNET", "UNPREFIXED"} \X Index!Assets
      OBVIOUS
    <3>. HIDE DEF Index!Assets
    <3>. QED
      BY <3>1, <3>2, <3>3, <3>4 DEF Index!ContractAddress
  <2>2. CASE Index!ContractAddress(n, a) = Unset
    <3>1. Index!LaneIf(n, a) = <<>>
      BY <2>2 DEF Index!LaneIf
    <3>. QED
      BY <3>1
  <2>3. CASE Index!ContractAddress(n, a) # Unset
    <3>1. <<n, Index!ContractAddress(n, a)>> \in LaneSet
      BY <2>1, <2>3 DEF LaneSet
    <3>2. Index!LaneIf(n, a) = <<<<n, Index!ContractAddress(n, a)>>>>
      BY <2>3 DEF Index!LaneIf
    <3>. QED
      BY <3>1, <3>2
  <2>. QED
    BY <2>2, <2>3
<1>2. /\ Index!LaneIf("mainnet", "usdc") \in Seq(LaneSet) /\ Index!LaneIf("mainnet", "xlm") \in Seq(LaneSet)
      /\ Index!LaneIf("testnet", "usdc") \in Seq(LaneSet) /\ Index!LaneIf("testnet", "xlm") \in Seq(LaneSet)
  BY <1>1 DEF Index!Networks, Index!Assets
<1>. QED
  BY <1>2, ConcatProperties DEF Index!Lanes

\* The lane a sync is at is one.
LEMMA AtALane ==
  ASSUME Index!IndexerAssumption, IndexInv, NEW s \in Slots, syncs[s] # Index!Idle
  PROVE  /\ Index!Lane(s) \in LaneSet /\ Index!Lane(s)[2] \in Pools
         /\ leaves[Index!Lane(s)[2]] \in Seq(Leaves)
         /\ Index!Lanes \in Seq(LaneSet)
<1>1. Index!Lanes \in Seq(LaneSet)
  BY LanesAreLanes DEF IndexInv, IndexTypes
<1>2. syncs[s].lane \in 1 .. Len(Index!Lanes)
  BY DEF IndexInv, SyncOK
<1>3. Index!Lane(s) \in LaneSet
  BY <1>1, <1>2 DEF Index!Lane
<1>. QED
  BY <1>1, <1>3 DEF LaneSet, IndexInv, IndexTypes

\* The environment of a process does not change, and neither do its lanes.
LEMMA SameLanes == ASSUME env' = env PROVE Index!Lanes' = Index!Lanes
BY DEF Index!Lanes, Index!LaneIf, Index!ContractAddress

-----------------------------------------------------------------------------
(* What the steps have in common *)

\* The chains only grow at their ends, and the cache only grows.
Grows ==
  /\ env' = env
  /\ leaves' \in [Pools -> Seq(Leaves)] /\ DOMAIN cached' = Pools
  /\ \A p \in Pools :
       /\ Len(leaves[p]) <= Len(leaves'[p])
       /\ \A i \in 1 .. Len(leaves[p]) : leaves'[p][i] = leaves[p][i]
       /\ cached[p] \subseteq cached'[p]

\* What is cached stays so (PoolCommitment is never deleted from).
LEMMA StaysCached ==
  ASSUME Grows, NEW p \in Pools, leaves[p] \in Seq(Leaves), NEW n \in Nat,
         n <= Len(leaves[p]), CachedUpTo(p, n)
  PROVE  n <= Len(leaves'[p]) /\ CachedUpTo(p, n)'
<1>1. n <= Len(leaves'[p])
  BY DEF Grows
<1>2. ASSUME NEW i \in 1 .. n
      PROVE  <<i - 1, leaves'[p][i]>> \in cached'[p]
  <2>1. leaves'[p][i] = leaves[p][i]
    BY DEF Grows
  <2>2. <<i - 1, leaves[p][i]>> \in cached[p]
    BY DEF CachedUpTo
  <2>. QED
    BY <2>1, <2>2 DEF Grows
<1>. QED
  BY <1>1, <1>2 DEF CachedUpTo

\* A sync that is not disturbed keeps what it knows.
LEMMA OtherSyncs ==
  ASSUME Index!IndexerAssumption, IndexInv, Grows, NEW s \in Slots, syncs'[s] = syncs[s]
  PROVE  SyncOK(s)'
<1>. SUFFICES ASSUME syncs[s] # Index!Idle
     PROVE  SyncOK(s)'
  BY DEF SyncOK
<1>1. Index!Lane(s)' = Index!Lane(s) /\ Index!Lanes' = Index!Lanes
  BY SameLanes DEF Grows, Index!Lane
<1>2. Index!Lane(s)[2] \in Pools /\ leaves[Index!Lane(s)[2]] \in Seq(Leaves)
  BY AtALane
<1>3. /\ syncs[s] \in [at : {"read", "bulk", "save", "degrade"}, lane : 1 .. Len(Index!Lanes),
                       seen : Nat, first : BOOLEAN]
      /\ syncs[s].seen <= Len(leaves[Index!Lane(s)[2]])
      /\ syncs[s].at = "save" => CachedUpTo(Index!Lane(s)[2], syncs[s].seen)
  BY DEF IndexInv, SyncOK
<1>4. syncs[s].seen \in Nat
  BY <1>3
<1>5. syncs[s].seen <= Len(leaves'[Index!Lane(s)[2]])
  <2>1. /\ Len(leaves[Index!Lane(s)[2]]) \in Nat /\ Len(leaves'[Index!Lane(s)[2]]) \in Nat
        /\ Len(leaves[Index!Lane(s)[2]]) <= Len(leaves'[Index!Lane(s)[2]])
    BY <1>2 DEF Grows
  <2>. QED
    BY <2>1, <1>3, <1>4
<1>6. syncs[s].at = "save" => CachedUpTo(Index!Lane(s)[2], syncs[s].seen)'
  <2>. SUFFICES ASSUME syncs[s].at = "save"
       PROVE  CachedUpTo(Index!Lane(s)[2], syncs[s].seen)'
    OBVIOUS
  <2>. DEFINE p == Index!Lane(s)[2]
  <2>. DEFINE n == syncs[s].seen
  <2>1. p' = p /\ n' = n
    BY <1>1
  <2>2. CachedUpTo(p, n) /\ n <= Len(leaves[p]) /\ p \in Pools /\ n \in Nat /\ leaves[p] \in Seq(Leaves)
    BY <1>2, <1>3, <1>4
  <2>3. ASSUME NEW q, NEW m, q = p, m = n PROVE CachedUpTo(q, m)'
    BY <2>2, <2>3, StaysCached
  <2>. QED
    BY <2>1, <2>3 DEF CachedUpTo
<1>. QED
  BY <1>1, <1>3, <1>5, <1>6 DEF SyncOK

\* What a lane counts stays true if its state is not written.
LEMMA OtherLanes ==
  ASSUME IndexInv, Grows, NEW l \in LaneSet, state'[l] = state[l]
  PROVE  StateOK(l)'
<1>1. /\ state[l] \in [status : {"untracked", "healthy", "degraded"}, count : Nat]
      /\ state[l].count <= Len(leaves[l[2]]) /\ CachedUpTo(l[2], state[l].count)
  BY DEF IndexInv, StateOK
<1>2. l[2] \in Pools /\ leaves[l[2]] \in Seq(Leaves) /\ state[l].count \in Nat
  BY <1>1 DEF LaneSet, IndexInv, IndexTypes
<1>3. ASSUME NEW m, m = state[l].count
      PROVE  m <= Len(leaves'[l[2]]) /\ CachedUpTo(l[2], m)'
  BY <1>1, <1>2, <1>3, StaysCached
<1>. QED
  BY <1>1, <1>3 DEF StateOK, CachedUpTo

\* A step of one sync: what it becomes, what it caches and what it says of its lane.
LEMMA SyncMoves ==
  ASSUME Index!IndexerAssumption, IndexInv, Grows, NEW s \in Slots, NEW r,
         syncs' = [syncs EXCEPT ![s] = r], SyncOK(s)', DOMAIN state' = LaneSet,
         \A l \in LaneSet : state'[l] = state[l] \/ StateOK(l)'
  PROVE  IndexInv'
<1>1. IndexTypes'
  BY DEF IndexInv, IndexTypes, Grows
<1>2. \A t \in Slots : SyncOK(t)'
  <2>. SUFFICES ASSUME NEW t \in Slots PROVE SyncOK(t)'
    OBVIOUS
  <2>1. CASE t # s
    BY <2>1, OtherSyncs DEF IndexInv, IndexTypes
  <2>. QED
    BY <2>1
<1>3. \A l \in LaneSet : StateOK(l)'
  BY OtherLanes
<1>. QED
  BY <1>1, <1>2, <1>3 DEF IndexInv

\* Nothing is appended and nothing cached.
LEMMA IndexQuiet == ASSUME IndexInv, UNCHANGED <<env, leaves, cached>> PROVE Grows
BY DEF IndexInv, IndexTypes, Grows

\* What it takes for a sync to be in order at a lane.
LEMMA NextOK ==
  ASSUME Index!IndexerAssumption, IndexInv, Grows, NEW s \in Slots, NEW l \in LaneSet,
         NEW pc \in {"read", "bulk", "save", "degrade"}, NEW k \in 1 .. Len(Index!Lanes),
         NEW n \in Nat, NEW first \in BOOLEAN,
         syncs' = [syncs EXCEPT ![s] = Index!Sync(pc, k, n, first)],
         Index!Lanes[k] = l,
         n <= Len(leaves'[l[2]]),
         pc = "save" => CachedUpTo(l[2], n)'
  PROVE  SyncOK(s)'
<1>1. Index!Lanes' = Index!Lanes
  BY SameLanes DEF Grows
<1>. DEFINE r == Index!Sync(pc, k, n, first)
<1>2. syncs'[s] = r
  BY DEF IndexInv, IndexTypes
<1>3. /\ r \in [at : {"read", "bulk", "save", "degrade"}, lane : 1 .. Len(Index!Lanes),
                seen : Nat, first : BOOLEAN]
      /\ r.at = pc /\ r.lane = k /\ r.seen = n
  BY DEF Index!Sync
<1>. HIDE DEF r
<1>4. Index!Lane(s)' = l
  BY <1>1, <1>2, <1>3 DEF Index!Lane
<1>. QED
  BY <1>1, <1>2, <1>3, <1>4 DEF SyncOK, CachedUpTo

\* A sync begins with the first lane, having seen nothing.
LEMMA Begins ==
  ASSUME Index!IndexerAssumption, IndexInv, NEW s \in Slots, NEW first \in BOOLEAN,
         UNCHANGED <<env, leaves, cached, state>>, syncs' = [syncs EXCEPT ![s] = Index!Begin(first)]
  PROVE  IndexInv'
<1>1. Grows
  BY IndexQuiet
<1>2. Index!Lanes \in Seq(LaneSet)
  BY LanesAreLanes DEF IndexInv, IndexTypes
<1>3. SyncOK(s)'
  <2>1. CASE Index!Lanes = <<>>
    BY <2>1 DEF Index!Begin, SyncOK, IndexInv, IndexTypes
  <2>2. CASE Index!Lanes # <<>>
    <3>1. 1 \in 1 .. Len(Index!Lanes) /\ Index!Lanes[1] \in LaneSet
      BY <1>2, <2>2
    <3>2. syncs' = [syncs EXCEPT ![s] = Index!Sync("read", 1, 0, first)]
      BY <2>2 DEF Index!Begin
    <3>3. ASSUME NEW l \in LaneSet, l = Index!Lanes[1]
          PROVE  SyncOK(s)'
      <4>1. Len(leaves'[l[2]]) \in Nat
        BY DEF LaneSet, IndexInv, IndexTypes
      <4>2. 0 \in Nat /\ 0 <= Len(leaves'[l[2]]) /\ "read" # "save"
        BY <4>1
      <4>. QED
        BY <1>1, <3>1, <3>2, <3>3, <4>2, NextOK
    <3>. QED
      BY <3>1, <3>3
  <2>. QED
    BY <2>1, <2>2
<1>. QED
  BY <1>1, <1>3, SyncMoves DEF IndexInv, IndexTypes

\* A sync ends.
LEMMA Ends ==
  ASSUME Index!IndexerAssumption, IndexInv, NEW s \in Slots, Grows, syncs' = [syncs EXCEPT ![s] = Index!Idle],
         DOMAIN state' = LaneSet, \A l \in LaneSet : state'[l] = state[l] \/ StateOK(l)'
  PROVE  IndexInv'
<1>1. SyncOK(s)'
  BY DEF SyncOK, IndexInv, IndexTypes
<1>. QED
  BY <1>1, SyncMoves

\* What a sync under way knows.
LEMMA UnderWay ==
  ASSUME Index!IndexerAssumption, IndexInv, NEW s \in Slots, syncs[s] # Index!Idle
  PROVE  /\ syncs[s] \in [at : {"read", "bulk", "save", "degrade"}, lane : 1 .. Len(Index!Lanes),
                          seen : Nat, first : BOOLEAN]
         /\ syncs[s].seen \in Nat /\ syncs[s].seen <= Len(leaves[Index!Lane(s)[2]])
         /\ syncs[s].at = "save" => CachedUpTo(Index!Lane(s)[2], syncs[s].seen)
         /\ Index!Lane(s) \in LaneSet /\ Index!Lane(s)[2] \in Pools /\ leaves[Index!Lane(s)[2]] \in Seq(Leaves)
         /\ Len(leaves[Index!Lane(s)[2]]) \in Nat
         /\ Index!Lanes[syncs[s].lane] = Index!Lane(s)
<1>1. /\ syncs[s] \in [at : {"read", "bulk", "save", "degrade"}, lane : 1 .. Len(Index!Lanes),
                       seen : Nat, first : BOOLEAN]
      /\ syncs[s].seen <= Len(leaves[Index!Lane(s)[2]])
      /\ syncs[s].at = "save" => CachedUpTo(Index!Lane(s)[2], syncs[s].seen)
  BY DEF IndexInv, SyncOK
<1>2. Index!Lane(s) \in LaneSet /\ Index!Lane(s)[2] \in Pools /\ leaves[Index!Lane(s)[2]] \in Seq(Leaves)
  BY AtALane
<1>3. syncs[s].seen \in Nat
  BY <1>1
<1>. QED
  BY <1>1, <1>2, <1>3 DEF Index!Lane

-----------------------------------------------------------------------------
(* The steps *)

\* At the start nothing is cached and nothing counted.
LEMMA IndexInitially == Index!Init => IndexInv
<1>. SUFFICES ASSUME Index!Init PROVE IndexInv
  OBVIOUS
<1>1. IndexTypes
  BY DEF Index!Init, IndexTypes, LaneSet
<1>2. \A s \in Slots : SyncOK(s)
  BY DEF Index!Init, SyncOK
<1>3. \A l \in LaneSet : StateOK(l)
  BY DEF Index!Init, StateOK, LaneSet, CachedUpTo, Index!Untracked
<1>. QED
  BY <1>1, <1>2, <1>3 DEF IndexInv

\* The reads, and a call that fails: a sync never sees a leaf that is not in the pool.
LEMMA ReadKeepsIndexInv ==
  ASSUME Index!IndexerAssumption, IndexInv, NEW s \in Slots, Index!Read(s) \/ Index!CallFails(s)
  PROVE  IndexInv'
<1>1. syncs[s] # Index!Idle
  BY DEF Index!Read, Index!CallFails, Index!Idle
<1>2. Grows
  BY IndexQuiet DEF Index!Read, Index!CallFails
<1>3. UNCHANGED state /\ DOMAIN state' = LaneSet
  BY DEF Index!Read, Index!CallFails, IndexInv, IndexTypes
<1>4. SUFFICES ASSUME NEW l \in LaneSet, l = Index!Lane(s), NEW k, k = syncs[s].lane,
                      NEW f, f = syncs[s].first, NEW m, m = syncs[s].seen
      PROVE  SyncOK(s)' /\ \E r : syncs' = [syncs EXCEPT ![s] = r]
  <2>1. Index!Lane(s) \in LaneSet
    BY <1>1, UnderWay
  <2>. QED
    BY <1>2, <1>3, <1>4, <2>1, SyncMoves
<1>5. /\ k \in 1 .. Len(Index!Lanes) /\ f \in BOOLEAN /\ m \in Nat /\ Index!Lanes[k] = l
      /\ leaves' = leaves /\ m <= Len(leaves[l[2]]) /\ Len(leaves[l[2]]) \in Nat
      /\ syncs[s] \in [at : {"read", "bulk", "save", "degrade"}, lane : 1 .. Len(Index!Lanes),
                       seen : Nat, first : BOOLEAN]
  BY <1>1, <1>4, UnderWay DEF Index!Read, Index!CallFails
<1>6. CASE Index!Read(s)
  <2>1. PICK n \in Nat, pc \in {"bulk", "save"} :
          /\ syncs' = [syncs EXCEPT ![s] = Index!Sync(pc, k, n, f)]
          /\ n = Len(leaves[l[2]]) /\ (pc = "save" => n = 0)
    <3>1. syncs' = [syncs EXCEPT ![s] =
                      Index!Sync(IF Len(leaves[l[2]]) > 0 THEN "bulk" ELSE "save", k, Len(leaves[l[2]]), f)]
      BY <1>4, <1>6 DEF Index!Read
    <3>2. CASE Len(leaves[l[2]]) > 0
      BY <1>5, <3>1, <3>2
    <3>3. CASE ~ (Len(leaves[l[2]]) > 0)
      <4>1. Len(leaves[l[2]]) = 0
        BY <1>5, <3>3
      <4>2. syncs' = [syncs EXCEPT ![s] = Index!Sync("save", k, 0, f)]
        BY <3>1, <4>1
      <4>. QED
        BY <4>1, <4>2
    <3>. QED
      BY <3>2, <3>3
  <2>2. pc = "save" => CachedUpTo(l[2], n)'
    BY <2>1 DEF CachedUpTo
  <2>3. n <= Len(leaves'[l[2]])
    BY <1>5, <2>1
  <2>. QED
    BY <1>2, <1>5, <2>1, <2>2, <2>3, NextOK
<1>7. CASE Index!CallFails(s)
  <2>1. syncs' = [syncs EXCEPT ![s] = Index!Sync("degrade", k, m, f)]
    BY <1>4, <1>7 DEF Index!CallFails, Index!Goto
  <2>. QED
    BY <1>2, <1>5, <2>1, NextOK
<1>. QED
  BY <1>6, <1>7

\* An entry of the bulk is stored; the sync stays where it is.
LEMMA StoreEntryKeepsIndexInv ==
  ASSUME Index!IndexerAssumption, IndexInv, NEW s \in Slots, Index!StoreEntry(s)
  PROVE  IndexInv'
<1>1. PICK e : cached' = [cached EXCEPT ![Index!Lane(s)[2]] = @ \cup {e}]
  BY DEF Index!StoreEntry
<1>2. UNCHANGED <<env, leaves, state, syncs>>
  BY DEF Index!StoreEntry
<1>3. Grows
  BY <1>1, <1>2 DEF Grows, IndexInv, IndexTypes
<1>4. IndexTypes'
  BY <1>2, <1>3 DEF Grows, IndexInv, IndexTypes
<1>5. \A t \in Slots : SyncOK(t)'
  BY <1>2, <1>3, OtherSyncs
<1>6. \A l \in LaneSet : StateOK(l)'
  BY <1>2, <1>3, OtherLanes
<1>. QED
  BY <1>4, <1>5, <1>6 DEF IndexInv

\* The bulk is over: a sync goes on to save only if all it saw is in the cache (bulkWrite).
LEMMA BulkWriteKeepsIndexInv ==
  ASSUME Index!IndexerAssumption, IndexInv, NEW s \in Slots, Index!BulkWrite(s)
  PROVE  IndexInv'
<1>1. syncs[s] # Index!Idle
  BY DEF Index!BulkWrite, Index!Idle
<1>2. SUFFICES ASSUME NEW l \in LaneSet, l = Index!Lane(s), NEW k, k = syncs[s].lane,
                      NEW f, f = syncs[s].first, NEW m, m = syncs[s].seen
      PROVE  IndexInv'
  BY <1>1, UnderWay
<1>3. /\ k \in 1 .. Len(Index!Lanes) /\ f \in BOOLEAN /\ m \in Nat /\ Index!Lanes[k] = l
      /\ leaves' = leaves /\ m <= Len(leaves[l[2]])
  BY <1>1, <1>2, UnderWay DEF Index!BulkWrite
<1>. PICK pc \in {"save", "degrade"} :
       Index!Goto(s, pc) /\ (pc = "save" => Index!SeenEntries(s) \subseteq cached[l[2]])
  <2>1. CASE Index!Unstored(s) = {}
    BY <1>2, <2>1 DEF Index!BulkWrite, Index!Unstored
  <2>2. CASE Index!Unstored(s) # {}
    BY <2>2 DEF Index!BulkWrite
  <2>. QED
    BY <2>1, <2>2
<1>4. syncs' = [syncs EXCEPT ![s] = Index!Sync(pc, k, m, f)]
  BY <1>2 DEF Index!Goto
<1>5. Grows
  BY IndexQuiet DEF Index!BulkWrite
<1>6. cached' = cached
  BY DEF Index!BulkWrite
<1>7. pc = "save" => CachedUpTo(l[2], m)'
  <2>. SUFFICES ASSUME pc = "save", NEW i \in 1 .. m
       PROVE  <<i - 1, leaves'[l[2]][i]>> \in cached'[l[2]]
    BY DEF CachedUpTo
  <2>1. <<i - 1, leaves[l[2]][i]>> \in Index!SeenEntries(s)
    BY <1>2 DEF Index!SeenEntries
  <2>. QED
    BY <1>3, <1>4, <1>6, <2>1
<1>8. SyncOK(s)'
  BY <1>3, <1>4, <1>5, <1>7, NextOK
<1>9. UNCHANGED state /\ DOMAIN state' = LaneSet
  BY DEF Index!BulkWrite, IndexInv, IndexTypes
<1>. QED
  BY <1>4, <1>5, <1>8, <1>9, SyncMoves

\* The state of the lane says what this sync saw, which is cached (syncPool).
LEMMA SaveHealthyKeepsIndexInv ==
  ASSUME Index!IndexerAssumption, IndexInv, NEW s \in Slots, Index!SaveHealthy(s)
  PROVE  IndexInv'
<1>1. syncs[s] # Index!Idle /\ syncs[s].at = "save"
  BY DEF Index!SaveHealthy, Index!Idle
<1>2. Grows
  BY IndexQuiet DEF Index!SaveHealthy
<1>3. SUFFICES ASSUME NEW l \in LaneSet, l = Index!Lane(s), NEW k, k = syncs[s].lane,
                      NEW f, f = syncs[s].first, NEW m, m = syncs[s].seen
      PROVE  IndexInv'
  BY <1>1, UnderWay
<1>4. /\ k \in 1 .. Len(Index!Lanes) /\ f \in BOOLEAN /\ m \in Nat /\ Index!Lanes[k] = l
      /\ m <= Len(leaves[l[2]]) /\ CachedUpTo(l[2], m) /\ l[2] \in Pools
      /\ leaves[l[2]] \in Seq(Leaves)
  BY <1>1, <1>3, UnderWay
<1>5. /\ state' = [state EXCEPT ![l] = [status |-> "healthy", count |-> m]]
      /\ DOMAIN state' = LaneSet
  BY <1>3 DEF Index!SaveHealthy, IndexInv, IndexTypes
<1>6. \A x \in LaneSet : state'[x] = state[x] \/ StateOK(x)'
  <2>1. m <= Len(leaves'[l[2]]) /\ CachedUpTo(l[2], m)'
    BY <1>2, <1>4, StaysCached
  <2>2. /\ state'[l] \in [status : {"untracked", "healthy", "degraded"}, count : Nat]
        /\ state'[l].count = m
    BY <1>4, <1>5
  <2>3. StateOK(l)'
    BY <2>1, <2>2 DEF StateOK, CachedUpTo
  <2>. QED
    BY <1>5, <2>3
<1>7. CASE k < Len(Index!Lanes)
  <2>1. syncs' = [syncs EXCEPT ![s] = Index!Sync("read", k + 1, 0, f)]
    BY <1>3, <1>7 DEF Index!SaveHealthy
  <2>2. Index!Lanes \in Seq(LaneSet)
    BY <1>1, AtALane
  <2>3. k + 1 \in 1 .. Len(Index!Lanes)
    BY <1>4, <1>7, <2>2
  <2>4. ASSUME NEW x \in LaneSet, x = Index!Lanes[k + 1]
        PROVE  SyncOK(s)'
    <3>1. Len(leaves'[x[2]]) \in Nat
      BY <1>2 DEF Grows, LaneSet
    <3>2. 0 \in Nat /\ 0 <= Len(leaves'[x[2]]) /\ "read" # "save"
      BY <3>1
    <3>. QED
      BY <1>2, <1>4, <2>1, <2>3, <2>4, <3>2, NextOK
  <2>5. SyncOK(s)'
    BY <2>2, <2>3, <2>4
  <2>. QED
    BY <1>2, <1>5, <1>6, <2>1, <2>5, SyncMoves
<1>8. CASE ~ (k < Len(Index!Lanes))
  <2>1. syncs' = [syncs EXCEPT ![s] = Index!Idle]
    BY <1>3, <1>8 DEF Index!SaveHealthy
  <2>. QED
    BY <1>2, <1>5, <1>6, <2>1, Ends
<1>. QED
  BY <1>7, <1>8

\* A lane that fails keeps its count.
LEMMA SaveDegradedKeepsIndexInv ==
  ASSUME Index!IndexerAssumption, IndexInv, NEW s \in Slots, Index!SaveDegraded(s)
  PROVE  IndexInv'
<1>1. Grows
  BY IndexQuiet DEF Index!SaveDegraded
<1>2. SUFFICES ASSUME NEW l, l = Index!Lane(s)
      PROVE  IndexInv'
  OBVIOUS
<1>3. /\ state' = [state EXCEPT ![l].status = "degraded"] /\ DOMAIN state' = LaneSet
      /\ syncs' = [syncs EXCEPT ![s] = Index!Idle]
  BY <1>2 DEF Index!SaveDegraded, IndexInv, IndexTypes
<1>4. ASSUME NEW x \in LaneSet, x = l
      PROVE  StateOK(x)'
  <2>1. /\ state[x] \in [status : {"untracked", "healthy", "degraded"}, count : Nat]
        /\ state[x].count <= Len(leaves[x[2]]) /\ CachedUpTo(x[2], state[x].count)
    BY DEF IndexInv, StateOK
  <2>2. state'[x] = [state[x] EXCEPT !.status = "degraded"]
    BY <1>3, <1>4 DEF IndexInv, IndexTypes
  <2>3. /\ state'[x] \in [status : {"untracked", "healthy", "degraded"}, count : Nat]
        /\ state'[x].count = state[x].count
    BY <2>1, <2>2
  <2>4. leaves' = leaves /\ cached' = cached
    BY DEF Index!SaveDegraded
  <2>. QED
    BY <2>1, <2>3, <2>4 DEF StateOK, CachedUpTo
<1>5. \A x \in LaneSet : state'[x] = state[x] \/ StateOK(x)'
  BY <1>3, <1>4 DEF IndexInv, IndexTypes
<1>. QED
  BY <1>1, <1>3, <1>5, Ends

\* The chain and the process: a leaf is appended, the timer starts a sync, the process stops.
LEMMA OthersKeepIndexInv ==
  ASSUME Index!IndexerAssumption, IndexInv,
         \/ Index!Start \/ Index!Tick \/ Index!Crash
         \/ \E p \in Pools : \E x \in Leaves : Index!AppendLeaf(p, x)
  PROVE  IndexInv'
<1>1. CASE Index!Start \/ Index!Tick
  <2>1. PICK s \in Slots, first \in BOOLEAN : syncs' = [syncs EXCEPT ![s] = Index!Begin(first)]
    BY <1>1 DEF Index!Start, Index!Tick
  <2>2. UNCHANGED <<env, leaves, cached, state>>
    BY <1>1 DEF Index!Start, Index!Tick
  <2>. QED
    BY <2>1, <2>2, Begins
<1>2. CASE Index!Crash
  <2>1. Grows /\ UNCHANGED state
    BY <1>2, IndexQuiet DEF Index!Crash
  <2>2. syncs' = [s \in Slots |-> Index!Idle]
    BY <1>2 DEF Index!Crash
  <2>3. IndexTypes' /\ \A s \in Slots : SyncOK(s)'
    BY <2>1, <2>2 DEF IndexInv, IndexTypes, SyncOK, Grows
  <2>4. \A l \in LaneSet : StateOK(l)'
    BY <2>1, OtherLanes
  <2>. QED
    BY <2>3, <2>4 DEF IndexInv
<1>3. ASSUME NEW p \in Pools, NEW x \in Leaves, Index!AppendLeaf(p, x)
      PROVE  IndexInv'
  <2>1. leaves' = [leaves EXCEPT ![p] = Append(leaves[p], x)]
        /\ UNCHANGED <<env, cached, state, syncs>>
    BY <1>3 DEF Index!AppendLeaf
  <2>2. ASSUME NEW q \in Pools
        PROVE  /\ leaves'[q] \in Seq(Leaves)
               /\ Len(leaves[q]) <= Len(leaves'[q])
               /\ \A i \in 1 .. Len(leaves[q]) : leaves'[q][i] = leaves[q][i]
    BY <2>1 DEF IndexInv, IndexTypes
  <2>3. leaves' \in [Pools -> Seq(Leaves)]
    BY <2>1, <2>2 DEF IndexInv, IndexTypes
  <2>4. Grows
    BY <2>1, <2>2, <2>3 DEF Grows, IndexInv, IndexTypes
  <2>5. IndexTypes' /\ \A s \in Slots : SyncOK(s)'
    <3>1. \A s \in Slots : syncs'[s] = syncs[s]
      BY <2>1
    <3>2. IndexTypes'
      BY <2>1, <2>4 DEF Grows, IndexInv, IndexTypes
    <3>. QED
      BY <3>1, <3>2, <2>4, OtherSyncs
  <2>6. \A l \in LaneSet : StateOK(l)'
    BY <2>1, <2>4, OtherLanes
  <2>. QED
    BY <2>5, <2>6 DEF IndexInv
<1>. QED
  BY <1>1, <1>2, <1>3

LEMMA IndexStep == ASSUME Index!IndexerAssumption, IndexInv, [Index!Next]_(Index!vars) PROVE IndexInv'
<1>1. ASSUME Index!Next PROVE IndexInv'
  BY <1>1, ReadKeepsIndexInv, StoreEntryKeepsIndexInv, BulkWriteKeepsIndexInv,
     SaveHealthyKeepsIndexInv, SaveDegradedKeepsIndexInv, OthersKeepIndexInv DEF Index!Next, Index!SyncStep
<1>2. ASSUME UNCHANGED Index!vars PROVE IndexInv'
  <2>1. Grows /\ UNCHANGED <<state, syncs>>
    BY <1>2, IndexQuiet DEF Index!vars
  <2>2. IndexTypes'
    BY <1>2 DEF IndexInv, IndexTypes, Index!vars
  <2>3. \A s \in Slots : SyncOK(s)'
    BY <1>2, <2>1, OtherSyncs
  <2>4. \A l \in LaneSet : StateOK(l)'
    BY <1>2, <2>1, OtherLanes
  <2>. QED
    BY <2>2, <2>3, <2>4 DEF IndexInv
<1>. QED
  BY <1>1, <1>2

\* What is known of a lane that reads healthy is what HealthyMeansCached says of it.
LEMMA HealthyPools == ASSUME IndexInv PROVE Index!HealthyMeansCached
  BY DEF IndexInv, StateOK, LaneSet, CachedUpTo, Index!HealthyMeansCached

-----------------------------------------------------------------------------
(* The market                                                               *)

\* Every listing is up or down, and every handler has a slot of its own.
MarketInv ==
  /\ \A o \in DOMAIN offers : "active" \in DOMAIN offers[o]
  /\ DOMAIN jobs = Slots

\* Who may put a listing o up again: a handler whose seller saw it down and asks for that.
Relisted(o) ==
  \E s \in Slots : /\ jobs[s].op = "update" /\ jobs[s].id = o /\ jobs'[s] = Market!Idle
                   /\ ~ jobs[s].loaded.active /\ jobs[s].patch.active

\* What a step has to show.
MarketStepOK ==
  /\ MarketInv'
  /\ \A o \in DOMAIN offers : ~ offers[o].active /\ offers'[o].active => Relisted(o)

\* A save changes nothing but the field the patch gives another value than the loaded one.
LEMMA SavedActive ==
  ASSUME NEW job, "active" \in DOMAIN offers[job.id]
  PROVE  /\ DOMAIN Market!Saved(job) = DOMAIN offers[job.id]
         /\ \/ Market!Saved(job).active = offers[job.id].active
            \/ /\ Market!Saved(job).active = job.patch.active
               /\ job.patch.active # job.loaded.active
BY DEF Market!Saved

LEMMA UpdateSaveOK ==
  ASSUME MarketInv, NEW s \in Slots, Market!UpdateSave(s)
  PROVE  MarketStepOK
<1>. DEFINE id == jobs[s].id
<1>1. /\ jobs[s].op = "update"
      /\ offers' = [offers EXCEPT ![id] = Market!Saved(jobs[s])]
      /\ jobs' = [jobs EXCEPT ![s] = Market!Idle]
  BY DEF Market!UpdateSave
<1>2. DOMAIN jobs' = Slots /\ jobs'[s] = Market!Idle
  BY <1>1 DEF MarketInv
<1>3. /\ DOMAIN offers' = DOMAIN offers
      /\ \A o \in DOMAIN offers : offers'[o] = IF o = id THEN Market!Saved(jobs[s]) ELSE offers[o]
  BY <1>1
<1>. HIDE DEF id
<1>4. ASSUME id \in DOMAIN offers
      PROVE  /\ "active" \in DOMAIN Market!Saved(jobs[s])
             /\ ~ offers[id].active /\ Market!Saved(jobs[s]).active
                  => ~ jobs[s].loaded.active /\ jobs[s].patch.active
  <2>1. "active" \in DOMAIN offers[id]
    BY <1>4 DEF MarketInv
  <2>. QED
    BY <2>1, SavedActive DEF id
<1>5. \A o \in DOMAIN offers' : "active" \in DOMAIN offers'[o]
  BY <1>3, <1>4 DEF MarketInv
<1>6. ASSUME NEW o \in DOMAIN offers, ~ offers[o].active, offers'[o].active
      PROVE  Relisted(o)
  <2>1. o = id
    BY <1>3, <1>6
  <2>2. ~ jobs[s].loaded.active /\ jobs[s].patch.active
    BY <1>3, <1>4, <1>6, <2>1
  <2>. QED
    BY <1>1, <1>2, <2>1, <2>2 DEF Relisted, id
<1>. QED
  BY <1>2, <1>5, <1>6 DEF MarketInv, MarketStepOK

LEMMA DeactivateOK ==
  ASSUME MarketInv, NEW o, Market!DeactivateOffer(o)
  PROVE  MarketStepOK
<1>1. /\ DOMAIN offers' = DOMAIN offers /\ jobs' = jobs
      /\ \A x \in DOMAIN offers :
           offers'[x] = IF x = o THEN [offers[x] EXCEPT !.active = FALSE] ELSE offers[x]
  BY Zenon DEF Market!DeactivateOffer
<1>2. \A x \in DOMAIN offers : DOMAIN offers'[x] = DOMAIN offers[x]
  BY <1>1
<1>3. ASSUME NEW x \in DOMAIN offers, ~ offers[x].active PROVE ~ offers'[x].active
  BY <1>1, <1>3 DEF MarketInv
<1>. QED
  BY <1>1, <1>2, <1>3 DEF MarketInv, MarketStepOK

LEMMA OtherStepsOK ==
  ASSUME MarketInv,
         \/ \E o \in OfferIds, data \in Market!Payloads : Market!Create(o, data)
         \/ /\ UNCHANGED offers
            /\ \/ UNCHANGED jobs
               \/ \E s \in Slots : \E job : jobs' = [jobs EXCEPT ![s] = job]
  PROVE  MarketStepOK
<1>1. CASE \E o \in OfferIds, data \in Market!Payloads : Market!Create(o, data)
  <2>1. PICK o \in OfferIds, data \in Market!Payloads : Market!Create(o, data)
    BY <1>1
  <2>. DEFINE new ==
         [f \in DOMAIN data \cup {"active"} |-> IF f = "active" THEN TRUE ELSE data[f]]
  <2>2. /\ o \notin DOMAIN offers /\ jobs' = jobs
        /\ offers' = [x \in DOMAIN offers \cup {o} |-> IF x = o THEN new ELSE offers[x]]
    BY <2>1 DEF Market!Create
  <2>3. "active" \in DOMAIN new
    OBVIOUS
  <2>. HIDE DEF new
  <2>4. /\ DOMAIN offers' = DOMAIN offers \cup {o} /\ "active" \in DOMAIN offers'[o]
        /\ \A x \in DOMAIN offers : offers'[x] = offers[x]
    BY <2>2, <2>3
  <2>. QED
    BY <2>2, <2>4 DEF MarketInv, MarketStepOK
<1>2. CASE UNCHANGED offers /\ DOMAIN jobs' = DOMAIN jobs
  BY <1>2 DEF MarketInv, MarketStepOK
<1>. QED
  BY <1>1, <1>2

LEMMA MarketStep ==
  ASSUME MarketInv, [Market!Next]_(Market!vars) PROVE MarketStepOK
<1>1. ASSUME NEW s \in Slots, NEW o \in OfferIds, NEW u \in Users, NEW p \in Market!Patches,
             Market!UpdateLoad(s, o, u, p)
      PROVE  MarketStepOK
  BY <1>1, OtherStepsOK DEF Market!UpdateLoad
<1>2. ASSUME NEW s \in Slots, NEW u \in Users, NEW a \in OfferAmounts, Market!Browse(s, u, a)
      PROVE  MarketStepOK
  BY <1>2, OtherStepsOK DEF Market!Browse
<1>3. ASSUME NEW s \in Slots, NEW u \in Users, Market!RequestLoad(s, u)
      PROVE  MarketStepOK
  BY <1>3, OtherStepsOK DEF Market!RequestLoad
<1>4. ASSUME NEW s \in Slots, Market!RequestCreate(s) PROVE MarketStepOK
  BY <1>4, OtherStepsOK DEF Market!RequestCreate
<1>5. ASSUME UNCHANGED <<offers, jobs>> PROVE MarketStepOK
  BY <1>5, OtherStepsOK
<1>6. ASSUME NEW k, NEW status, Market!Progress(k, status) PROVE MarketStepOK
  BY <1>5, <1>6 DEF Market!Progress
<1>7. ASSUME NEW o, Market!DeactivateOfferFails(o) PROVE MarketStepOK
  BY <1>5, <1>7 DEF Market!DeactivateOfferFails
<1>8. ASSUME Market!DaysPass PROVE MarketStepOK
  BY <1>5, <1>8 DEF Market!DaysPass
<1>9. ASSUME UNCHANGED Market!vars PROVE MarketStepOK
  BY <1>5, <1>9 DEF Market!vars
<1>10. ASSUME \E o \in OfferIds, data \in Market!Payloads : Market!Create(o, data)
       PROVE  MarketStepOK
  BY <1>10, OtherStepsOK
<1>. QED
  BY <1>1, <1>2, <1>3, <1>4, <1>6, <1>7, <1>8, <1>9, <1>10, UpdateSaveOK, DeactivateOK
     DEF Market!Next

-----------------------------------------------------------------------------
(* Sums of counts: where each thing is counted once, the counts add up *)

\* The instance counts as the theorems about finite sets do.
LEMMA SameCardinality == \A S : Market!Cardinality(S) = Cardinality(S)
BY DEF Market!Cardinality, Cardinality

\* How many of K the map w takes into s.
Under(K, w, s) == Cardinality({k \in K : w[k] \in s})

\* One element of s, and the rest.
LEMMA UnderOne ==
  ASSUME NEW K, IsFiniteSet(K), NEW w, NEW s, NEW x \in s
  PROVE  /\ Under(K, w, s) \in Nat
         /\ Under(K, w, s) = Under(K, w, {x}) + Under(K, w, s \ {x})
<1>. DEFINE A == {k \in K : w[k] \in {x}}
            B == {k \in K : w[k] \in s \ {x}}
            C == {k \in K : w[k] \in s}
<1>1. A \cup B = C /\ A \cap B = {}
  OBVIOUS
<1>2. A \in SUBSET K /\ B \in SUBSET K /\ C \in SUBSET K
  OBVIOUS
<1>. HIDE DEF A, B, C
<1>3. IsFiniteSet(A) /\ IsFiniteSet(B) /\ IsFiniteSet(C)
  BY <1>2, FS_Subset
<1>4. Cardinality(A \cup B) = Cardinality(A) + Cardinality(B) - Cardinality(A \cap B)
  BY <1>3, FS_Union
<1>5. Cardinality(C) \in Nat /\ Cardinality(A) \in Nat /\ Cardinality(B) \in Nat
  BY <1>3, FS_CardinalityType
<1>6. Cardinality({}) = 0
  BY FS_EmptySet
<1>7. Cardinality(C) = Cardinality(A) + Cardinality(B) - 0
  BY <1>1, <1>4, <1>6
<1>8. Cardinality(C) = Cardinality(A) + Cardinality(B)
  BY <1>5, <1>7
<1>. QED
  BY <1>5, <1>8 DEF Under, A, B, C

\* What a sum over D of the counts of each element is unfolded to.
Adds(it, g, D) ==
  it = [s \in SUBSET D |->
          IF s = {} THEN 0
          ELSE g[CHOOSE x \in s : TRUE] + it[s \ {CHOOSE x \in s : TRUE}]]

\* There is such a function, and it counts how many of K are taken into each part of D.
LEMMA SumExists ==
  ASSUME NEW D, NEW K, IsFiniteSet(K), NEW w, NEW g,
         \A o \in D : g[o] = Under(K, w, {o})
  PROVE  Adds([s \in SUBSET D |-> Under(K, w, s)], g, D)
<1>. DEFINE it == [s \in SUBSET D |-> Under(K, w, s)]
<1>1. ASSUME NEW s \in SUBSET D, s = {} PROVE it[s] = 0
  <2>1. {k \in K : w[k] \in s} = {}
    BY <1>1
  <2>. QED
    BY <2>1, FS_EmptySet DEF Under
<1>2. ASSUME NEW s \in SUBSET D, s # {}
      PROVE  it[s] = g[CHOOSE x \in s : TRUE] + it[s \ {CHOOSE x \in s : TRUE}]
  <2>. DEFINE x == CHOOSE x \in s : TRUE
  <2>1. x \in s
    BY <1>2
  <2>. HIDE DEF x
  <2>2. Under(K, w, s) = Under(K, w, {x}) + Under(K, w, s \ {x})
    BY <2>1, UnderOne
  <2>3. s \ {x} \in SUBSET D /\ x \in D
    BY <2>1
  <2>4. it[s] = g[x] + it[s \ {x}]
    BY <2>2, <2>3
  <2>. QED
    BY <2>4 DEF x
<1>. HIDE DEF it
<1>3. it = [s \in SUBSET D |->
          IF s = {} THEN 0
          ELSE g[CHOOSE x \in s : TRUE] + it[s \ {CHOOSE x \in s : TRUE}]]
  <2>1. it = [s \in SUBSET D |-> it[s]]
    BY DEF it
  <2>. QED
    BY <2>1, <1>1, <1>2
<1>. QED
  BY <1>3 DEF Adds, it

\* There is no other, by induction on the size of the part.
LEMMA SumIs ==
  ASSUME NEW D, IsFiniteSet(D), NEW K, IsFiniteSet(K), NEW w, NEW g,
         \A o \in D : g[o] = Under(K, w, {o}),
         NEW it, Adds(it, g, D)
  PROVE  it[D] = Under(K, w, D)
<1>. DEFINE S == {n \in Nat : \A s \in SUBSET D : Cardinality(s) = n => it[s] = Under(K, w, s)}
<1>0. \A s \in SUBSET D : IsFiniteSet(s) /\ Cardinality(s) \in Nat
  BY FS_Subset, FS_CardinalityType
<1>1. 0 \in S
  <2> SUFFICES ASSUME NEW s \in SUBSET D, Cardinality(s) = 0 PROVE it[s] = Under(K, w, s)
    OBVIOUS
  <2>1. s = {}
    BY <1>0, FS_EmptySet
  <2>2. {k \in K : w[k] \in s} = {}
    BY <2>1
  <2>3. it[s] = 0
    BY <2>1 DEF Adds
  <2>. QED
    BY <2>2, <2>3, FS_EmptySet DEF Under
<1>2. ASSUME NEW n \in Nat, n \in S PROVE n + 1 \in S
  <2> SUFFICES ASSUME NEW s \in SUBSET D, Cardinality(s) = n + 1 PROVE it[s] = Under(K, w, s)
    OBVIOUS
  <2>. DEFINE x == CHOOSE x \in s : TRUE
  <2>1. s # {}
    <3>1. Cardinality({}) = 0
      BY FS_EmptySet
    <3>. QED
      BY <3>1
  <2>2. it[s] = g[x] + it[s \ {x}]
    BY <2>1 DEF Adds
  <2>3. x \in s
    BY <2>1
  <2>. HIDE DEF x
  <2>4. s \ {x} \in SUBSET D /\ x \in D
    BY <2>3
  <2>5. Cardinality(s \ {x}) = n
    <3>1. IsFiniteSet(s)
      BY <1>0
    <3>2. Cardinality(s \ {x}) = Cardinality(s) - 1
      BY <2>3, <3>1, FS_RemoveElement
    <3>. QED
      BY <3>2
  <2>6. it[s \ {x}] = Under(K, w, s \ {x})
    BY <1>2, <2>4, <2>5
  <2>7. Under(K, w, s) = Under(K, w, {x}) + Under(K, w, s \ {x})
    BY <2>3, UnderOne
  <2>. QED
    BY <2>2, <2>4, <2>6, <2>7
<1>. HIDE DEF S
<1>3. Nat \subseteq S
  BY <1>1, <1>2, TreeSide!Induction
<1>. QED
  BY <1>0, <1>3 DEF S

\* A sum of counts of disjoint classes counts them all.
LEMMA SumOfCounts ==
  ASSUME NEW D, IsFiniteSet(D), NEW K, IsFiniteSet(K), NEW w, NEW g, DOMAIN g = D,
         \A o \in D : g[o] = Under(K, w, {o})
  PROVE  Market!SumFunction(g) = Under(K, w, D)
<1>. DEFINE P(it) == it = [s \in SUBSET D |->
                            IF s = {} THEN 0
                            ELSE g[CHOOSE x \in s : TRUE] + it[s \ {CHOOSE x \in s : TRUE}]]
            it0 == CHOOSE it : P(it)
<1>1. Market!SumFunction(g) = it0[D]
  BY DEF Market!SumFunction, Market!SumFunctionOnSet, Market!FoldFunctionOnSet,
         Market!MapThenFoldSet
<1>2. P([s \in SUBSET D |-> Under(K, w, s)])
  <2>1. Adds([s \in SUBSET D |-> Under(K, w, s)], g, D)
    BY SumExists
  <2>. QED
    BY <2>1 DEF Adds
<1>3. P(it0)
  <2>1. \E it : P(it)
    BY <1>2
  <2>. HIDE DEF P
  <2>. QED
    BY <2>1
<1>4. Adds(it0, g, D)
  BY <1>3 DEF Adds
<1>. HIDE DEF it0
<1>. QED
  BY <1>1, <1>4, SumIs

-----------------------------------------------------------------------------
(* The boards of the market (offers.service.ts): what is known of listings and swaps *)

\* A swap belongs to a listing, and to the seller of that.
SwapOK(r) ==
  /\ {"offer", "bob", "status", "age"} \subseteq DOMAIN r
  /\ r.offer \in DOMAIN offers /\ r.bob = offers[r.offer].merchant

\* So will the swap that a buyer's handler asks for, and a seller's handler leaves alone whose
\* listing it is.
JobOK(j) ==
  /\ j.op = "update" => "merchant" \notin DOMAIN j.patch
  /\ j.op \in {"browse", "request"} =>
       /\ {"op", "bob", "offer"} \subseteq DOMAIN j
       /\ j.offer \in DOMAIN offers
  /\ j.op = "request" => j.bob = offers[j.offer].merchant

\* There are finitely many listings and swaps; listings have sellers, swaps have listings.
BoardInv ==
  /\ IsFiniteSet(DOMAIN offers)
  /\ \A o \in DOMAIN offers : "merchant" \in DOMAIN offers[o] /\ offers[o].merchant \in Users
  /\ \E S : marketSwaps \in Seq(S) /\ \A r \in S : SwapOK(r)
  /\ DOMAIN jobs = Slots
  /\ \A s \in Slots : JobOK(jobs[s])

\* At first there are neither.
LEMMA BoardInitially == ASSUME Market!Init PROVE BoardInv
<1>1. DOMAIN offers = {} /\ marketSwaps \in Seq({})
  BY DEF Market!Init
<1>2. IsFiniteSet({}) /\ \A r \in {} : SwapOK(r)
  BY FS_EmptySet
<1>3. \A s \in Slots : JobOK(jobs[s])
  BY DEF Market!Init, Market!Idle, JobOK
<1>4. DOMAIN jobs = Slots
  BY DEF Market!Init
<1>. QED
  BY <1>1, <1>2, <1>3, <1>4 DEF BoardInv

\* The listings keep their sellers and none goes away: swaps and handlers stay in order.
LEMMA SellersStay ==
  ASSUME BoardInv, DOMAIN offers \subseteq DOMAIN offers',
         \A o \in DOMAIN offers : offers'[o].merchant = offers[o].merchant
  PROVE  /\ \A r : SwapOK(r) => SwapOK(r)'
         /\ \A j : JobOK(j) => JobOK(j)'
BY DEF BoardInv, SwapOK, JobOK

\* A handler that goes on in order leaves the others in order.
LEMMA JobsStayOK ==
  ASSUME BoardInv, NEW s \in Slots, NEW j, jobs' = [jobs EXCEPT ![s] = j], JobOK(j)
  PROVE  DOMAIN jobs' = Slots /\ \A t \in Slots : JobOK(jobs'[t])
BY DEF BoardInv

\* A handler that has answered is in order.
LEMMA IdleOK == JobOK(Market!Idle)
BY DEF JobOK, Market!Idle

\* Loading changes one handler and nothing in the database.
LEMMA OnlyJobs ==
  ASSUME BoardInv, NEW s \in Slots, NEW j, jobs' = [jobs EXCEPT ![s] = j], JobOK(j),
         UNCHANGED <<offers, marketSwaps>>
  PROVE  BoardInv'
<1>1. DOMAIN jobs' = Slots /\ \A t \in Slots : JobOK(jobs'[t])
  BY JobsStayOK
<1>2. \A r : SwapOK(r) => SwapOK(r)'
  BY DEF SwapOK
<1>3. \A i : JobOK(i) => JobOK(i)'
  BY DEF JobOK
<1>. QED
  BY <1>1, <1>2, <1>3 DEF BoardInv

\* A listing is put up: it is new, and has a seller (create).
LEMMA CreateKeepsBoard ==
  ASSUME BoardInv, NEW o, NEW data \in Market!Payloads, Market!Create(o, data)
  PROVE  BoardInv'
<1>. DEFINE new == [f \in DOMAIN data \cup {"active"} |-> IF f = "active" THEN TRUE ELSE data[f]]
<1>1. /\ o \notin DOMAIN offers /\ jobs' = jobs /\ marketSwaps' = marketSwaps
      /\ offers' = [x \in DOMAIN offers \cup {o} |-> IF x = o THEN new ELSE offers[x]]
  BY DEF Market!Create
<1>2. "merchant" \in DOMAIN new /\ new.merchant \in Users
  <2>1. "merchant" \in DOMAIN data /\ data.merchant \in Users
    BY DEF Market!Payloads
  <2>. QED
    BY <2>1
<1>. HIDE DEF new
<1>3. /\ DOMAIN offers' = DOMAIN offers \cup {o} /\ offers'[o] = new
      /\ \A x \in DOMAIN offers : offers'[x] = offers[x]
  BY <1>1
<1>4. IsFiniteSet(DOMAIN offers')
  BY <1>3, FS_AddElement DEF BoardInv
<1>5. /\ \A r : SwapOK(r) => SwapOK(r)'
      /\ \A j : JobOK(j) => JobOK(j)'
  BY <1>3, SellersStay
<1>. QED
  BY <1>1, <1>2, <1>3, <1>4, <1>5 DEF BoardInv

\* A listing is saved: the patch does not say whose it is (update).
LEMMA SaveKeepsBoard ==
  ASSUME BoardInv, NEW s \in Slots, Market!UpdateSave(s)
  PROVE  BoardInv'
<1>. DEFINE id == jobs[s].id
<1>1. /\ jobs[s].op = "update" /\ marketSwaps' = marketSwaps
      /\ offers' = [offers EXCEPT ![id] = Market!Saved(jobs[s])]
      /\ jobs' = [jobs EXCEPT ![s] = Market!Idle]
  BY DEF Market!UpdateSave
<1>2. "merchant" \notin DOMAIN jobs[s].patch
  BY <1>1 DEF BoardInv, JobOK
<1>3. /\ DOMAIN Market!Saved(jobs[s]) = DOMAIN offers[id]
      /\ "merchant" \in DOMAIN offers[id] => Market!Saved(jobs[s]).merchant = offers[id].merchant
  BY <1>2 DEF Market!Saved
<1>4. /\ DOMAIN offers' = DOMAIN offers
      /\ \A o \in DOMAIN offers : offers'[o] = IF o = id THEN Market!Saved(jobs[s]) ELSE offers[o]
  BY <1>1
<1>. HIDE DEF id
<1>5. \A o \in DOMAIN offers :
        /\ "merchant" \in DOMAIN offers'[o] /\ offers'[o].merchant = offers[o].merchant
  BY <1>3, <1>4 DEF BoardInv
<1>6. /\ \A r : SwapOK(r) => SwapOK(r)'
      /\ \A j : JobOK(j) => JobOK(j)'
  BY <1>4, <1>5, SellersStay
<1>7. DOMAIN jobs' = Slots /\ \A t \in Slots : JobOK(jobs'[t])
  BY <1>1, JobsStayOK, IdleOK
<1>. QED
  BY <1>1, <1>4, <1>5, <1>6, <1>7 DEF BoardInv

\* A listing is taken down (deactivateOffer).
LEMMA DeactivateKeepsBoard ==
  ASSUME BoardInv, NEW o, Market!DeactivateOffer(o)
  PROVE  BoardInv'
<1>1. /\ DOMAIN offers' = DOMAIN offers /\ jobs' = jobs /\ marketSwaps' = marketSwaps
      /\ \A x \in DOMAIN offers :
           offers'[x] = IF x = o THEN [offers[x] EXCEPT !.active = FALSE] ELSE offers[x]
  BY Zenon DEF Market!DeactivateOffer
<1>2. \A x \in DOMAIN offers :
        "merchant" \in DOMAIN offers'[x] /\ offers'[x].merchant = offers[x].merchant
  BY <1>1 DEF BoardInv
<1>3. /\ \A r : SwapOK(r) => SwapOK(r)'
      /\ \A j : JobOK(j) => JobOK(j)'
  BY <1>1, <1>2, SellersStay
<1>. QED
  BY <1>1, <1>2, <1>3 DEF BoardInv

\* A buyer picks a listing, and its seller with it (findAll).
LEMMA BrowseKeepsBoard ==
  ASSUME BoardInv, NEW s \in Slots, NEW u, NEW a, Market!Browse(s, u, a)
  PROVE  BoardInv'
<1>1. PICK o \in Market!FindAll(a) :
        jobs' = [jobs EXCEPT ![s] =
                  [op |-> "browse", alice |-> u, bob |-> offers[o].merchant, offer |-> o,
                   amountIn |-> a, amountOut |-> a * offers[o].rate]]
  BY DEF Market!Browse
<1>2. o \in DOMAIN offers
  BY DEF Market!FindAll
<1>3. JobOK([op |-> "browse", alice |-> u, bob |-> offers[o].merchant, offer |-> o,
             amountIn |-> a, amountOut |-> a * offers[o].rate])
  BY <1>2 DEF JobOK
<1>. QED
  BY <1>1, <1>3, OnlyJobs DEF Market!Browse

\* A seller's handler loads a listing (update).
LEMMA UpdateLoadKeepsBoard ==
  ASSUME BoardInv, NEW s \in Slots, NEW o, NEW u, NEW p \in Market!Patches,
         Market!UpdateLoad(s, o, u, p)
  PROVE  BoardInv'
<1>1. "merchant" \notin DOMAIN p
  BY DEF Market!Patches
<1>2. JobOK([op |-> "update", id |-> o, loaded |-> offers[o], patch |-> p])
  BY <1>1 DEF JobOK
<1>. QED
  BY <1>2, OnlyJobs DEF Market!UpdateLoad

\* A buyer's handler goes on only if the seller it names is the listing's (request).
LEMMA RequestLoadKeepsBoard ==
  ASSUME BoardInv, NEW s \in Slots, NEW bob, Market!RequestLoad(s, bob)
  PROVE  BoardInv'
<1>. DEFINE ask == [jobs[s] EXCEPT !.bob = bob]
            taken == [ask EXCEPT !.op = "request"]
<1>1. /\ jobs[s].op = "browse" /\ UNCHANGED <<offers, marketSwaps>>
      /\ jobs' = [jobs EXCEPT ![s] = IF Market!Requestable(ask) THEN taken ELSE Market!Idle]
  BY DEF Market!RequestLoad
<1>2. {"op", "bob", "offer"} \subseteq DOMAIN jobs[s] /\ jobs[s].offer \in DOMAIN offers
  BY <1>1 DEF BoardInv, JobOK
<1>3. /\ taken.op = "request" /\ taken.bob = bob /\ taken.offer = jobs[s].offer
      /\ {"op", "bob", "offer"} \subseteq DOMAIN taken
      /\ ask.bob = bob /\ ask.offer = jobs[s].offer
  BY <1>2
<1>. HIDE DEF ask, taken
<1>4. Market!Requestable(ask) => JobOK(taken)
  BY <1>2, <1>3 DEF Market!Requestable, JobOK
<1>. QED
  BY <1>1, <1>4, IdleOK, OnlyJobs

\* The swap is stored, as the one changed last (request).
LEMMA RequestCreateKeepsBoard ==
  ASSUME BoardInv, NEW s \in Slots, Market!RequestCreate(s)
  PROVE  BoardInv'
<1>. DEFINE j == jobs[s]
            new == [alice |-> j.alice, bob |-> j.bob, offer |-> j.offer, amountIn |-> j.amountIn,
                    amountOut |-> j.amountOut, status |-> "requested", age |-> 0]
<1>1. /\ jobs[s].op = "request" /\ offers' = offers
      /\ marketSwaps' = Append(marketSwaps, new)
      /\ jobs' = [jobs EXCEPT ![s] = Market!Idle]
  BY DEF Market!RequestCreate
<1>2. PICK S : marketSwaps \in Seq(S) /\ \A r \in S : SwapOK(r)
  BY DEF BoardInv
<1>4. SwapOK(new)
  BY <1>1 DEF BoardInv, JobOK, SwapOK
<1>. HIDE DEF new
<1>5. marketSwaps' \in Seq(S \cup {new})
  <2>1. marketSwaps \in Seq(S \cup {new})
    BY <1>2
  <2>. QED
    BY <1>1, <2>1
<1>6. DOMAIN jobs' = Slots /\ \A t \in Slots : JobOK(jobs'[t])
  BY <1>1, JobsStayOK, IdleOK
<1>7. /\ \A r : SwapOK(r) => SwapOK(r)'
      /\ \A i : JobOK(i) => JobOK(i)'
  BY <1>1 DEF SwapOK, JobOK
<1>8. \A r \in S \cup {new} : SwapOK(r)'
  BY <1>2, <1>4, <1>7
<1>. QED
  BY <1>1, <1>5, <1>6, <1>7, <1>8 DEF BoardInv

\* What happens to a swap leaves its parties alone: whatever the order they come in now, every
\* swap has the parties of one there was.
LEMMA SwapsMove ==
  ASSUME BoardInv, UNCHANGED <<offers, jobs>>, NEW S, marketSwaps' \in Seq(S),
         \A r \in S : SwapOK(r)
  PROVE  BoardInv'
<1>1. \A r \in S : SwapOK(r)'
  BY DEF SwapOK
<1>2. \A i : JobOK(i) => JobOK(i)'
  BY DEF JobOK
<1>. QED
  BY <1>1, <1>2 DEF BoardInv

\* A swap moves on, and to the end.
LEMMA ProgressKeepsBoard ==
  ASSUME BoardInv, NEW k \in DOMAIN marketSwaps, NEW status, Market!Progress(k, status)
  PROVE  BoardInv'
<1>. DEFINE new == [marketSwaps[k] EXCEPT !.status = status, !.age = 0]
<1>1. /\ UNCHANGED <<offers, jobs>>
      /\ marketSwaps' = Append(Market!RemoveAt(marketSwaps, k), new)
  BY DEF Market!Progress
<1>2. PICK S : marketSwaps \in Seq(S) /\ \A r \in S : SwapOK(r)
  BY DEF BoardInv
<1>3. SwapOK(marketSwaps[k])
  BY <1>2
<1>4. SwapOK(new)
  BY <1>3 DEF SwapOK
<1>. HIDE DEF new
<1>5. marketSwaps' \in Seq(S \cup {new})
  <2>1. marketSwaps \in Seq(S \cup {new}) /\ k \in 1 .. Len(marketSwaps) /\ Len(marketSwaps) \in Nat
    BY <1>2
  <2>2. /\ SubSeq(marketSwaps, 1, k - 1) \in Seq(S \cup {new})
        /\ SubSeq(marketSwaps, k + 1, Len(marketSwaps)) \in Seq(S \cup {new})
    BY <2>1
  <2>3. Market!RemoveAt(marketSwaps, k) \in Seq(S \cup {new})
    BY <2>2 DEF Market!RemoveAt
  <2>. QED
    BY <1>1, <2>3
<1>6. \A r \in S \cup {new} : SwapOK(r)
  BY <1>2, <1>4
<1>. QED
  BY <1>1, <1>5, <1>6, SwapsMove

\* Days pass.
LEMMA DaysKeepBoard ==
  ASSUME BoardInv, Market!DaysPass
  PROVE  BoardInv'
<1>1. /\ UNCHANGED <<offers, jobs>>
      /\ marketSwaps' = [k \in DOMAIN marketSwaps |->
                           IF Market!HasOutcome(marketSwaps[k])
                             THEN [marketSwaps[k] EXCEPT !.age = Market!Min({2, @ + 1})]
                             ELSE marketSwaps[k]]
  BY DEF Market!DaysPass
<1>2. PICK S : marketSwaps \in Seq(S) /\ \A r \in S : SwapOK(r)
  BY DEF BoardInv
<1>. DEFINE T == {marketSwaps'[k] : k \in DOMAIN marketSwaps}
<1>3. \A k \in DOMAIN marketSwaps : SwapOK(marketSwaps[k])
  BY <1>2
<1>4. \A r \in T : SwapOK(r)
  BY <1>1, <1>3 DEF SwapOK
<1>5. marketSwaps' \in Seq(T)
  <2>1. DOMAIN marketSwaps' = 1 .. Len(marketSwaps) /\ Len(marketSwaps) \in Nat
    BY <1>1, <1>2
  <2>2. marketSwaps' = [k \in 1 .. Len(marketSwaps) |-> marketSwaps'[k]]
    BY <1>1, <2>1
  <2>3. \A k \in 1 .. Len(marketSwaps) : marketSwaps'[k] \in T
    BY <1>1, <2>1
  <2>. HIDE DEF T
  <2>. QED
    BY <2>1, <2>2, <2>3
<1>. QED
  BY <1>1, <1>4, <1>5, SwapsMove

\* No step of the market breaks it.
LEMMA BoardStep ==
  ASSUME BoardInv, [Market!Next]_(Market!vars)
  PROVE  BoardInv'
<1>1. ASSUME UNCHANGED <<offers, jobs, marketSwaps>> PROVE BoardInv'
  <2>1. PICK S : marketSwaps \in Seq(S) /\ \A r \in S : SwapOK(r)
    BY DEF BoardInv
  <2>. QED
    BY <1>1, <2>1, SwapsMove
<1>2. ASSUME NEW o, Market!DeactivateOfferFails(o) PROVE BoardInv'
  BY <1>1, <1>2 DEF Market!DeactivateOfferFails
<1>3. ASSUME UNCHANGED Market!vars PROVE BoardInv'
  BY <1>1, <1>3 DEF Market!vars
<1>. QED
  BY <1>2, <1>3, CreateKeepsBoard, SaveKeepsBoard, DeactivateKeepsBoard, BrowseKeepsBoard,
     UpdateLoadKeepsBoard, RequestLoadKeepsBoard, RequestCreateKeepsBoard, ProgressKeepsBoard,
     DaysKeepBoard DEF Market!Next

-----------------------------------------------------------------------------
(* The boards of the market: what its queries count *)

\* The swaps of a status, their listings and their sellers.
InStatus(statuses) == {k \in DOMAIN marketSwaps : marketSwaps[k].status \in statuses}
ListingOf == [k \in DOMAIN marketSwaps |-> marketSwaps[k].offer]
SellerOf == [k \in DOMAIN marketSwaps |-> marketSwaps[k].bob]
Own(m) == {o \in DOMAIN offers : offers[o].merchant = m}

\* The swaps are numbered in their order, and each has its parties.
LEMMA SwapsInOrder ==
  ASSUME BoardInv
  PROVE  /\ DOMAIN marketSwaps = 1 .. Len(marketSwaps) /\ Len(marketSwaps) \in Nat
         /\ \A k \in DOMAIN marketSwaps : SwapOK(marketSwaps[k])
<1>1. PICK S : marketSwaps \in Seq(S) /\ \A r \in S : SwapOK(r)
  BY DEF BoardInv
<1>. QED
  BY <1>1

\* A class of swaps is finite.
LEMMA SwapsAreFinite ==
  ASSUME BoardInv, NEW statuses
  PROVE  IsFiniteSet(DOMAIN marketSwaps) /\ IsFiniteSet(InStatus(statuses))
<1>1. DOMAIN marketSwaps = 1 .. Len(marketSwaps) /\ Len(marketSwaps) \in Nat
  BY SwapsInOrder
<1>2. IsFiniteSet(DOMAIN marketSwaps)
  BY <1>1, FS_Interval
<1>. QED
  BY <1>2, FS_Subset DEF InStatus

\* The queries count a class of swaps, by listing or by seller.
LEMMA CountsAreUnder ==
  ASSUME NEW statuses
  PROVE  /\ \A os : Market!CountOf(os, statuses) = Under(InStatus(statuses), ListingOf, os)
         /\ \A m : Market!SellerCount(m, statuses) = Under(InStatus(statuses), SellerOf, {m})
<1>1. ASSUME NEW os
      PROVE  {k \in DOMAIN marketSwaps :
                marketSwaps[k].offer \in os /\ marketSwaps[k].status \in statuses}
               = {k \in InStatus(statuses) : ListingOf[k] \in os}
  BY DEF InStatus, ListingOf
<1>2. ASSUME NEW m
      PROVE  {k \in DOMAIN marketSwaps :
                marketSwaps[k].bob = m /\ marketSwaps[k].status \in statuses}
               = {k \in InStatus(statuses) : SellerOf[k] \in {m}}
  BY DEF InStatus, SellerOf
<1>. QED
  BY <1>1, <1>2, SameCardinality DEF Market!CountOf, Market!SellerCount, Under

\* A seller's swaps are those of his listings.
LEMMA SellersCountTheirListings ==
  ASSUME BoardInv, NEW m, NEW statuses
  PROVE  Market!SellerCount(m, statuses) = Market!CountOf(Own(m), statuses)
<1>1. \A k \in DOMAIN marketSwaps : marketSwaps[k].bob = m <=> marketSwaps[k].offer \in Own(m)
  BY SwapsInOrder DEF SwapOK, Own
<1>2. {k \in DOMAIN marketSwaps : marketSwaps[k].bob = m /\ marketSwaps[k].status \in statuses}
        = {k \in DOMAIN marketSwaps :
             marketSwaps[k].offer \in Own(m) /\ marketSwaps[k].status \in statuses}
  BY <1>1
<1>. QED
  BY <1>2 DEF Market!SellerCount, Market!CountOf

\* So what is counted is a number.
LEMMA CountsAreNumbers ==
  ASSUME BoardInv, NEW os, NEW statuses
  PROVE  Market!CountOf(os, statuses) \in Nat
<1>. DEFINE A == {k \in InStatus(statuses) : ListingOf[k] \in os}
<1>1. IsFiniteSet(A)
  BY SwapsAreFinite, FS_Subset
<1>2. Cardinality(A) \in Nat
  BY <1>1, FS_CardinalityType
<1>. QED
  BY <1>2, CountsAreUnder DEF Under

\* What holds of one listing holds of several, and of one status of two.
LEMMA CountsGrow ==
  ASSUME BoardInv, NEW os, NEW ps, os \subseteq ps, NEW statuses, NEW others
  PROVE  /\ Market!CountOf(os, statuses) <= Market!CountOf(ps, statuses)
         /\ statuses \cap others = {} =>
              Market!CountOf(os, statuses \cup others)
                = Market!CountOf(os, statuses) + Market!CountOf(os, others)
<1>. DEFINE Those(x, y) == {k \in DOMAIN marketSwaps :
                              marketSwaps[k].offer \in x /\ marketSwaps[k].status \in y}
<1>1. \A x, y : Market!CountOf(x, y) = Cardinality(Those(x, y))
  BY SameCardinality DEF Market!CountOf
<1>2. \A x, y : IsFiniteSet(Those(x, y))
  BY SwapsAreFinite, FS_Subset
<1>3. Those(os, statuses) \in SUBSET Those(ps, statuses)
  OBVIOUS
<1>4. ASSUME statuses \cap others = {}
      PROVE  Cardinality(Those(os, statuses \cup others))
               = Cardinality(Those(os, statuses)) + Cardinality(Those(os, others))
  <2>1. /\ Those(os, statuses \cup others) = Those(os, statuses) \cup Those(os, others)
        /\ Those(os, statuses) \cap Those(os, others) = {}
    BY <1>4
  <2>2. IsFiniteSet(Those(os, statuses)) /\ IsFiniteSet(Those(os, others))
    BY <1>2
  <2>. DEFINE A == Those(os, statuses)
              B == Those(os, others)
  <2>. HIDE DEF Those, A, B
  <2>3. IsFiniteSet(A) /\ IsFiniteSet(B)
    BY <2>2 DEF A, B
  <2>4. Cardinality(A \cup B) = Cardinality(A) + Cardinality(B) - Cardinality(A \cap B)
    BY <2>3, FS_Union
  <2>5. Cardinality(A) \in Nat /\ Cardinality(B) \in Nat
    BY <2>3, FS_CardinalityType
  <2>6. Cardinality({}) = 0
    BY FS_EmptySet
  <2>7. A \cap B = {} /\ Those(os, statuses \cup others) = A \cup B
    BY <2>1 DEF A, B
  <2>8. Cardinality(A \cup B) = Cardinality(A) + Cardinality(B) - 0
    BY <2>4, <2>6, <2>7
  <2>9. Cardinality(A \cup B) = Cardinality(A) + Cardinality(B)
    BY <2>5, <2>8
  <2>. QED
    BY <2>7, <2>9 DEF A, B
<1>. HIDE DEF Those
<1>5. Cardinality(Those(os, statuses)) <= Cardinality(Those(ps, statuses))
  BY <1>2, <1>3, FS_Subset
<1>. QED
  BY <1>1, <1>4, <1>5

\* What the listings of a seller count is what he counts.
LEMMA ListingsAddUp ==
  ASSUME BoardInv, NEW m, NEW statuses, NEW g, DOMAIN g = Own(m),
         \A o \in Own(m) : g[o] = Market!CountOf({o}, statuses)
  PROVE  Market!SumFunction(g) = Market!SellerCount(m, statuses)
<1>1. IsFiniteSet(Own(m))
  BY FS_Subset DEF BoardInv, Own
<1>2. IsFiniteSet(InStatus(statuses))
  BY SwapsAreFinite
<1>3. \A o \in Own(m) : g[o] = Under(InStatus(statuses), ListingOf, {o})
  BY CountsAreUnder
<1>4. Market!SumFunction(g) = Under(InStatus(statuses), ListingOf, Own(m))
  BY <1>1, <1>2, <1>3, SumOfCounts, Zenon
<1>5. Market!CountOf(Own(m), statuses) = Under(InStatus(statuses), ListingOf, Own(m))
  BY CountsAreUnder
<1>. QED
  BY <1>4, <1>5, SellersCountTheirListings

\* What all sellers count is what there is.
LEMMA SellersAddUp ==
  ASSUME BoardInv, IsFiniteSet(Users), NEW statuses, NEW g, DOMAIN g = Users,
         \A m \in Users : g[m] = Market!SellerCount(m, statuses)
  PROVE  Market!SumFunction(g) = Market!CountOf(DOMAIN offers, statuses)
<1>2. IsFiniteSet(InStatus(statuses))
  BY SwapsAreFinite
<1>3. \A m \in Users : g[m] = Under(InStatus(statuses), SellerOf, {m})
  BY CountsAreUnder
<1>4. Market!SumFunction(g) = Under(InStatus(statuses), SellerOf, Users)
  BY <1>2, <1>3, SumOfCounts, Zenon
<1>5. {k \in InStatus(statuses) : SellerOf[k] \in Users}
        = {k \in InStatus(statuses) : ListingOf[k] \in DOMAIN offers}
  BY SwapsInOrder DEF BoardInv, SwapOK, InStatus, SellerOf, ListingOf
<1>6. Market!CountOf(DOMAIN offers, statuses)
        = Under(InStatus(statuses), ListingOf, DOMAIN offers)
  BY CountsAreUnder
<1>. QED
  BY <1>4, <1>5, <1>6 DEF Under

-----------------------------------------------------------------------------
(* The boards of the market: they agree *)

\* The sums of a seller's page.
LEMMA PagesAddUp ==
  ASSUME BoardInv, NEW m
  PROVE  /\ Market!SellerCount(m, {"requested"})
              = Market!SumFunction([o \in Own(m) |-> Market!CountOf({o}, {"requested"})])
         /\ Market!SellerCount(m, Market!InExecution)
              = Market!SumFunction([o \in Own(m) |-> Market!CountOf({o}, Market!InExecution)])
<1>1. ASSUME NEW statuses
      PROVE  Market!SellerCount(m, statuses)
               = Market!SumFunction([o \in Own(m) |-> Market!CountOf({o}, statuses)])
  <2>. DEFINE g == [o \in Own(m) |-> Market!CountOf({o}, statuses)]
  <2>1. DOMAIN g = Own(m) /\ \A o \in Own(m) : g[o] = Market!CountOf({o}, statuses)
    OBVIOUS
  <2>. HIDE DEF g
  <2>2. Market!SumFunction(g) = Market!SellerCount(m, statuses)
    BY <2>1, ListingsAddUp, Zenon
  <2>. QED
    BY <2>2 DEF g
<1>. QED
  BY <1>1

\* The lesser of two numbers.
LEMMA MinOfTwo ==
  ASSUME NEW a \in Nat, NEW b \in Nat
  PROVE  Market!Min({a, b}) = IF a <= b THEN a ELSE b
<1>. DEFINE min == IF a <= b THEN a ELSE b
<1>1. \A x : (x \in {a, b} /\ \A y \in {a, b} : x <= y) <=> x = min
  OBVIOUS
<1>. QED
  BY <1>1 DEF Market!Min

\* The newest n of some swaps are n, or all of them: how many come after one is another number
\* for each of them.
LEMMA NewestAreSoMany ==
  ASSUME NEW K, K \subseteq Nat, IsFiniteSet(K), NEW n \in Nat
  PROVE  Cardinality(Market!Newest(K, n)) = IF n <= Cardinality(K) THEN n ELSE Cardinality(K)
<1>. DEFINE c == Cardinality(K)
            After(k) == {j \in K : j > k}
            rank == [k \in K |-> Cardinality(After(k))]
            R == 0 .. c - 1
<1>1. c \in Nat
  BY FS_CardinalityType
<1>2. ASSUME NEW k \in K
      PROVE  rank[k] \in R
  <2>1. After(k) \in SUBSET K /\ After(k) # K
    <3>1. ~ (k > k)
      OBVIOUS
    <3>. QED
      BY <3>1
  <2>2. IsFiniteSet(After(k)) /\ Cardinality(After(k)) <= c /\ Cardinality(After(k)) # c
    BY <2>1, FS_Subset
  <2>3. Cardinality(After(k)) \in Nat
    BY <2>2, FS_CardinalityType
  <2>. QED
    BY <1>1, <2>2, <2>3
<1>3. ASSUME NEW k \in K, NEW l \in K, k < l
      PROVE  rank[k] # rank[l]
  <2>0. k \in Nat /\ l \in Nat
    OBVIOUS
  <2>4. \A j \in K : j > l => j > k
    BY <1>3, <2>0
  <2>5. After(l) \in SUBSET After(k)
    BY <2>4
  <2>6. l > k /\ ~ (l > l)
    BY <1>3, <2>0
  <2>1. After(l) \in SUBSET After(k) /\ l \in After(k) /\ l \notin After(l)
    BY <2>5, <2>6
  <2>2. IsFiniteSet(After(k))
    BY FS_Subset
  <2>. HIDE DEF After
  <2>3. Cardinality(After(l)) # Cardinality(After(k))
    BY <2>1, <2>2, FS_Subset
  <2>. QED
    BY <2>3
<1>4. rank \in [K -> R]
  BY <1>2
<1>. HIDE DEF rank
<1>5. rank \in Injection(K, R)
  <2>1. ASSUME NEW k \in K, NEW l \in K, rank[k] = rank[l]
        PROVE  k = l
    <3>1. k \in Nat /\ l \in Nat
      OBVIOUS
    <3>2. ~ (k < l) /\ ~ (l < k)
      BY <1>3, <2>1
    <3>. QED
      BY <3>1, <3>2
  <2>. QED
    BY <1>4, <2>1 DEF Injection, IsInjective
<1>6. IsFiniteSet(R) /\ Cardinality(R) = c
  <2>. HIDE DEF c
  <2>1. 0 \in Int /\ c - 1 \in Int /\ (c - 1) - 0 + 1 = c
    BY <1>1
  <2>2. IsFiniteSet(R) /\ Cardinality(R) = IF 0 > c - 1 THEN 0 ELSE (c - 1) - 0 + 1
    BY <2>1, FS_Interval
  <2>. QED
    BY <1>1, <2>1, <2>2
<1>7. rank \in Surjection(K, R)
  BY <1>5, <1>6, FS_Injection
<1>8. Market!Newest(K, n) = {k \in K : rank[k] < n}
  BY SameCardinality DEF Market!Newest, rank
<1>. DEFINE N == {k \in K : rank[k] < n}
            m == IF n <= c THEN n ELSE c
            f == [k \in N |-> rank[k]]
<1>16. m \in Nat /\ m <= c /\ m <= n /\ (m = c \/ m = n)
  BY <1>1
<1>9. f \in [N -> 0 .. m - 1]
  <2>. HIDE DEF m
  <2>1. ASSUME NEW k \in N
        PROVE  rank[k] \in 0 .. m - 1
    <3>1. rank[k] \in 0 .. c - 1 /\ rank[k] < n
      BY <1>4
    <3>. QED
      BY <1>1, <1>16, <3>1
  <2>. QED
    BY <2>1
<1>10. f \in Injection(N, 0 .. m - 1)
  BY <1>5, <1>9 DEF Injection, IsInjective
<1>11. \A i \in 0 .. m - 1 : \E k \in N : f[k] = i
  BY <1>1, <1>7 DEF Surjection
<1>12. f \in Bijection(N, 0 .. m - 1)
  BY <1>9, <1>10, <1>11 DEF Bijection, Surjection
<1>13. IsFiniteSet(N)
  BY FS_Subset
<1>. HIDE DEF f, N
<1>14. Cardinality(0 .. m - 1) = Cardinality(N)
  BY <1>12, <1>13, FS_Bijection DEF ExistsBijection
<1>15. Cardinality(0 .. m - 1) = m
  <2>. HIDE DEF m
  <2>1. 0 \in Int /\ m - 1 \in Int /\ (m - 1) - 0 + 1 = m
    BY <1>16
  <2>2. Cardinality(0 .. m - 1) = IF 0 > m - 1 THEN 0 ELSE (m - 1) - 0 + 1
    BY <2>1, FS_Interval
  <2>. QED
    BY <1>16, <2>1, <2>2
<1>. QED
  BY <1>8, <1>14, <1>15 DEF N

\* The completed swaps of a seller are those of his listings.
LEMMA CompletedOfListings ==
  ASSUME BoardInv, NEW m
  PROVE  /\ Market!CompletedBy(m) \subseteq InStatus({"completed"})
         /\ IsFiniteSet(Market!CompletedBy(m)) /\ Market!CompletedBy(m) \subseteq Nat
         /\ Cardinality(Market!CompletedBy(m)) = Market!SellerCount(m, {"completed"})
         /\ \A k \in Market!CompletedBy(m) : ListingOf[k] \in Own(m)
<1>1. Market!CompletedBy(m) \subseteq InStatus({"completed"})
  BY DEF Market!CompletedBy, InStatus
<1>2. IsFiniteSet(Market!CompletedBy(m))
  BY <1>1, SwapsAreFinite, FS_Subset
<1>3. Market!CompletedBy(m) = {k \in DOMAIN marketSwaps : /\ marketSwaps[k].bob = m
                                                        /\ marketSwaps[k].status \in {"completed"}}
  BY DEF Market!CompletedBy
<1>4. Cardinality(Market!CompletedBy(m)) = Market!SellerCount(m, {"completed"})
  BY <1>3, SameCardinality DEF Market!SellerCount
<1>5. \A k \in Market!CompletedBy(m) : ListingOf[k] \in Own(m)
  BY SwapsInOrder DEF Market!CompletedBy, SwapOK, Own, ListingOf
<1>6. Market!CompletedBy(m) \subseteq Nat
  BY SwapsInOrder DEF Market!CompletedBy
<1>. QED
  BY <1>1, <1>2, <1>4, <1>5, <1>6

\* What is routed through the listings of a seller are his last completed swaps, or all.
LEMMA RoutedAddUp ==
  ASSUME BoardInv, NEW m, Market!ViewsAssumption
  PROVE  Market!SumFunction([o \in Own(m) |-> Market!MerchantMetrics(m, o).routedThroughThisOffer])
           = Market!Min({RoutedLimit, Market!SellerCount(m, {"completed"})})
<1>. DEFINE K == Market!CompletedBy(m)
            N == Market!Newest(K, RoutedLimit)
            g == [o \in Own(m) |-> Market!MerchantMetrics(m, o).routedThroughThisOffer]
            c == Market!SellerCount(m, {"completed"})
<1>1. IsFiniteSet(K) /\ K \subseteq Nat /\ Cardinality(K) = c
  BY CompletedOfListings
<1>2. N \subseteq K
  BY DEF Market!Newest
<1>3. IsFiniteSet(N)
  BY <1>1, <1>2, FS_Subset
<1>4. ASSUME NEW o \in Own(m)
      PROVE  g[o] = Under(N, ListingOf, {o})
  <2>1. {k \in N : marketSwaps[k].offer = o} = {k \in N : ListingOf[k] \in {o}}
    BY <1>2 DEF ListingOf, Market!CompletedBy
  <2>. QED
    BY <2>1, SameCardinality DEF Market!MerchantMetrics, Under
<1>5. DOMAIN g = Own(m)
  OBVIOUS
<1>6. IsFiniteSet(Own(m))
  BY FS_Subset DEF BoardInv, Own
<1>7. {k \in N : ListingOf[k] \in Own(m)} = N
  BY <1>2, CompletedOfListings
<1>8. RoutedLimit \in Nat /\ c \in Nat
  <2>1. Cardinality(K) \in Nat
    BY <1>1, FS_CardinalityType
  <2>. QED
    BY <1>1, <2>1 DEF Market!ViewsAssumption
<1>9. Cardinality(N) = IF RoutedLimit <= c THEN RoutedLimit ELSE c
  <2>. HIDE DEF K, c
  <2>1. Cardinality(N) = IF RoutedLimit <= Cardinality(K) THEN RoutedLimit ELSE Cardinality(K)
    BY <1>1, <1>8, NewestAreSoMany
  <2>. QED
    BY <1>1, <2>1
<1>. HIDE DEF N, g, K, c
<1>10. Market!SumFunction(g) = Under(N, ListingOf, Own(m))
  BY <1>3, <1>4, <1>5, <1>6, SumOfCounts, Zenon
<1>11. Market!SumFunction(g) = Cardinality(N)
  BY <1>7, <1>10 DEF Under
<1>12. Market!Min({RoutedLimit, c}) = IF RoutedLimit <= c THEN RoutedLimit ELSE c
  BY <1>8, MinOfTwo
<1>. QED
  BY <1>9, <1>11, <1>12 DEF g, c

\* The outcomes a seller's page lists are his last ones, or all.
LEMMA OutcomesAreSoMany ==
  ASSUME BoardInv, NEW m, Market!ViewsAssumption
  PROVE  Cardinality(Market!Workspace(m).recentOutcomes)
           = Market!Min({OutcomeLimit, Market!SellerCount(m, {"completed"})
                                         + Market!SellerCount(m, {"failed"})})
<1>. DEFINE K == {k \in DOMAIN marketSwaps : /\ marketSwaps[k].offer \in Own(m)
                                             /\ Market!HasOutcome(marketSwaps[k])}
            c == Market!SellerCount(m, {"completed"}) + Market!SellerCount(m, {"failed"})
<1>1. Market!Workspace(m).recentOutcomes = Market!Newest(K, OutcomeLimit)
  BY DEF Market!Workspace, Own
<1>2. K = {k \in DOMAIN marketSwaps : /\ marketSwaps[k].offer \in Own(m)
                                      /\ marketSwaps[k].status \in {"completed", "failed"}}
  BY DEF Market!HasOutcome
<1>3. Cardinality(K) = Market!CountOf(Own(m), {"completed", "failed"})
  BY <1>2, SameCardinality DEF Market!CountOf
<1>4. Cardinality(K) = c
  <2>1. {"completed"} \cap {"failed"} = {}
    OBVIOUS
  <2>2. {"completed"} \cup {"failed"} = {"completed", "failed"}
    OBVIOUS
  <2>3. Market!CountOf(Own(m), {"completed"} \cup {"failed"})
          = Market!CountOf(Own(m), {"completed"}) + Market!CountOf(Own(m), {"failed"})
    BY <2>1, CountsGrow
  <2>. QED
    BY <1>3, <2>2, <2>3, SellersCountTheirListings
<1>5. IsFiniteSet(K) /\ K \subseteq Nat
  BY SwapsAreFinite, SwapsInOrder, FS_Subset
<1>6. Cardinality(K) \in Nat /\ OutcomeLimit \in Nat
  BY <1>5, FS_CardinalityType DEF Market!ViewsAssumption
<1>. HIDE DEF K, c
<1>7. Cardinality(Market!Newest(K, OutcomeLimit))
        = IF OutcomeLimit <= Cardinality(K) THEN OutcomeLimit ELSE Cardinality(K)
  BY <1>5, <1>6, NewestAreSoMany
<1>8. Market!Min({OutcomeLimit, c}) = IF OutcomeLimit <= c THEN OutcomeLimit ELSE c
  BY <1>4, <1>6, MinOfTwo
<1>. QED
  BY <1>1, <1>4, <1>7, <1>8 DEF c

\* More swaps, more pressure.
LEMMA PressureRises ==
  ASSUME NEW open \in Nat, NEW flight \in Nat, NEW open2 \in Nat, NEW flight2 \in Nat,
         open <= open2, flight <= flight2
  PROVE  Market!Rank(Market!QueuePressure(open, flight))
           <= Market!Rank(Market!QueuePressure(open2, flight2))
<1>1. /\ Market!Rank("light") = 1 /\ Market!Rank("moderate") = 2 /\ Market!Rank("heavy") = 3
  <2>1. /\ DOMAIN Market!Pressures = {1, 2, 3}
        /\ Market!Pressures[1] = "light" /\ Market!Pressures[2] = "moderate"
        /\ Market!Pressures[3] = "heavy"
    BY DEF Market!Pressures
  <2>2. \A i \in DOMAIN Market!Pressures : Market!Pressures[i] = "light" <=> i = 1
    BY <2>1
  <2>3. \A i \in DOMAIN Market!Pressures : Market!Pressures[i] = "moderate" <=> i = 2
    BY <2>1
  <2>4. \A i \in DOMAIN Market!Pressures : Market!Pressures[i] = "heavy" <=> i = 3
    BY <2>1
  <2>. QED
    BY <2>1, <2>2, <2>3, <2>4 DEF Market!Rank
<1>2. \/ Market!QueuePressure(open, flight) = "light"
      \/ Market!QueuePressure(open, flight) = "moderate" /\ 2 * open + 3 * flight >= 5
      \/ Market!QueuePressure(open, flight) = "heavy" /\ 2 * open + 3 * flight >= 12
  BY DEF Market!QueuePressure
<1>3. 2 * open + 3 * flight <= 2 * open2 + 3 * flight2
  OBVIOUS
<1>4. /\ Market!QueuePressure(open2, flight2) \in {"light", "moderate", "heavy"}
      /\ 2 * open2 + 3 * flight2 >= 5
           => Market!QueuePressure(open2, flight2) \in {"moderate", "heavy"}
      /\ 2 * open2 + 3 * flight2 >= 12 => Market!QueuePressure(open2, flight2) = "heavy"
  BY DEF Market!QueuePressure
<1>5. /\ 2 * open + 3 * flight >= 5 => 2 * open2 + 3 * flight2 >= 5
      /\ 2 * open + 3 * flight >= 12 => 2 * open2 + 3 * flight2 >= 12
  BY <1>3
<1>. DEFINE p == Market!QueuePressure(open, flight)
            q == Market!QueuePressure(open2, flight2)
<1>6. /\ q \in {"light", "moderate", "heavy"}
      /\ p = "light" \/ (p = "moderate" /\ q \in {"moderate", "heavy"}) \/ (p = "heavy" /\ q = "heavy")
  BY <1>2, <1>4, <1>5
<1>. HIDE DEF p, q
<1>7. Market!Rank(p) <= Market!Rank(q)
  BY <1>1, <1>6
<1>. QED
  BY <1>7 DEF p, q

\* No listing is under more pressure than the seller whose page shows it.
LEMMA ListingsPressLess ==
  ASSUME BoardInv, NEW m, NEW o \in Own(m)
  PROVE  Market!Rank(Market!OfferBoardItem(o).queuePressure)
           <= Market!Rank(Market!QueueHealth(m).pressure)
<1>. DEFINE C(os, statuses) == Market!CountOf(os, statuses)
            n == Market!QueueCounts(m)
<1>1. /\ n["requested"] = C(Own(m), {"requested"})
      /\ n["proofs_pending"] = C(Own(m), {"proofs_pending"})
      /\ n["proofs_ready"] = C(Own(m), {"proofs_ready"})
      /\ n["executing"] = C(Own(m), {"executing"})
  BY SellersCountTheirListings DEF Market!QueueCounts, Market!Statuses
<1>2. \A os, statuses : C(os, statuses) \in Nat
  BY CountsAreNumbers
<1>3. {o} \subseteq Own(m)
  OBVIOUS
<1>4. C({o}, {"requested"}) <= C(Own(m), {"requested"})
  BY <1>3, CountsGrow
<1>5. C({o}, {"proofs_ready", "executing"})
        = C({o}, {"proofs_ready"}) + C({o}, {"executing"})
  <2>1. {"proofs_ready"} \cap {"executing"} = {}
    OBVIOUS
  <2>2. {"proofs_ready"} \cup {"executing"} = {"proofs_ready", "executing"}
    OBVIOUS
  <2>3. C({o}, {"proofs_ready"} \cup {"executing"})
          = C({o}, {"proofs_ready"}) + C({o}, {"executing"})
    BY <1>3, <2>1, CountsGrow
  <2>. QED
    BY <2>2, <2>3
<1>6. /\ C({o}, {"proofs_ready"}) <= C(Own(m), {"proofs_ready"})
      /\ C({o}, {"executing"}) <= C(Own(m), {"executing"})
  BY <1>3, CountsGrow
<1>. HIDE DEF C, n
<1>7. /\ C({o}, {"requested"}) <= n["requested"] + n["proofs_pending"]
      /\ C({o}, {"proofs_ready", "executing"}) <= n["proofs_ready"] + n["executing"]
      /\ n["requested"] + n["proofs_pending"] \in Nat
      /\ n["proofs_ready"] + n["executing"] \in Nat
      /\ C({o}, {"requested"}) \in Nat /\ C({o}, {"proofs_ready", "executing"}) \in Nat
  BY <1>1, <1>2, <1>4, <1>5, <1>6
<1>8. Market!Rank(Market!QueuePressure(C({o}, {"requested"}), C({o}, {"proofs_ready", "executing"})))
        <= Market!Rank(Market!QueuePressure(n["requested"] + n["proofs_pending"],
                                            n["proofs_ready"] + n["executing"]))
  BY <1>7, PressureRises
<1>9. Market!OfferBoardItem(o).queuePressure
        = Market!QueuePressure(C({o}, {"requested"}), C({o}, {"proofs_ready", "executing"}))
  BY DEF Market!OfferBoardItem, C
<1>10. Market!QueueHealth(m).pressure
         = Market!QueuePressure(n["requested"] + n["proofs_pending"],
                                n["proofs_ready"] + n["executing"])
  BY DEF Market!QueueHealth, n
<1>. QED
  BY <1>8, <1>9, <1>10

\* What is known of the market is what BoardsCountTheSame says of its boards.
LEMMA BoardsAgreeNow ==
  ASSUME BoardInv, Market!ViewsAssumption
  PROVE  Market!BoardsCountTheSame
<1>1. ASSUME NEW m \in Users
      PROVE  LET w == Market!Workspace(m)
                 own == DOMAIN w.offerBoard
             IN /\ w.queue["requested"]
                     = Market!SumFunction([o \in own |-> Market!OfferMetrics(o).openRequests])
                /\ Market!MerchantMetrics(m, "none").activeAsSeller
                     = Market!SumFunction([o \in own |-> Market!OfferMetrics(o).activeExecutions])
                /\ Market!Cardinality(w.recentOutcomes)
                     = Market!Min({OutcomeLimit, w.queue["completed"] + w.queue["failed"]})
                /\ Market!Min({RoutedLimit, w.queue["completed"]})
                     = Market!SumFunction(
                         [o \in own |-> Market!MerchantMetrics(m, o).routedThroughThisOffer])
                /\ \A o \in own : Market!Rank(w.offerBoard[o].queuePressure)
                                    <= Market!Rank(w.queueHealth.pressure)
  <2>. DEFINE w == Market!Workspace(m)
  <2>1. /\ w.queue = Market!QueueCounts(m)
        /\ w.offerBoard = [o \in Own(m) |-> Market!OfferBoardItem(o)]
        /\ w.queueHealth = Market!QueueHealth(m)
    BY DEF Market!Workspace, Own
  <2>2. DOMAIN w.offerBoard = Own(m)
    BY <2>1
  <2>3. /\ w.queue["requested"] = Market!SellerCount(m, {"requested"})
        /\ w.queue["completed"] = Market!SellerCount(m, {"completed"})
        /\ w.queue["failed"] = Market!SellerCount(m, {"failed"})
    BY <2>1 DEF Market!QueueCounts, Market!Statuses
  <2>4. [o \in Own(m) |-> Market!OfferMetrics(o).openRequests]
          = [o \in Own(m) |-> Market!CountOf({o}, {"requested"})]
    BY DEF Market!OfferMetrics
  <2>5. [o \in Own(m) |-> Market!OfferMetrics(o).activeExecutions]
          = [o \in Own(m) |-> Market!CountOf({o}, Market!InExecution)]
    BY DEF Market!OfferMetrics
  <2>6. Market!SumFunction([o \in Own(m) |-> Market!MerchantMetrics(m, o).routedThroughThisOffer])
          = Market!Min({RoutedLimit, w.queue["completed"]})
    BY <2>3, RoutedAddUp
  <2>7. Market!MerchantMetrics(m, "none").activeAsSeller
          = Market!SellerCount(m, Market!InExecution)
    BY DEF Market!MerchantMetrics
  <2>8. Market!Cardinality(w.recentOutcomes)
          = Market!Min({OutcomeLimit, w.queue["completed"] + w.queue["failed"]})
    BY <2>3, OutcomesAreSoMany, SameCardinality
  <2>9. \A o \in Own(m) : Market!Rank(w.offerBoard[o].queuePressure)
                            <= Market!Rank(w.queueHealth.pressure)
    <3>. TAKE o \in Own(m)
    <3>1. w.offerBoard[o] = Market!OfferBoardItem(o)
      BY <2>1
    <3>. HIDE DEF w
    <3>. QED
      BY <2>1, <3>1, ListingsPressLess
  <2>. HIDE DEF w
  <2>10. /\ w.queue["requested"]
              = Market!SumFunction([o \in Own(m) |-> Market!OfferMetrics(o).openRequests])
         /\ Market!MerchantMetrics(m, "none").activeAsSeller
              = Market!SumFunction([o \in Own(m) |-> Market!OfferMetrics(o).activeExecutions])
    BY <2>3, <2>4, <2>5, <2>7, PagesAddUp
  <2>. QED
    BY <2>2, <2>6, <2>8, <2>9, <2>10 DEF w
<1>3. IsFiniteSet(Users)
  BY DEF Market!ViewsAssumption, Market!OffersAssumption, Market!IsFiniteSet, IsFiniteSet
<1>2. Market!MarketHighlights.openRequests
        = Market!SumFunction([m \in Users |-> Market!QueueCounts(m)["requested"]])
  <2>. DEFINE g == [m \in Users |-> Market!QueueCounts(m)["requested"]]
  <2>1. DOMAIN g = Users /\ \A m \in Users : g[m] = Market!SellerCount(m, {"requested"})
    BY DEF Market!QueueCounts, Market!Statuses
  <2>2. Market!MarketHighlights.openRequests = Market!CountOf(DOMAIN offers, {"requested"})
    BY DEF Market!MarketHighlights
  <2>. HIDE DEF g
  <2>3. Market!SumFunction(g) = Market!CountOf(DOMAIN offers, {"requested"})
    BY <1>3, <2>1, SellersAddUp, Zenon
  <2>. QED
    BY <2>2, <2>3 DEF g
<1>. QED
  BY <1>1, <1>2 DEF Market!BoardsCountTheSame

-----------------------------------------------------------------------------
(* The pages                                                                *)

Moments == {"attempt", "split", "pause", "again"}

\* What is known of the record of a click.
ClickOK(r) ==
  /\ {"said", "paid", "proved"} \subseteq DOMAIN r
  /\ r.tab \in Tabs /\ r.paid \in {0, 1}
  /\ r.kind \in Web!Payments /\ r.said = "success" => r.paid = 1

\* A request that can still pay has not: what is known of a request c, the record r of its
\* click, and the page p of that click.
RequestOK(c, r, p) ==
  /\ "heard" \in DOMAIN c
  /\ c.step \in Moments /\ c.heard \in BOOLEAN
  /\ r.paid = 0
  /\ c.heard => p = [at |-> c.step, click |-> c.click]
  /\ ~ c.heard => p.click # c.click

\* A page that waits belongs to a click that has not paid; in the pause nothing is under way.
PageOK(t) ==
  LET p == page[t] IN
  p # Web!Idle =>
    /\ p = [at |-> p.at, click |-> p.click] /\ p.at \in Moments
    /\ p.click \in DOMAIN clicks /\ clicks[p.click].tab = t /\ clicks[p.click].paid = 0
    /\ p.at = "pause" => \A c \in requested : c.click # p.click

WebInv ==
  /\ page = [t \in Tabs |-> page[t]]
  /\ \E S : clicks \in Seq(S)
  /\ \A k \in DOMAIN clicks : ClickOK(clicks[k])
  /\ \A c \in requested :
       c.click \in DOMAIN clicks
         /\ RequestOK(c, clicks[c.click], page[clicks[c.click].tab])
  /\ \A c, d \in requested : c.click = d.click => c = d
  /\ \A t \in Tabs : PageOK(t)

\* A record in the list of clicks changes, or one is added.
LEMMA ClickChanges ==
  ASSUME WebInv, NEW k \in DOMAIN clicks, NEW q, clicks' = [clicks EXCEPT ![k] = q]
  PROVE  /\ \E S : clicks' \in Seq(S)
         /\ DOMAIN clicks' = DOMAIN clicks /\ clicks'[k] = q
         /\ \A j \in DOMAIN clicks : j # k => clicks'[j] = clicks[j]
<1>1. PICK S : clicks \in Seq(S)
  BY DEF WebInv
<1>2. clicks \in Seq(S \cup {q}) /\ q \in S \cup {q}
  BY <1>1
<1>3. clicks' \in Seq(S \cup {q})
  BY <1>2, ExceptSeq
<1>. QED
  BY <1>3

LEMMA ClickAdded ==
  ASSUME WebInv, NEW q, clicks' = Append(clicks, q)
  PROVE  /\ \E S : clicks' \in Seq(S)
         /\ Len(clicks') \notin DOMAIN clicks /\ Len(clicks') # 0
         /\ DOMAIN clicks' = DOMAIN clicks \cup {Len(clicks')}
         /\ clicks'[Len(clicks')] = q
         /\ \A j \in DOMAIN clicks : clicks'[j] = clicks[j]
<1>1. PICK S : clicks \in Seq(S)
  BY DEF WebInv
<1>2. clicks \in Seq(S \cup {q}) /\ q \in S \cup {q}
  BY <1>1
<1>3. clicks' \in Seq(S \cup {q})
  BY <1>2, AppendProperties
<1>4. Len(clicks) \in Nat /\ DOMAIN clicks = 1 .. Len(clicks)
  BY <1>1, LenProperties
<1>5. /\ Len(clicks') = Len(clicks) + 1
      /\ clicks'[Len(clicks) + 1] = q
      /\ \A j \in 1 .. Len(clicks) : clicks'[j] = clicks[j]
  BY <1>2, AppendProperties
<1>6. DOMAIN clicks' = 1 .. Len(clicks) + 1
  BY <1>3, <1>5, LenProperties
<1>. QED
  BY <1>3, <1>4, <1>5, <1>6

\* A request is answered or given up: its page, if that still waits for it, ends or goes on
\* to p, the record of its click becomes q, and what is under way for the click is in rest.
LEMMA RequestEnds ==
  ASSUME WebInv, NEW c \in requested, NEW q, NEW p, NEW rest,
         q.tab = clicks[c.click].tab, ClickOK(q),
         page' = [page EXCEPT ![q.tab] = p],
         clicks' = [clicks EXCEPT ![c.click] = q],
         requested' = (requested \ {c}) \cup rest,
         \A d \in rest : d.click = c.click /\ RequestOK(d, q, p),
         \A d, e \in rest : d = e,
         \/ ~ c.heard /\ p = page[q.tab]
         \/ c.heard /\ p = Web!Idle
         \/ /\ c.heard /\ q.paid = 0
            /\ p = [at |-> p.at, click |-> c.click] /\ p.at \in Moments
            /\ p.at = "pause" => rest = {}
  PROVE  WebInv'
<1>1. /\ c.click \in DOMAIN clicks /\ RequestOK(c, clicks[c.click], page[q.tab])
      /\ q.tab \in Tabs
  BY DEF WebInv, ClickOK
<1>2. /\ \E S : clicks' \in Seq(S)
      /\ DOMAIN clicks' = DOMAIN clicks /\ clicks'[c.click] = q
      /\ \A j \in DOMAIN clicks : j # c.click => clicks'[j] = clicks[j]
  BY <1>1, ClickChanges
<1>3. /\ page' = [t \in Tabs |-> page'[t]] /\ page'[q.tab] = p
      /\ \A t \in Tabs : t # q.tab => page'[t] = page[t]
  BY <1>1 DEF WebInv
<1>4. 0 \notin DOMAIN clicks
  BY LenProperties DEF WebInv
<1>5. \A k \in DOMAIN clicks' : ClickOK(clicks'[k])
  BY <1>2 DEF WebInv
<1>6. \A d \in requested \ {c} : d.click # c.click
  BY DEF WebInv
<1>7. ASSUME NEW d \in requested'
      PROVE  d.click \in DOMAIN clicks'
               /\ RequestOK(d, clicks'[d.click], page'[clicks'[d.click].tab])
  <2>1. CASE d \in rest
    BY <1>1, <1>2, <1>3, <2>1
  <2>2. CASE d \in requested \ {c}
    <3>1. /\ d.click \in DOMAIN clicks /\ d.click # c.click /\ clicks'[d.click] = clicks[d.click]
          /\ RequestOK(d, clicks[d.click], page[clicks[d.click].tab])
      BY <1>2, <1>6, <2>2 DEF WebInv
    <3>2. CASE clicks[d.click].tab # q.tab
      <4>1. clicks[d.click].tab \in Tabs
        BY <3>1 DEF WebInv, ClickOK
      <4>. QED
        BY <1>2, <1>3, <3>1, <3>2, <4>1
    <3>3. CASE clicks[d.click].tab = q.tab /\ c.heard
      <4>1. page[q.tab].click = c.click
        BY <1>1, <3>3 DEF RequestOK
      <4>2. ~ d.heard
        BY <3>1, <3>3, <4>1 DEF RequestOK
      <4>3. p.click # d.click
        BY <1>4, <3>1, <3>3 DEF Web!Idle
      <4>. QED
        BY <1>2, <1>3, <3>1, <3>3, <4>2, <4>3 DEF RequestOK
    <3>4. CASE clicks[d.click].tab = q.tab /\ ~ c.heard
      BY <1>2, <1>3, <3>1, <3>4
    <3>. QED
      BY <3>2, <3>3, <3>4
  <2>. QED
    BY <2>1, <2>2
<1>8. \A d, e \in requested' : d.click = e.click => d = e
  BY <1>6 DEF WebInv
<1>9. ASSUME NEW t \in Tabs, page'[t] # Web!Idle
      PROVE  /\ page'[t] = [at |-> page'[t].at, click |-> page'[t].click]
             /\ page'[t].at \in Moments /\ page'[t].click \in DOMAIN clicks'
             /\ clicks'[page'[t].click].tab = t /\ clicks'[page'[t].click].paid = 0
             /\ page'[t].at = "pause" => \A d \in requested' : d.click # page'[t].click
  <2>1. CASE page'[t] = page[t] /\ page[t].click # c.click
    <3>1. /\ page[t] = [at |-> page[t].at, click |-> page[t].click]
          /\ page[t].at \in Moments /\ page[t].click \in DOMAIN clicks
          /\ clicks[page[t].click].tab = t /\ clicks[page[t].click].paid = 0
          /\ page[t].at = "pause" => \A d \in requested : d.click # page[t].click
      BY <1>9, <2>1 DEF WebInv, PageOK
    <3>. QED
      BY <1>2, <2>1, <3>1
  <2>2. CASE t = q.tab /\ c.heard
    BY <1>1, <1>2, <1>3, <1>6, <1>9, <2>2
  <2>3. CASE t = q.tab /\ ~ c.heard
    <3>1. page'[t] = page[t] /\ page[t].click # c.click
      BY <1>1, <1>3, <2>3 DEF RequestOK
    <3>. QED
      BY <2>1, <3>1
  <2>4. CASE t # q.tab
    <3>1. page[t].click # c.click
      BY <1>3, <1>9, <2>4 DEF WebInv, PageOK
    <3>. QED
      BY <1>3, <2>1, <2>4, <3>1
  <2>. QED
    BY <2>2, <2>3, <2>4
<1>10. \A t \in Tabs : PageOK(t)'
  BY <1>9 DEF PageOK
<1>. QED
  BY <1>2, <1>3, <1>5, <1>7, <1>8, <1>10 DEF WebInv

\* The page hears an answer.  Unless it ends with that, nothing has been paid.
LEMMA HearKeepsInv ==
  ASSUME WebInv, NEW c \in requested, c.heard, NEW answer, NEW r, NEW late,
         ClickOK(r), r.tab = clicks[c.click].tab,
         answer = "success" /\ c.step # "split" /\ r.kind \in Web!Payments => r.paid = 1,
         r.paid = 1 => answer # "exact" /\ c.step # "split",
         late # {} => r.paid = 0 /\ answer # "exact" /\ (c.step = "split" => answer # "success"),
         \A d \in late : /\ "heard" \in DOMAIN d /\ d.heard = FALSE
                          /\ d.click = c.click /\ d.step = c.step,
         \A d, e \in late : d = e,
         Web!Hear(c, answer, r, late)
  PROVE  WebInv'
<1>. DEFINE next == Web!Reaction(r.kind, c.step, answer)
            ends == next \in {"success", "failure"}
            p == IF ends THEN Web!Idle ELSE [at |-> next, click |-> c.click]
            q == [r EXCEPT !.said = IF ends THEN next ELSE @]
            rest == late \cup IF next = "split" THEN {Web!Call(c.click, "split")} ELSE {}
<1>1. /\ c.click \in DOMAIN clicks /\ c.step \in Moments
  BY DEF WebInv, RequestOK
<1>2. /\ next \in {"success", "failure", "split", "pause"}
      /\ next = "success" => answer = "success" /\ c.step # "split"
      /\ next = "split" => answer = "exact"
      /\ next = "pause" => answer = "success" /\ c.step = "split"
  BY DEF Web!Reaction, Web!Recovers
<1>3. /\ page' = [page EXCEPT ![r.tab] = p]
      /\ clicks' = [clicks EXCEPT ![c.click] = q]
      /\ requested' = (requested \ {c}) \cup rest
  BY DEF Web!Hear
<1>. HIDE DEF next
<1>4. q.said = (IF ends THEN next ELSE r.said) /\ q.tab = r.tab /\ q.kind = r.kind
        /\ q.paid = r.paid /\ DOMAIN q = DOMAIN r
  BY DEF ClickOK
<1>. HIDE DEF q
<1>5. ClickOK(q)
  BY <1>2, <1>4 DEF ClickOK
<1>6. ~ ends => r.paid = 0
  BY <1>2 DEF ClickOK
<1>7. ASSUME NEW d \in rest PROVE d.click = c.click /\ RequestOK(d, q, p)
  <2>1. CASE next = "split"
    <3>1. late = {} /\ d = [click |-> c.click, step |-> "split", heard |-> TRUE]
      BY <1>2, <1>7, <2>1 DEF Web!Call
    <3>2. p = [at |-> "split", click |-> c.click] /\ q.paid = 0
      BY <1>4, <1>6, <2>1
    <3>. QED
      BY <3>1, <3>2 DEF RequestOK, Moments
  <2>2. CASE next # "split"
    <3>1. /\ "heard" \in DOMAIN d /\ d.heard = FALSE /\ late # {}
          /\ d.click = c.click /\ d.step = c.step
      BY <1>7, <2>2
    <3>2. next # "pause" /\ q.paid = 0
      BY <1>2, <1>4, <3>1
    <3>3. p = Web!Idle /\ c.click # 0
      BY <1>1, <1>2, <2>2, <3>2, LenProperties DEF WebInv
    <3>. QED
      BY <1>1, <3>1, <3>2, <3>3 DEF RequestOK, Web!Idle
  <2>. QED
    BY <2>1, <2>2
<1>8. ASSUME NEW d \in rest, NEW e \in rest PROVE d = e
  BY <1>2, <1>8
<1>9. \/ p = Web!Idle
      \/ /\ q.paid = 0 /\ p = [at |-> p.at, click |-> c.click] /\ p.at \in Moments
         /\ p.at = "pause" => rest = {}
  <2>1. CASE ends
    BY <2>1
  <2>2. CASE next = "split"
    BY <1>4, <1>6, <2>2 DEF Moments
  <2>3. CASE next = "pause"
    BY <1>2, <1>4, <1>6, <2>3 DEF Moments
  <2>. QED
    BY <1>2, <2>1, <2>2, <2>3
<1>. HIDE DEF p, rest
<1>10. q.tab = clicks[c.click].tab
  BY <1>4
<1>11. page' = [page EXCEPT ![q.tab] = p]
  BY <1>3, <1>4
<1>12. clicks' = [clicks EXCEPT ![c.click] = q]
  BY <1>3
<1>13. requested' = (requested \ {c}) \cup rest
  BY <1>3
<1>14. \A d \in rest : d.click = c.click /\ RequestOK(d, q, p)
  BY <1>7
<1>15. \A d, e \in rest : d = e
  BY <1>8
<1>16. \/ ~ c.heard /\ p = page[q.tab]
       \/ c.heard /\ p = Web!Idle
       \/ /\ c.heard /\ q.paid = 0
          /\ p = [at |-> p.at, click |-> c.click] /\ p.at \in Moments
          /\ p.at = "pause" => rest = {}
  BY <1>9
<1>. QED
  BY <1>5, <1>10, <1>11, <1>12, <1>13, <1>14, <1>15, <1>16, RequestEnds, Zenon

\* The API answers a request, of which r has become: if the page does not hear it, r stays.
LEMMA AnswerKeepsInv ==
  ASSUME WebInv, NEW c \in requested, NEW answer, NEW r,
         ClickOK(r), r.tab = clicks[c.click].tab,
         answer = "success" /\ c.step # "split" /\ r.kind \in Web!Payments => r.paid = 1,
         r.paid = 1 => answer # "exact" /\ c.step # "split",
         Web!Answer(c, answer, r)
  PROVE  WebInv'
<1>1. CASE c.heard
  <2>1. Web!Hear(c, answer, r, {})
    BY <1>1 DEF Web!Answer
  <2>. DEFINE late == {}
  <2>2. Web!Hear(c, answer, r, late) /\ late = {}
    BY <2>1
  <2>3. /\ \A d \in late : /\ "heard" \in DOMAIN d /\ d.heard = FALSE
                          /\ d.click = c.click /\ d.step = c.step
        /\ \A d, e \in late : d = e
    OBVIOUS
  <2>. HIDE DEF late
  <2>. QED
    BY <1>1, <2>2, <2>3, HearKeepsInv
<1>2. CASE ~ c.heard
  <2>. DEFINE p == page[r.tab]
              rest == {}
  <2>1. /\ requested' = (requested \ {c}) \cup rest
        /\ clicks' = [clicks EXCEPT ![c.click] = r] /\ page' = page
    BY <1>2 DEF Web!Answer
  <2>2. page' = [page EXCEPT ![r.tab] = p]
    BY <2>1 DEF WebInv, ClickOK
  <2>3. p = page[r.tab] /\ rest = {}
    OBVIOUS
  <2>. HIDE DEF p, rest
  <2>4. /\ \A d \in rest : d.click = c.click /\ RequestOK(d, r, p)
        /\ \A d, e \in rest : d = e
    BY <2>3
  <2>5. ~ c.heard /\ p = page[r.tab]
    BY <1>2, <2>3
  <2>6. r.tab = clicks[c.click].tab /\ ClickOK(r)
    OBVIOUS
  <2>. QED
    BY <2>1, <2>2, <2>4, <2>5, <2>6, RequestEnds, Zenon
<1>. QED
  BY <1>1, <1>2

\* What is known of the click of a request.
LEMMA ClickOfRequest ==
  ASSUME WebInv, NEW c \in requested
  PROVE  /\ c.click \in DOMAIN clicks /\ ClickOK(clicks[c.click]) /\ clicks[c.click].paid = 0
         /\ "heard" \in DOMAIN c
BY DEF WebInv, RequestOK

\* An answer that leaves the record of the click as it is and confirms no payment.
LEMMA IdleAnswerKeepsInv ==
  ASSUME WebInv, NEW c \in requested, NEW answer,
         \/ answer # "success" \/ c.step = "split"
         \/ clicks[c.click].kind \notin Web!Payments,
         Web!Answer(c, answer, clicks[c.click])
  PROVE  WebInv'
<1>. DEFINE r == clicks[c.click]
<1>1. ClickOK(r) /\ r.tab = clicks[c.click].tab /\ r.paid = 0
  BY ClickOfRequest
<1>2. answer = "success" /\ c.step # "split" /\ r.kind \in Web!Payments => r.paid = 1
  OBVIOUS
<1>3. Web!Answer(c, answer, r)
  OBVIOUS
<1>. HIDE DEF r
<1>4. r.paid = 1 => answer # "exact" /\ c.step # "split"
  BY <1>1
<1>. QED
  BY <1>1, <1>2, <1>3, <1>4, AnswerKeepsInv

\* A payment is made once, for a request that had not paid.
LEMMA PayKeepsInv ==
  ASSUME WebInv, NEW c \in requested, NEW answer \in {"success", "error"}, Web!Pay(c, answer)
  PROVE  WebInv'
<1>. DEFINE r == [clicks[c.click] EXCEPT !.paid = @ + 1]
<1>1. c.step # "split" /\ Web!Answer(c, answer, r)
  BY DEF Web!Pay
<1>2. ClickOK(clicks[c.click]) /\ clicks[c.click].paid = 0
  BY ClickOfRequest
<1>3. /\ r.paid = 1 /\ r.tab = clicks[c.click].tab /\ r.kind = clicks[c.click].kind
      /\ r.said = clicks[c.click].said /\ DOMAIN r = DOMAIN clicks[c.click]
  BY <1>2 DEF ClickOK
<1>. HIDE DEF r
<1>4. ClickOK(r)
  BY <1>2, <1>3 DEF ClickOK
<1>5. answer # "exact"
  OBVIOUS
<1>. QED
  BY <1>1, <1>3, <1>4, <1>5, AnswerKeepsInv

LEMMA StoreProofKeepsInv ==
  ASSUME WebInv, NEW c \in requested, Web!StoreProof(c)
  PROVE  WebInv'
<1>. DEFINE r == [clicks[c.click] EXCEPT !.proved = TRUE]
            answer == IF counterparty THEN "success" ELSE "error"
<1>1. Web!Answer(c, answer, r) /\ clicks[c.click].kind \notin Web!Payments
  BY DEF Web!StoreProof, Web!Preparations, Web!Payments
<1>2. ClickOK(clicks[c.click]) /\ clicks[c.click].paid = 0
  BY ClickOfRequest
<1>3. /\ r.paid = 0 /\ r.tab = clicks[c.click].tab /\ r.kind = clicks[c.click].kind
      /\ r.said = clicks[c.click].said /\ DOMAIN r = DOMAIN clicks[c.click]
  BY <1>2 DEF ClickOK
<1>. HIDE DEF r, answer
<1>4. ClickOK(r)
  BY <1>2, <1>3 DEF ClickOK
<1>. QED
  BY <1>1, <1>3, <1>4, AnswerKeepsInv

LEMMA FinishKeepsInv ==
  ASSUME WebInv, NEW c \in requested, Web!Finish(c)
  PROVE  WebInv'
<1>1. ASSUME Web!Refuse(c) PROVE WebInv'
  BY <1>1, IdleAnswerKeepsInv DEF Web!Refuse
<1>2. ASSUME Web!NoExactNote(c) PROVE WebInv'
  <2>. DEFINE answer == IF clicks[c.click].kind = "withdraw" THEN "error" ELSE "exact"
  <2>1. Web!Answer(c, answer, clicks[c.click]) /\ answer # "success"
    BY <1>2 DEF Web!NoExactNote
  <2>. HIDE DEF answer
  <2>. QED
    BY <2>1, IdleAnswerKeepsInv
<1>3. ASSUME Web!Withdraw(c) \/ Web!Deposit(c) \/ Web!SetUp(c) PROVE WebInv'
  <2>1. /\ Web!Answer(c, "success", clicks[c.click])
        /\ clicks[c.click].kind \in {"withdraw", "deposit", "set_up"}
    BY <1>3 DEF Web!Withdraw, Web!Deposit, Web!SetUp
  <2>2. clicks[c.click].kind \notin Web!Payments
    BY <2>1 DEF Web!Payments
  <2>. QED
    BY <2>1, <2>2, IdleAnswerKeepsInv
<1>4. ASSUME NEW done, Web!Split(c, done) PROVE WebInv'
  <2>. DEFINE a == IF clicks[c.click].kind \in Web!Preparations THEN Web!AssetNeedForProof
                   ELSE clicks[c.click].asset
              steps == Len(Web!ToWithdraw(purse[a], clicks[c.click].amount)) + 1
              answer == IF done = steps THEN "success" ELSE "error"
  <2>1. c.step = "split" /\ Web!Answer(c, answer, clicks[c.click])
    BY <1>4 DEF Web!Split
  <2>. HIDE DEF answer
  <2>. QED
    BY <2>1, IdleAnswerKeepsInv
<1>. QED
  BY <1>1, <1>2, <1>3, <1>4, PayKeepsInv, StoreProofKeepsInv DEF Web!Finish

\* The proxy's answer says nothing of a payment, and the page ends with it.
LEMMA GiveUpKeepsInv ==
  ASSUME WebInv, NEW c \in requested, Web!GiveUp(c)
  PROVE  WebInv'
<1>. DEFINE r == clicks[c.click]
            answer == Web!AnswerOfProxy(r.kind, c.step)
            late == {[c EXCEPT !.heard = FALSE]}
<1>1. c.heard /\ Web!Hear(c, answer, r, late)
  BY DEF Web!GiveUp
<1>2. ClickOK(r) /\ r.paid = 0 /\ r.tab = clicks[c.click].tab
  BY ClickOfRequest
<1>3. /\ answer \in {"success", "error"}
      /\ answer = "success" => r.kind \in Web!Preparations /\ c.step # "split"
  BY DEF Web!AnswerOfProxy
<1>4. /\ \A d \in late : /\ "heard" \in DOMAIN d /\ d.heard = FALSE
                          /\ d.click = c.click /\ d.step = c.step
      /\ \A d, e \in late : d = e
  BY ClickOfRequest
<1>. HIDE DEF r, answer, late
<1>5. answer = "success" => r.kind \notin Web!Payments
  BY <1>3 DEF Web!Preparations, Web!Payments
<1>6. answer # "exact" /\ (c.step = "split" => answer # "success")
  BY <1>3
<1>7. answer = "success" /\ c.step # "split" /\ r.kind \in Web!Payments => r.paid = 1
  BY <1>5
<1>8. r.paid = 1 => answer # "exact" /\ c.step # "split"
  BY <1>2
<1>9. late # {} => r.paid = 0 /\ answer # "exact" /\ (c.step = "split" => answer # "success")
  BY <1>2, <1>6
<1>. QED
  BY <1>1, <1>2, <1>4, <1>7, <1>8, <1>9, HearKeepsInv

LEMMA ClickKeepsInv ==
  ASSUME WebInv, NEW t \in Tabs, NEW kind, NEW a, Web!Click(t, kind, a)
  PROVE  WebInv'
<1>. DEFINE k == Len(clicks')
            r == [tab |-> t, kind |-> kind, asset |-> a, amount |-> Web!AmountOf(kind, a),
                  said |-> "nothing", paid |-> 0, proved |-> FALSE]
            p == [at |-> "attempt", click |-> k]
            new == [click |-> k, step |-> "attempt", heard |-> TRUE]
<1>1. /\ page[t].at = "idle" /\ clicks' = Append(clicks, r)
      /\ page' = [page EXCEPT ![t] = p]
      /\ requested' = requested \cup {new}
  BY DEF Web!Click, Web!Call
<1>2. ClickOK(r) /\ r.tab = t /\ r.paid = 0
  BY DEF ClickOK, Web!Payments
<1>. HIDE DEF r
<1>3. /\ \E S : clicks' \in Seq(S)
      /\ k \notin DOMAIN clicks /\ k # 0
      /\ DOMAIN clicks' = DOMAIN clicks \cup {k}
      /\ clicks'[k] = r
      /\ \A j \in DOMAIN clicks : clicks'[j] = clicks[j]
  BY <1>1, ClickAdded
<1>. HIDE DEF k
<1>4. /\ page' = [u \in Tabs |-> page'[u]] /\ page'[t] = p
      /\ \A u \in Tabs : u # t => page'[u] = page[u]
  BY <1>1 DEF WebInv
<1>5. \A j \in DOMAIN clicks' : ClickOK(clicks'[j])
  BY <1>2, <1>3 DEF WebInv
<1>6. ASSUME NEW c \in requested
      PROVE  /\ c.click \in DOMAIN clicks /\ clicks'[c.click] = clicks[c.click]
             /\ RequestOK(c, clicks[c.click], page[clicks[c.click].tab])
             /\ c.click # k /\ clicks[c.click].tab \in Tabs
  BY <1>3 DEF WebInv, ClickOK
<1>7. ASSUME NEW c \in requested'
      PROVE  c.click \in DOMAIN clicks'
               /\ RequestOK(c, clicks'[c.click], page'[clicks'[c.click].tab])
  <2>1. CASE c = new
    BY <1>2, <1>3, <1>4, <2>1 DEF RequestOK, Moments
  <2>2. CASE c \in requested /\ clicks[c.click].tab # t
    BY <1>3, <1>4, <1>6, <2>2
  <2>3. CASE c \in requested /\ clicks[c.click].tab = t
    <3>1. c.step # "idle" /\ (c.heard => page[t] = [at |-> c.step, click |-> c.click])
      BY <1>6, <2>3 DEF RequestOK, Moments
    <3>2. ~ c.heard
      BY <1>1, <3>1
    <3>. QED
      BY <1>3, <1>4, <1>6, <2>3, <3>2 DEF RequestOK
  <2>. QED
    BY <1>1, <2>1, <2>2, <2>3
<1>8. \A c, d \in requested' : c.click = d.click => c = d
  <2>1. new.click = k
    OBVIOUS
  <2>. HIDE DEF new
  <2>. QED
    BY <1>1, <1>6, <2>1 DEF WebInv
<1>9. ASSUME NEW u \in Tabs PROVE PageOK(u)'
  <2>1. CASE u = t
    BY <1>2, <1>3, <1>4, <2>1 DEF PageOK, Moments
  <2>2. CASE u # t
    <3>1. PageOK(u) /\ page'[u] = page[u]
      BY <1>4, <2>2 DEF WebInv
    <3>2. page[u] # Web!Idle => page[u].click \in DOMAIN clicks
      BY <3>1 DEF PageOK
    <3>. QED
      BY <1>1, <1>3, <3>1, <3>2 DEF PageOK
  <2>. QED
    BY <2>1, <2>2
<1>. QED
  BY <1>3, <1>4, <1>5, <1>7, <1>8, <1>9 DEF WebInv

\* After the pause there is one request again, of a click that has not paid.
LEMMA PauseEndsKeepsInv ==
  ASSUME WebInv, NEW t \in Tabs, Web!PauseEnds(t)
  PROVE  WebInv'
<1>. DEFINE k == page[t].click
            new == [click |-> k, step |-> "again", heard |-> TRUE]
<1>1. /\ page[t].at = "pause" /\ clicks' = clicks
      /\ page' = [page EXCEPT ![t].at = "again"]
      /\ requested' = requested \cup {new}
  BY DEF Web!PauseEnds, Web!Call
<1>2. /\ page[t] = [at |-> "pause", click |-> k]
      /\ k \in DOMAIN clicks /\ clicks[k].tab = t /\ clicks[k].paid = 0
      /\ \A c \in requested : c.click # k
  BY <1>1 DEF WebInv, PageOK, Web!Idle
<1>3. /\ page' = [u \in Tabs |-> page'[u]] /\ page'[t] = [at |-> "again", click |-> k]
      /\ \A u \in Tabs : u # t => page'[u] = page[u]
  BY <1>1, <1>2 DEF WebInv
<1>. HIDE DEF k
<1>4. ASSUME NEW c \in requested'
      PROVE  c.click \in DOMAIN clicks'
               /\ RequestOK(c, clicks'[c.click], page'[clicks'[c.click].tab])
  <2>1. CASE c = new
    BY <1>1, <1>2, <1>3, <2>1 DEF RequestOK, Moments
  <2>2. CASE c \in requested
    <3>1. /\ c.click \in DOMAIN clicks /\ c.click # k
          /\ RequestOK(c, clicks[c.click], page[clicks[c.click].tab])
          /\ clicks[c.click].tab \in Tabs
      BY <1>2, <2>2 DEF WebInv, ClickOK
    <3>2. CASE clicks[c.click].tab # t
      BY <1>1, <1>3, <3>1, <3>2
    <3>3. CASE clicks[c.click].tab = t
      <4>1. ~ c.heard
        BY <1>2, <3>1, <3>3 DEF RequestOK
      <4>. QED
        BY <1>1, <1>3, <3>1, <3>3, <4>1 DEF RequestOK
    <3>. QED
      BY <3>2, <3>3
  <2>. QED
    BY <1>1, <2>1, <2>2
<1>5. \A c, d \in requested' : c.click = d.click => c = d
  <2>1. new.click = k
    OBVIOUS
  <2>. HIDE DEF new
  <2>. QED
    BY <1>1, <1>2, <2>1 DEF WebInv
<1>6. ASSUME NEW u \in Tabs PROVE PageOK(u)'
  <2>1. CASE u = t
    BY <1>1, <1>2, <1>3, <2>1 DEF PageOK, Moments
  <2>2. CASE u # t
    <3>1. PageOK(u) /\ page'[u] = page[u]
      BY <1>3, <2>2 DEF WebInv
    <3>2. page[u] # Web!Idle => page[u].click # k
      BY <1>2, <2>2, <3>1 DEF PageOK
    <3>. QED
      BY <1>1, <3>1, <3>2 DEF PageOK
  <2>. QED
    BY <2>1, <2>2
<1>. QED
  BY <1>1, <1>3, <1>4, <1>5, <1>6 DEF WebInv

LEMMA WebInitially == Web!Init => WebInv
<1>. SUFFICES ASSUME Web!Init PROVE WebInv
  OBVIOUS
<1>1. page = [t \in Tabs |-> Web!Idle] /\ requested = {} /\ clicks = <<>>
  BY DEF Web!Init
<1>2. clicks \in Seq({}) /\ DOMAIN clicks = {}
  BY <1>1
<1>. QED
  BY <1>1, <1>2 DEF WebInv, PageOK

LEMMA WebStep ==
  ASSUME WebInv, [Web!Next]_(Web!vars) PROVE WebInv'
<1>1. ASSUME UNCHANGED <<page, requested, clicks>> PROVE WebInv'
  BY <1>1 DEF WebInv, PageOK
<1>2. ASSUME Web!CounterpartySubmits \/ UNCHANGED Web!vars PROVE WebInv'
  BY <1>1, <1>2 DEF Web!CounterpartySubmits, Web!vars
<1>3. ASSUME Web!Next PROVE WebInv'
  BY <1>2, <1>3, ClickKeepsInv, PauseEndsKeepsInv, GiveUpKeepsInv, FinishKeepsInv DEF Web!Next
<1>. QED
  BY <1>2, <1>3

-----------------------------------------------------------------------------
(* The whole                                                                *)

\* Whichever component moves, to each of them it is a step of its own or none.
LEMMA EachTakesItsStep ==
  ASSUME [Next]_vars
  PROVE  /\ [Tree!Next]_(Tree!vars)
         /\ [Client!Next]_(Client!vars)
         /\ [Market!Next]_(Market!vars)
         /\ [Index!Next]_(Index!vars)
         /\ [Web!Next]_(Web!vars)
         /\ [Form!Next]_(Form!vars)
BY DEF Next, vars, treeVars, clientVars, marketVars, indexVars, webVars, formVars,
       Tree!vars, Client!vars, Market!vars, Index!vars, Web!vars, Form!vars

\* The contract and the API, which leave out what is empty, compute the root of the whole
\* tree, at any depth and for any number of leaves (compute_root_from_commitments).
THEOREM RootsAreOfFullTrees == Spec => []RootIsOfFullTree
<1>. DEFINE I == TreeSide!Inv
<1>1. Init => I
  BY ServicesAssumption, SameTree, TreeSide!InitInv DEF Init
<1>2. I /\ [Next]_vars => I'
  BY ServicesAssumption, SameTree, EachTakesItsStep, TreeSide!NextKeepsInv
<1>3. I => RootIsOfFullTree
  BY ServicesAssumption, SameTree, TreeSide!TreeIsRight DEF RootIsOfFullTree
<1>. HIDE DEF I
<1>. QED
  BY <1>1, <1>2, <1>3, PTL DEF Spec

\* An owner can always prove a note that is in the tree, and no honest path proves one that
\* is not, at any depth (computeRoot and generateProof of the API, merkleProof.circom).
THEOREM PathsAlwaysProve == Spec => []PathsProve
<1>. DEFINE I == TreeSide!Inv
<1>1. Init => I
  BY ServicesAssumption, SameTree, TreeSide!InitInv DEF Init
<1>2. I /\ [Next]_vars => I'
  BY ServicesAssumption, SameTree, EachTakesItsStep, TreeSide!NextKeepsInv
<1>3. I => PathsProve
  BY ServicesAssumption, SameTree, TreeSide!PathsAreRight DEF PathsProve
<1>. HIDE DEF I
<1>. QED
  BY <1>1, <1>2, <1>3, PTL DEF Spec

\* The pool never comes back to a root it had, and never takes more leaves than the tree
\* has places for, only because an append that leaves the root as it was is refused.
THEOREM RootsStayDifferent == Spec => []RootsDiffer
<1>. DEFINE I == TreeSide!Inv
<1>1. Init => I
  BY ServicesAssumption, SameTree, TreeSide!InitInv DEF Init
<1>2. I /\ [Next]_vars => I'
  BY ServicesAssumption, SameTree, EachTakesItsStep, TreeSide!NextKeepsInv
<1>3. I => RootsDiffer
  BY ServicesAssumption, SameTree, TreeSide!RootsAreDifferent DEF RootsDiffer
<1>. HIDE DEF I
<1>. QED
  BY <1>1, <1>2, <1>3, PTL DEF Spec

\* A caller is told the truth about his transaction, although others of the same account
\* are on the way and waitForTransaction gives up before the ledger does.
THEOREM CallersKnow == Spec => []AnswersAreTrue
<1>1. Init => ClientInv
  BY ServicesAssumption, ClientInitially DEF Init
<1>2. ClientInv /\ [Next]_vars => ClientInv'
  BY ServicesAssumption, EachTakesItsStep, ClientStep
<1>3. ClientInv => AnswersAreTrue
  BY CallersAreToldTheTruth DEF AnswersAreTrue
<1>. QED
  BY <1>1, <1>2, <1>3, PTL DEF Spec

\* A pool that reads healthy has every leaf it counts in the cache, although syncs overlap,
\* answers come late and the process may stop anywhere (syncAllOnce, syncPool).
THEOREM HealthyPoolsAreCached == Spec => []HealthyMeansCached
<1>1. Init => IndexInv
  BY ServicesAssumption, IndexInitially DEF Init
<1>2. IndexInv /\ [Next]_vars => IndexInv'
  BY ServicesAssumption, EachTakesItsStep, IndexStep
<1>3. IndexInv => HealthyMeansCached
  BY HealthyPools DEF HealthyMeansCached
<1>. QED
  BY <1>1, <1>2, <1>3, PTL DEF Spec

\* A seller's page, the listings on it and the market's page count the same swaps, whatever
\* is loaded while it is saved (getWorkspace, getMarketHighlights, getOfferMetrics).
THEOREM BoardsAgree == Spec => []BoardsCountTheSame
<1>1. Init => BoardInv
  BY BoardInitially DEF Init
<1>2. BoardInv /\ [Next]_vars => BoardInv'
  BY EachTakesItsStep, BoardStep
<1>4. BoardInv => BoardsCountTheSame
  BY ServicesAssumption, BoardsAgreeNow DEF BoardsCountTheSame
<1>. QED
  BY <1>1, <1>2, <1>4, PTL DEF Spec

\* What a form shows beside its fields is the preview of what is in them, although answers
\* may come in another order than they were asked for.
THEOREM PreviewsFit == Spec => []PreviewFitsInput
<1>1. Init => FormInv
  BY FormInitially DEF Init
<1>2. FormInv /\ [Next]_vars => FormInv'
  BY EachTakesItsStep, FormStep
<1>3. FormInv => PreviewFitsInput
  BY DEF FormInv, PreviewFitsInput
<1>. QED
  BY <1>1, <1>2, <1>3, PTL DEF Spec

\* A listing that came down goes up again only because its seller, with the paused listing
\* before him, asked for that: a save writes the paths the patch changes, not the copy the
\* handler loaded (update, deactivateOffer).
THEOREM RelistingStaysDeliberate == Spec => RelistingIsDeliberate
<1>. DEFINE Deliberate ==
       \A o \in DOMAIN offers :
         ~ offers[o].active /\ offers'[o].active =>
           \E s \in Slots : /\ jobs[s].op = "update" /\ jobs[s].id = o /\ jobs'[s] = Market!Idle
                            /\ ~ jobs[s].loaded.active /\ jobs[s].patch.active
<1>1. Init => MarketInv
  BY DEF Init, Market!Init, MarketInv
<1>2. MarketInv /\ [Next]_vars => MarketInv'
  BY EachTakesItsStep, MarketStep DEF MarketStepOK
<1>3. MarketInv /\ [Next]_vars => [Deliberate]_(Market!vars)
  BY EachTakesItsStep, MarketStep DEF MarketStepOK, Relisted
<1>4. RelistingIsDeliberate <=> [][Deliberate]_(Market!vars)
  BY DEF RelistingIsDeliberate, Market!RelistingIsDeliberate
<1>. HIDE DEF Deliberate
<1>. QED
  BY <1>1, <1>2, <1>3, <1>4, PTL DEF Spec

\* A click pays at most once, although the page tries again by itself after a split and the
\* proxy gives up on requests the API works on; and what the page calls paid was paid (the
\* buttons of the send page, the dashboard and the swap desk).
THEOREM ClicksNeverPayTwice == Spec => []ClicksPayOnce
<1>1. Init => WebInv
  BY WebInitially DEF Init
<1>2. WebInv /\ [Next]_vars => WebInv'
  BY EachTakesItsStep, WebStep
<1>3. WebInv => ClicksPayOnce
  BY DEF WebInv, ClickOK, ClicksPayOnce, Web!ClicksPayOnce
<1>. QED
  BY <1>1, <1>2, <1>3, PTL DEF Spec
=============================================================================
