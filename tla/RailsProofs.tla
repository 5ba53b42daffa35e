------------------------------ MODULE RailsProofs ------------------------------
(***************************************************************************)
(* Theorems about Rails: what an error and a result of a provider's client *)
(* mean, that the verdicts of watchers are final, and that a code pays one *)
(* order at most, as an implementation of one-time codes.                  *)
(***************************************************************************)
EXTENDS Rails, SequenceTheorems, TLAPS

-------------------------------------------------------------------------------
(* The inductive invariant of the clients and the watchers *)

\* Whatever end s is, t is the same end.
Kept(s, t) == \A v \in Canonical : Ended(s, v) => Ended(t, v)

InvoiceStates == {"none", "PENDING", "PAID", "EXPIRED"}

\* Invoices are not paid out, held or cancelled.
StateInv == \A i \in Invoices : state[i] \in InvoiceStates

\* A reply under way is an answer about the order of then, or a refusal.
ReplyFits(k, s) ==
    IF k.did
    THEN /\ k.reply \in Answers(k.reply.state)
         /\ k.op \in StatusCalls =>
               /\ Kept(k.before, k.reply.state) /\ Kept(k.reply.state, s)
               /\ k.order \in Invoices => k.reply.state \in InvoiceStates
    ELSE k.reply \in Refusals(k.op)

\* What is reported to the caller of k is so, of an order in the state s.
ReportFits(k, s) ==
    k.op \in StatusCalls /\ k.value # "" =>
        /\ k.value \notin {"pending", "other"} => Ended(s, k.value)
        /\ \A v \in Canonical : Ended(k.before, v) => k.value = v

\* All that is known of a call whose order is in the state s.
CallFits(k, s) ==
    /\ <<k.order, k.op>> \in Subjects
    /\ k.outcome = "sent" /\ k.reply = None => ~k.did /\ Kept(k.before, s)
    /\ k.outcome = "sent" /\ k.reply # None => ReplyFits(k, s)
    /\ k.outcome \in Definite => ~k.did
    /\ k.outcome = "returned" /\ Promises(k.value) => k.did
    /\ k.outcome # "returned" => k.value = ""
    /\ k.outcome # "sent" => ReportFits(k, s)

CallInv ==
    \A c \in Callers : call[c] # None => CallFits(call[c], state[call[c].order])

WatchFits(w) ==
    /\ stage[w] # "idle" => watch[w] \in Invoices
    /\ stage[w] = "listening" =>
          /\ call[w] = None
          /\ \A n \in 1..Len(frames[w]) : Kept(frames[w][n], state[watch[w]])
    /\ verdict[w] # None =>
          /\ stage[w] # "idle"
          /\ InvoiceStatus(verdict[w]) \in Canonical
          /\ Ended(state[watch[w]], InvoiceStatus(verdict[w]))

WatchInv == \A w \in Watchers : WatchFits(w)

IInv ==
    /\ ClientsTypeOK
    /\ WatchTypeOK
    /\ StateInv
    /\ CallInv
    /\ WatchInv

-------------------------------------------------------------------------------
(* States and ends *)

\* Ends are inherited.
LEMMA KeptTwice ==
    ASSUME NEW s, NEW t, NEW u, Kept(s, t), Kept(t, u)
    PROVE  Kept(s, u)
BY DEF Kept

LEMMA KeptItself == \A s : Kept(s, s)
BY DEF Kept

\* What a provider does when it is asked undoes no end.
LEMMA ServiceKeeps ==
    ASSUME NEW o \in Orders, NEW op, <<o, op>> \in Subjects, Ready(o, op),
           state[o] \in OrderStates, NEW s \in Effects(o, op)
    PROVE  /\ s \in OrderStates
           /\ Kept(state[o], s)
           /\ o \in Invoices /\ state[o] \in InvoiceStates => s \in InvoiceStates
<1>1. s \in OrderStates
  BY DEF Effects, OrderStates
<1>2. Kept(state[o], s)
  BY DEF Kept, Ended, Ready, Effects, Canonical, OrderStates
<1>3. ASSUME o \in Invoices, state[o] \in InvoiceStates
      PROVE  s \in InvoiceStates
  <2>1. op \in {"create_invoice", "invoice_status", "cancel_invoice"}
    BY <1>3, ClientsAssumption DEF Subjects
  <2>. QED  BY <1>3, <2>1 DEF Effects, InvoiceStates
<1>. QED  BY <1>1, <1>2, <1>3

\* Nor does what it does by itself.
LEMMA ResolveKeeps ==
    ASSUME NEW o \in Orders, NEW s \in OrderStates, <<state[o], s>> \in Moves,
           o \in Invoices => s \notin {"COMPLETED", "SETTLED"}
    PROVE  /\ Kept(state[o], s)
           /\ o \in Invoices /\ state[o] \in InvoiceStates => s \in InvoiceStates
BY DEF Kept, Ended, Moves, Canonical, InvoiceStates

\* What fits a call goes on to fit while ends are kept.
LEMMA FitsOn ==
    ASSUME NEW k, NEW s, NEW t, CallFits(k, s), Kept(s, t)
    PROVE  CallFits(k, t)
<1>1. k.outcome = "sent" /\ k.reply = None => Kept(k.before, t)
  BY KeptTwice DEF CallFits
<1>2. ASSUME k.outcome = "sent", k.reply # None
      PROVE  ReplyFits(k, t)
  <2>1. ReplyFits(k, s)
    BY <1>2 DEF CallFits
  <2>2. Kept(k.reply.state, s) => Kept(k.reply.state, t)
    BY KeptTwice
  <2>. QED  BY <2>1, <2>2 DEF ReplyFits
<1>3. ASSUME k.outcome # "sent"
      PROVE  ReportFits(k, t)
  BY <1>3 DEF CallFits, ReportFits, Kept, Ended, Canonical
<1>. QED  BY <1>1, <1>2, <1>3 DEF CallFits

-------------------------------------------------------------------------------
(* Replies and what becomes of them *)

\* An error is not a success.
LEMMA ErrorsAreNoSuccess == HttpErrors \cap 200..299 = {}
BY ClientsAssumption

\* An answer never turns into an error that promises that nothing was done.
LEMMA AnswersAreNotDefinite ==
    ASSUME NEW op, NEW s, NEW r \in Answers(s)
    PROVE  Outcome(op, r) \in {"returned", "api"}
<1>1. CASE r.code = 200
  <2>1. r.body \in {"data", "empty", "junk"}
    BY <1>1, ClientsAssumption DEF Answers
  <2>. QED  BY <1>1, <2>1 DEF Outcome, Parse, Execute, MutationErrors
<1>2. CASE r.code # 200
  <2>1. r.code \in HttpErrors \ {401, 403, 429}
    BY <1>2 DEF Answers
  <2>2. {r.code} \cap 200..299 = {}
    BY <2>1, ErrorsAreNoSuccess
  <2>3. r.code \notin 200..299
    BY <2>2
  <2>4. r.code \notin {401, 403, 429}
    BY <2>1
  <2>. QED  BY <2>3, <2>4 DEF Outcome, Parse, Execute, MutationErrors
<1>. QED  BY <1>1, <1>2

\* A refusal never turns into a result that promises anything, nor into a status.
LEMMA RefusalsPromiseNothing ==
    ASSUME NEW op \in BlinkCalls \cup BitLiberaCalls, NEW r \in Refusals(op),
           Outcome(op, r) = "returned"
    PROVE  ~Promises(Value(op, r)) /\ (op \in StatusCalls => Value(op, r) = "")
<1>1. r.code = 200
  <2>1. ASSUME r.code # 200  PROVE FALSE
    <3>1. r.code \in HttpErrors
      BY <2>1 DEF Refusals
    <3>2. {r.code} \cap 200..299 = {}
      BY <3>1, ErrorsAreNoSuccess
    <3>3. r.code \notin 200..299
      BY <3>2
    <3>. QED  BY <3>3 DEF Outcome, Parse, Execute
  <2>. QED  BY <2>1
<1>2. r.body \in RefusalBodies(op) \/ (r.body = "data" /\ r.state \in RefusalResults(op))
  BY <1>1, ClientsAssumption DEF Refusals
<1>3. CASE r.body \in RefusalBodies(op)
  <2>1. r.body = "empty"
    BY <1>1, <1>3 DEF RefusalBodies, Outcome, Parse, Execute, MutationErrors, BlinkCalls, BitLiberaCalls
  <2>. QED  BY <2>1 DEF Value, Lacks, Promises
<1>4. CASE r.body = "data" /\ r.state \in RefusalResults(op)
  <2>1. \/ op = "pay_invoice" /\ r.state \in {"FAILURE", "ALREADY_PAID"}
        \/ op = "cancel_invoice" /\ r.state = "FAILURE"
    BY <1>4 DEF RefusalResults
  <2>2. Value(op, r) \in {"", "failure", "already_paid"} /\ op \notin StatusCalls
    BY <1>4, <2>1 DEF Value, InvoiceStatus, Lacks, StatusCalls, BitLiberaCalls
  <2>. QED  BY <2>2 DEF Promises
<1>. QED  BY <1>2, <1>3, <1>4

\* Of an order that is as the reply says, or has come to the end it says, the
\* caller is told the truth.
LEMMA StatusesAreTrue ==
    ASSUME NEW k, NEW s, k.op \in StatusCalls, <<k.order, k.op>> \in Subjects,
           NEW r, k.order \in Invoices => r.state \in InvoiceStates,
           Kept(k.before, r.state), Kept(r.state, s), Value(k.op, r) # ""
    PROVE  /\ Value(k.op, r) \notin {"pending", "other"} => Ended(s, Value(k.op, r))
           /\ \A v \in Canonical : Ended(k.before, v) => Value(k.op, r) = v
<1>1. CASE k.op = "invoice_status"
  <2>1. k.order \in Invoices
    BY <1>1, ClientsAssumption DEF Subjects
  <2>2. Value(k.op, r) = InvoiceStatus(r.state)
    BY <1>1 DEF Value
  <2>. QED
    BY <2>1, <2>2 DEF InvoiceStatus, InvoiceStates, Kept, Ended, Canonical
<1>2. CASE k.op = "order_status"
  <2>1. Value(k.op, r) = OrderStatus(r.state)
    BY <1>2 DEF Value
  <2>. QED
    BY <2>1 DEF OrderStatus, Kept, Ended, Canonical
<1>. QED  BY <1>1, <1>2 DEF StatusCalls

-------------------------------------------------------------------------------
(* What the steps have in common *)

\* Orders keep their ends, and the calls that changed fit.
CallsMove ==
    /\ configured' = configured
    /\ state' \in [Orders -> OrderStates]
    /\ call' \in [Callers -> Call \cup {None}]
    /\ adrift' \subseteq Subjects
    /\ calls' \in 0..MaxCalls
    /\ \A o \in Orders : Kept(state[o], state'[o])
    /\ StateInv'
    /\ \A c \in Callers : \/ call'[c] = call[c]
                          \/ call'[c] # None => CallFits(call'[c], state'[call'[c].order])

\* Whoever listens calls for nothing.
WatchersCall == \A w \in Watchers : call'[w] = call[w] \/ ~Listens(w)

LEMMA CallsGoOn ==
    ASSUME IInv, CallsMove
    PROVE  ClientsTypeOK' /\ StateInv' /\ CallInv'
<1>1. ClientsTypeOK'
  BY DEF IInv, ClientsTypeOK, CallsMove
<1>2. ASSUME NEW c \in Callers, call'[c] # None
      PROVE  CallFits(call'[c], state'[call'[c].order])
  <2>1. CASE call'[c] = call[c]
    <3>1. call[c] \in Call
      BY <1>2, <2>1 DEF IInv, ClientsTypeOK
    <3>2. call[c].order \in Orders
      BY <3>1 DEF Call
    <3>3. CallFits(call[c], state[call[c].order])
      BY <1>2, <2>1 DEF IInv, CallInv
    <3>4. Kept(state[call[c].order], state'[call[c].order])
      BY <3>2 DEF CallsMove
    <3>. QED  BY <2>1, <3>3, <3>4, FitsOn
  <2>2. CASE call'[c] # call[c]
    BY <1>2, <2>2 DEF CallsMove
  <2>. QED  BY <2>1, <2>2
<1>3. CallInv'
  BY <1>2 DEF CallInv
<1>. QED  BY <1>1, <1>3 DEF CallsMove

\* While nothing is announced.
LEMMA WatchersGoOn ==
    ASSUME IInv, CallsMove, WatchersCall, UNCHANGED watchVars
    PROVE  WatchTypeOK' /\ WatchInv'
<1>1. WatchTypeOK'
  BY DEF IInv, WatchTypeOK, watchVars
<1>2. ASSUME NEW w \in Watchers
      PROVE  WatchFits(w)'
  <2>1. WatchFits(w)
    BY DEF IInv, WatchInv
  <2>2. UNCHANGED <<stage[w], watch[w], frames[w], verdict[w]>>
    BY DEF watchVars
  <2>3. stage[w] # "idle" => watch[w] \in Orders
    BY <2>1 DEF WatchFits, Orders
  <2>4. stage[w] # "idle" => Kept(state[watch[w]], state'[watch[w]])
    BY <2>3 DEF CallsMove
  <2>5. ASSUME stage[w] = "listening"
        PROVE  /\ call'[w] = None
               /\ \A n \in 1..Len(frames[w]) : Kept(frames[w][n], state'[watch[w]])
    <3>1. call'[w] = call[w]
      BY <2>5 DEF WatchersCall, Listens
    <3>. QED  BY <2>1, <2>4, <2>5, <3>1, KeptTwice DEF WatchFits
  <2>6. ASSUME verdict[w] # None
        PROVE  Ended(state'[watch[w]], InvoiceStatus(verdict[w]))
    BY <2>1, <2>4, <2>6 DEF WatchFits, Kept
  <2>. QED  BY <2>1, <2>2, <2>5, <2>6 DEF WatchFits
<1>. QED  BY <1>1, <1>2 DEF WatchInv

\* While a change of an order is announced.
LEMMA WatchersHear ==
    ASSUME IInv, CallsMove, WatchersCall, NEW o \in Orders, NEW s \in OrderStates,
           state' = [state EXCEPT ![o] = s], Announce(o, s)
    PROVE  WatchTypeOK' /\ WatchInv'
<1>. DEFINE told(w) == Listens(w) /\ watch[w] = o /\ s # state[o]
<1>1. \A w \in Watchers : frames'[w] = IF told(w) THEN Append(frames[w], s) ELSE frames[w]
  BY DEF Announce
<1>2. \A w \in Watchers : frames[w] \in Seq(Frames)
  BY DEF IInv, WatchTypeOK
<1>3. frames' \in [Watchers -> Seq(Frames)]
  <2>1. s \in Frames
    BY DEF Frames
  <2>2. \A w \in Watchers : Append(frames[w], s) \in Seq(Frames)
    BY <1>2, <2>1
  <2>. QED  BY <1>2, <2>2 DEF Announce
<1>4. WatchTypeOK'
  BY <1>3 DEF IInv, WatchTypeOK, Announce
<1>5. ASSUME NEW w \in Watchers
      PROVE  WatchFits(w)'
  <2>1. WatchFits(w)
    BY DEF IInv, WatchInv
  <2>2. UNCHANGED <<stage[w], watch[w], verdict[w]>>
    BY DEF Announce
  <2>3. stage[w] # "idle" => watch[w] \in Orders
    BY <2>1 DEF WatchFits, Orders
  <2>4. stage[w] # "idle" => Kept(state[watch[w]], state'[watch[w]])
    BY <2>3 DEF CallsMove
  <2>5. ASSUME stage[w] = "listening"
        PROVE  /\ call'[w] = None
               /\ \A n \in 1..Len(frames'[w]) : Kept(frames'[w][n], state'[watch[w]])
    <3>1. call'[w] = None
      BY <2>1, <2>5 DEF WatchersCall, Listens, WatchFits
    <3>2. \A n \in 1..Len(frames[w]) : Kept(frames[w][n], state'[watch[w]])
      BY <2>1, <2>4, <2>5, KeptTwice DEF WatchFits
    <3>3. CASE told(w)
      <4>1. state'[watch[w]] = s
        BY <3>3 DEF IInv, ClientsTypeOK
      <4>2. ASSUME NEW n \in 1..Len(frames'[w])
            PROVE  Kept(frames'[w][n], state'[watch[w]])
        <5>1. frames'[w] = Append(frames[w], s)
          BY <1>1, <3>3
        <5>2. \/ n \in 1..Len(frames[w]) /\ frames'[w][n] = frames[w][n]
              \/ frames'[w][n] = s
          BY <1>2, <4>2, <5>1
        <5>. QED  BY <3>2, <4>1, <5>2, KeptItself
      <4>. QED  BY <3>1, <4>2
    <3>4. CASE ~told(w)
      BY <1>1, <3>1, <3>2, <3>4
    <3>. QED  BY <3>3, <3>4
  <2>6. ASSUME verdict[w] # None
        PROVE  Ended(state'[watch[w]], InvoiceStatus(verdict[w]))
    BY <2>1, <2>4, <2>6 DEF WatchFits, Kept
  <2>. QED  BY <2>1, <2>2, <2>5, <2>6 DEF WatchFits
<1>. QED  BY <1>4, <1>5 DEF WatchInv

-------------------------------------------------------------------------------
(* Calls *)

LEMMA InitIInv ==
    ASSUME Init
    PROVE  IInv
<1>1. ClientsTypeOK
  BY ClientsAssumption DEF Init, ClientsInit, ClientsTypeOK, OrderStates
<1>2. WatchTypeOK
  BY DEF Init, WatchInit, WatchTypeOK, Stages, StopSets
<1>3. StateInv /\ CallInv
  BY DEF Init, ClientsInit, StateInv, InvoiceStates, CallInv, Orders
<1>4. WatchInv
  BY DEF Init, WatchInit, WatchInv, WatchFits
<1>. QED  BY <1>1, <1>2, <1>3, <1>4 DEF IInv

\* A call of c becomes k, and nothing else happens to the orders.
LEMMA OneCall ==
    ASSUME IInv, NEW c \in Callers, NEW k \in Call, call' = [call EXCEPT ![c] = k],
           UNCHANGED <<configured, state>>, adrift' \subseteq Subjects, calls' \in 0..MaxCalls,
           CallFits(k, state[k.order])
    PROVE  CallsMove
<1>1. \A o \in Orders : Kept(state[o], state'[o])
  BY KeptItself
<1>2. StateInv'
  BY DEF IInv, StateInv
<1>3. call' \in [Callers -> Call \cup {None}]
  BY DEF IInv, ClientsTypeOK
<1>4. state' \in [Orders -> OrderStates]
  BY DEF IInv, ClientsTypeOK
<1>5. \A d \in Callers : call'[d] = call[d] \/ call'[d] = k
  BY DEF IInv, ClientsTypeOK
<1>. QED  BY <1>1, <1>2, <1>3, <1>4, <1>5 DEF CallsMove

\* A new call fits, and one that is not sent even more.
LEMMA BeginFits ==
    ASSUME IInv, NEW c \in Callers, NEW o, NEW op, <<o, op>> \in Subjects, Begin(c, op, o),
           calls' \in 0..MaxCalls
    PROVE  /\ CallsMove
           /\ call' = [call EXCEPT ![c] = call'[c]]
           /\ call'[c] \in Call /\ call'[c].op = op /\ call'[c].order = o
<1>. DEFINE sent == IF Provider(op) \in configured THEN "sent" ELSE "config"
            k == [op |-> op, order |-> o, before |-> IF op \in StatusCalls THEN state[o] ELSE "none",
                  did |-> FALSE, reply |-> None, outcome |-> sent, value |-> ""]
<1>1. call' = [call EXCEPT ![c] = k]
  BY DEF Begin, Ask
<1>2. o \in Orders /\ op \in BlinkCalls \cup BitLiberaCalls
  BY DEF Subjects, Orders, BlinkCalls, BitLiberaCalls
<1>3. state[o] \in OrderStates /\ "none" \in OrderStates
  BY <1>2 DEF IInv, ClientsTypeOK, OrderStates
<1>4. k \in Call
  BY <1>2, <1>3 DEF Call, Values, Definite
<1>5. CallFits(k, state[k.order])
  BY <1>4, KeptItself DEF CallFits, ReportFits, Definite, Kept, Ended, Canonical
<1>6. k.op = op /\ k.order = o
  OBVIOUS
<1>. HIDE DEF k
<1>7. CallsMove
  BY <1>1, <1>4, <1>5, OneCall DEF Begin, IInv, ClientsTypeOK
<1>8. call'[c] = k
  BY <1>1 DEF IInv, ClientsTypeOK
<1>. QED  BY <1>1, <1>4, <1>6, <1>7, <1>8

\* What is known of a call that waits.
LEMMA BusyCall ==
    ASSUME IInv, NEW c \in Callers, Busy(c)
    PROVE  /\ call[c] \in Call
           /\ call[c].order \in Orders
           /\ call[c].op \in BlinkCalls \cup BitLiberaCalls
           /\ state[call[c].order] \in OrderStates
           /\ <<call[c].order, call[c].op>> \in Subjects
           /\ CallFits(call[c], state[call[c].order])
<1>1. call[c] \in Call
  BY DEF IInv, ClientsTypeOK, Busy
<1>2. CallFits(call[c], state[call[c].order])
  BY DEF IInv, CallInv, Busy
<1>. QED  BY <1>1, <1>2 DEF Call, CallFits, IInv, ClientsTypeOK

LEMMA RefuseMoves ==
    ASSUME IInv, NEW c \in Callers, Refuse(c)
    PROVE  /\ CallsMove
           /\ \E k \in Call : call' = [call EXCEPT ![c] = k] /\ k.op = call[c].op /\ k.order = call[c].order
<1>1. Busy(c) /\ call[c].reply = None
  BY DEF Refuse, Unanswered
<1>2. PICK r \in Refusals(call[c].op) : call' = [call EXCEPT ![c].reply = r]
  BY DEF Refuse
<1>. DEFINE k == [call[c] EXCEPT !.reply = r]
<1>3. call' = [call EXCEPT ![c] = k]
  BY <1>2 DEF IInv, ClientsTypeOK
<1>4. r \in Reply
  BY DEF Refusals, RefusalBodies, RefusalResults, Reply, OrderStates, SendResults
<1>5. k \in Call
  BY <1>1, <1>4, BusyCall DEF Call
<1>6. /\ k.op = call[c].op /\ k.order = call[c].order /\ k.did = call[c].did
      /\ k.outcome = "sent" /\ k.reply = r /\ k.value = call[c].value
  BY <1>1, BusyCall DEF Call, Busy
<1>7. ~call[c].did /\ call[c].value = ""
  BY <1>1, BusyCall DEF CallFits, Busy
<1>. HIDE DEF k
<1>8. CallFits(k, state[k.order])
  <2>1. r # None
    BY <1>4, ClientsAssumption
  <2>. QED
    BY <1>1, <1>6, <1>7, <2>1, BusyCall DEF CallFits, ReplyFits, Definite
<1>9. CallsMove
  BY <1>3, <1>5, <1>8, OneCall DEF Refuse, IInv, ClientsTypeOK
<1>. QED  BY <1>3, <1>5, <1>6, <1>9

LEMMA GiveUpMoves ==
    ASSUME IInv, NEW c \in Callers, GiveUp(c)
    PROVE  /\ CallsMove
           /\ \E k \in Call : call' = [call EXCEPT ![c] = k] /\ k.op = call[c].op /\ k.order = call[c].order
<1>1. Busy(c)
  BY DEF GiveUp
<1>2. PICK e \in {"timeout", "transport"} : call' = [call EXCEPT ![c].reply = None, ![c].outcome = e]
  BY DEF GiveUp
<1>. DEFINE k == [call[c] EXCEPT !.reply = None, !.outcome = e]
<1>3. call' = [call EXCEPT ![c] = k]
  BY <1>2 DEF IInv, ClientsTypeOK
<1>4. k \in Call
  BY <1>1, BusyCall DEF Call, Ambiguous
<1>5. k.op = call[c].op /\ k.order = call[c].order /\ k.outcome = e /\ k.value = call[c].value
  BY <1>1, BusyCall DEF Call
<1>6. k.value = ""
  BY <1>1, <1>5, BusyCall DEF CallFits, Busy
<1>. HIDE DEF k
<1>7. CallFits(k, state[k.order])
  BY <1>1, <1>5, <1>6, BusyCall DEF CallFits, ReportFits, Definite
<1>8. adrift' \subseteq Subjects
  BY <1>1, BusyCall DEF GiveUp, IInv, ClientsTypeOK
<1>9. CallsMove
  BY <1>3, <1>4, <1>7, <1>8, OneCall DEF GiveUp, IInv, ClientsTypeOK
<1>. QED  BY <1>3, <1>4, <1>5, <1>9

\* The value of a call is one of those a call can have.
LEMMA ValueTyping ==
    ASSUME NEW op, NEW r
    PROVE  Value(op, r) \in Values
BY DEF Value, InvoiceStatus, OrderStatus, Values, Canonical

LEMMA ReturnMoves ==
    ASSUME IInv, NEW c \in Callers, Return(c)
    PROVE  /\ CallsMove
           /\ \E k \in Call : call' = [call EXCEPT ![c] = k] /\ k.op = call[c].op /\ k.order = call[c].order
<1>. DEFINE r == call[c].reply
            op == call[c].op
            got == Outcome(op, r)
            v == IF got = "returned" THEN Value(op, r) ELSE ""
            k == [call[c] EXCEPT !.reply = None, !.outcome = got, !.value = v]
<1>1. Busy(c) /\ r # None
  BY DEF Return
<1>2. call' = [call EXCEPT ![c] = k]
  BY DEF Return, IInv, ClientsTypeOK
<1>3. got \in {"returned"} \cup Definite \cup Ambiguous
  BY DEF Outcome, Parse, Execute, Definite, Ambiguous
<1>4. v \in Values
  BY ValueTyping DEF Values
<1>5. k \in Call
  <2>. HIDE DEF got, v
  <2>. QED  BY <1>1, <1>3, <1>4, BusyCall DEF Call
<1>6. /\ k.op = op /\ k.order = call[c].order /\ k.did = call[c].did
      /\ k.before = call[c].before /\ k.outcome = got /\ k.value = v
  BY <1>1, BusyCall DEF Call
<1>7. ReplyFits(call[c], state[call[c].order])
  BY <1>1, BusyCall DEF CallFits, Busy
<1>8. op \in BlinkCalls \cup BitLiberaCalls
  BY <1>1, BusyCall
<1>9. CASE call[c].did
  <2>1. r \in Answers(r.state)
    BY <1>7, <1>9 DEF ReplyFits
  <2>2. got \in {"returned", "api"}
    BY <2>1, AnswersAreNotDefinite
  <2>3. op \in StatusCalls /\ v # "" => ReportFits(k, state[k.order])
    <3>1. ASSUME op \in StatusCalls, v # ""
          PROVE  /\ v \notin {"pending", "other"} => Ended(state[k.order], v)
                 /\ \A u \in Canonical : Ended(call[c].before, u) => v = u
      <4>1. v = Value(op, r)
        BY <3>1
      <4>2. /\ <<call[c].order, op>> \in Subjects
            /\ call[c].order \in Invoices => r.state \in InvoiceStates
            /\ Kept(call[c].before, r.state)
            /\ Kept(r.state, state[call[c].order])
        BY <1>1, <1>7, <1>9, <3>1, BusyCall DEF ReplyFits
      <4>3. /\ Value(op, r) \notin {"pending", "other"} => Ended(state[call[c].order], Value(op, r))
            /\ \A u \in Canonical : Ended(call[c].before, u) => Value(op, r) = u
        <5>. HIDE DEF r
        <5>. QED  BY <3>1, <4>1, <4>2, StatusesAreTrue
      <4>. HIDE DEF k, v, op
      <4>. QED  BY <1>6, <4>1, <4>3
    <3>. HIDE DEF k, v, op
    <3>. QED  BY <1>6, <3>1 DEF ReportFits
  <2>4. CallFits(k, state[k.order])
    <3>1. <<k.order, k.op>> \in Subjects
      BY <1>1, <1>6, BusyCall
    <3>2. got # "returned" => v = ""
      OBVIOUS
    <3>. HIDE DEF k, v, op, got
    <3>. QED  BY <1>6, <1>9, <2>2, <2>3, <3>1, <3>2 DEF CallFits, ReportFits, Definite
  <2>. HIDE DEF k
  <2>5. CallsMove
    BY <1>2, <1>5, <2>4, OneCall DEF Return, IInv, ClientsTypeOK
  <2>. QED  BY <1>2, <1>5, <1>6, <2>5
<1>10. CASE ~call[c].did
  <2>1. r \in Refusals(op)
    BY <1>7, <1>10 DEF ReplyFits
  <2>2. ~Promises(v) /\ (op \in StatusCalls => v = "")
    BY <1>8, <2>1, RefusalsPromiseNothing DEF Promises
  <2>3. CallFits(k, state[k.order])
    <3>1. <<k.order, k.op>> \in Subjects
      BY <1>1, <1>6, BusyCall
    <3>2. got # "sent"
      BY <1>3 DEF Definite, Ambiguous
    <3>3. got # "returned" => v = ""
      OBVIOUS
    <3>. HIDE DEF k, v, op, got
    <3>. QED  BY <1>6, <1>10, <2>2, <3>1, <3>2, <3>3 DEF CallFits, ReportFits
  <2>. HIDE DEF k
  <2>4. CallsMove
    BY <1>2, <1>5, <2>3, OneCall DEF Return, IInv, ClientsTypeOK
  <2>. QED  BY <1>2, <1>5, <1>6, <2>4
<1>. QED  BY <1>9, <1>10

\* The provider serves a call that waits.
LEMMA ServeMoves ==
    ASSUME IInv, NEW c \in Callers, NEW s, Serve(c, s)
    PROVE  /\ CallsMove
           /\ \E k \in Call : call' = [call EXCEPT ![c] = k] /\ k.op = call[c].op /\ k.order = call[c].order
<1>. DEFINE o == call[c].order
            op == call[c].op
            said == Result(op, s)
<1>1. Busy(c) /\ call[c].reply = None
  BY DEF Serve, Unanswered
<1>2. /\ o \in Orders /\ <<o, op>> \in Subjects /\ Ready(o, op)
      /\ state[o] \in OrderStates /\ s \in Effects(o, op)
      /\ state' = [state EXCEPT ![o] = s]
  BY <1>1, BusyCall DEF Serve
<1>3. PICK r \in Answers(said) : call' = [call EXCEPT ![c].reply = r, ![c].did = TRUE]
  BY DEF Serve
<1>. DEFINE k == [call[c] EXCEPT !.reply = r, !.did = TRUE]
<1>4. call' = [call EXCEPT ![c] = k]
  BY <1>3 DEF IInv, ClientsTypeOK
<1>5. r.state = said /\ r \in Reply
  <2>1. said \in OrderStates \cup SendResults
    BY <1>2, ServiceKeeps DEF Result, OrderStates, SendResults
  <2>. HIDE DEF said
  <2>. QED  BY <2>1 DEF Answers, Reply
<1>6. k \in Call
  BY <1>1, <1>5, BusyCall DEF Call
<1>7. /\ k.op = op /\ k.order = o /\ k.did = TRUE /\ k.before = call[c].before
      /\ k.outcome = "sent" /\ k.reply = r /\ k.value = ""
  BY <1>1, BusyCall DEF Call, Busy, CallFits
<1>8. state'[o] = s /\ Kept(state[o], s)
  BY <1>2, ServiceKeeps DEF IInv, ClientsTypeOK
<1>9. CallFits(k, state'[k.order])
  <2>1. r # None
    BY <1>5, ClientsAssumption
  <2>2. op \in StatusCalls => r.state = state[o] /\ s = state[o]
    BY <1>2, <1>5 DEF Result, Effects, StatusCalls
  <2>3. op \in StatusCalls /\ o \in Invoices => r.state \in InvoiceStates
    BY <2>2 DEF IInv, StateInv
  <2>4. Kept(call[c].before, state[o])
    BY <1>1, BusyCall DEF CallFits, Busy
  <2>5. r \in Answers(r.state)
    BY <1>5
  <2>. HIDE DEF k, op, o, said
  <2>6. ReplyFits(k, state'[o])
    BY <1>7, <1>8, <2>2, <2>3, <2>4, <2>5 DEF ReplyFits
  <2>. QED
    BY <1>2, <1>7, <2>1, <2>6 DEF CallFits, Definite
<1>10. /\ StateInv'
       /\ state' \in [Orders -> OrderStates]
       /\ \A q \in Orders : Kept(state[q], state'[q])
  <2>1. /\ s \in OrderStates
        /\ o \in Invoices => s \in InvoiceStates
    BY <1>2, ServiceKeeps DEF IInv, StateInv
  <2>. HIDE DEF op, o
  <2>. QED  BY <1>2, <1>8, <2>1, KeptItself DEF IInv, StateInv, ClientsTypeOK, Orders
<1>. HIDE DEF k
<1>11. \A d \in Callers : call'[d] = call[d] \/ call'[d] = k
  BY <1>4 DEF IInv, ClientsTypeOK
<1>12. call' \in [Callers -> Call \cup {None}]
  BY <1>4, <1>6 DEF IInv, ClientsTypeOK
<1>13. CallsMove
  BY <1>9, <1>10, <1>11, <1>12 DEF CallsMove, Serve, IInv, ClientsTypeOK
<1>. QED  BY <1>4, <1>6, <1>7, <1>13

\* The state of an order moves on, and no call changes.
LEMMA StateMoves ==
    ASSUME IInv, NEW o \in Orders, NEW s \in OrderStates, state' = [state EXCEPT ![o] = s],
           Kept(state[o], s), o \in Invoices => s \in InvoiceStates,
           UNCHANGED <<configured, call, calls>>, adrift' \subseteq adrift
    PROVE  CallsMove
<1>1. \A q \in Orders : Kept(state[q], state'[q])
  BY KeptItself DEF IInv, ClientsTypeOK
<1>2. StateInv'
  BY DEF IInv, StateInv, ClientsTypeOK, Orders
<1>. QED  BY <1>1, <1>2 DEF CallsMove, IInv, ClientsTypeOK

LEMMA ServeLateMoves ==
    ASSUME IInv, NEW o, NEW op, NEW s, ServeLate(o, op, s)
    PROVE  CallsMove /\ o \in Orders
<1>1. <<o, op>> \in Subjects
  BY DEF ServeLate, IInv, ClientsTypeOK
<1>2. o \in Orders
  BY <1>1 DEF Subjects, Orders
<1>3. /\ s \in OrderStates
      /\ Kept(state[o], s)
      /\ o \in Invoices => s \in InvoiceStates
  BY <1>1, <1>2, ServiceKeeps DEF ServeLate, IInv, ClientsTypeOK, StateInv
<1>. QED  BY <1>2, <1>3, StateMoves DEF ServeLate

LEMMA ResolveMoves ==
    ASSUME IInv, NEW o \in Orders, NEW s \in OrderStates, Resolve(o, s)
    PROVE  CallsMove
<1>1. Kept(state[o], s) /\ (o \in Invoices => s \in InvoiceStates)
  BY ResolveKeeps DEF Resolve, IInv, StateInv
<1>. QED  BY <1>1, StateMoves DEF Resolve

LEMMA LoseMoves ==
    ASSUME IInv, NEW o, NEW op, LoseRequest(o, op)
    PROVE  CallsMove
BY KeptItself DEF LoseRequest, CallsMove, IInv, ClientsTypeOK, StateInv

-------------------------------------------------------------------------------
(* Watchers *)

\* Only w moves.
OnlyWatcher(w) ==
    /\ UNCHANGED state
    /\ watch' \in [Watchers -> Invoices \cup {None}]
    /\ stopOn' \in [Watchers -> StopSets]
    /\ stage' \in [Watchers -> Stages]
    /\ frames' \in [Watchers -> Seq(Frames)]
    /\ verdict' \in [Watchers -> OrderStates \cup {None}]
    /\ \A v \in Watchers \ {w} :
          UNCHANGED <<watch[v], stage[v], frames[v], verdict[v], call[v]>>

LEMMA OthersWatchOn ==
    ASSUME IInv, NEW w \in Watchers, OnlyWatcher(w), WatchFits(w)'
    PROVE  WatchTypeOK' /\ WatchInv'
<1>1. WatchTypeOK'
  BY DEF OnlyWatcher, WatchTypeOK
<1>2. ASSUME NEW v \in Watchers, v # w
      PROVE  WatchFits(v)'
  <2>1. WatchFits(v)
    BY DEF IInv, WatchInv
  <2>2. UNCHANGED <<watch[v], stage[v], frames[v], verdict[v], call[v], state>>
    BY <1>2 DEF OnlyWatcher
  <2>. QED  BY <2>1, <2>2 DEF WatchFits
<1>. QED  BY <1>1, <1>2 DEF WatchInv

\* Steps of a watcher that read or fill its socket, or leave it.
LEMMA SocketSteps ==
    ASSUME IInv, NEW w \in Watchers, UNCHANGED clientVars, SocketStep(w)
    PROVE  WatchTypeOK' /\ WatchInv'
<1>. USE DEF Listens
<1>1. WatchFits(w) /\ WatchTypeOK /\ frames[w] \in Seq(Frames) /\ stage[w] = "listening"
  BY DEF IInv, WatchInv, WatchTypeOK, SocketStep,
         HearOn, HearEnd, HearError, ConnectionBreaks, ConnectionCloses, SendFrame
<1>2. call[w] = None /\ watch[w] \in Invoices
  BY <1>1 DEF WatchFits
<1>3. UNCHANGED <<state, call>>
  BY DEF clientVars
<1>4. ASSUME NEW to \in {"returned", "failed"}, Leave(w, to), UNCHANGED verdict
      PROVE  OnlyWatcher(w) /\ WatchFits(w)'
  BY <1>1, <1>2, <1>3, <1>4 DEF Leave, OnlyWatcher, WatchFits, WatchTypeOK, Stages
<1>5. CASE HearOn(w)
  <2>1. frames' = [frames EXCEPT ![w] = Tail(@)] /\ frames[w] # <<>>
    BY <1>5 DEF HearOn, Read
  <2>2. Tail(frames[w]) \in Seq(Frames) /\ frames'[w] = Tail(frames[w])
    BY <1>1, <2>1 DEF WatchTypeOK
  <2>3. \A n \in 1..Len(frames'[w]) : frames'[w][n] = frames[w][n + 1] /\ n + 1 \in 1..Len(frames[w])
    <3>1. Len(frames[w]) \in Nat
      BY <1>1, LenProperties
    <3>2. /\ Len(Tail(frames[w])) = Len(frames[w]) - 1
          /\ \A n \in 1..Len(Tail(frames[w])) : Tail(frames[w])[n] = frames[w][n + 1]
      BY <1>1, <2>1, HeadTailProperties
    <3>. QED  BY <2>2, <3>1, <3>2
  <2>4. OnlyWatcher(w)
    BY <1>1, <1>3, <1>5, <2>1, <2>2 DEF HearOn, OnlyWatcher, WatchTypeOK
  <2>5. WatchFits(w)'
    BY <1>1, <1>2, <1>3, <1>5, <2>3 DEF HearOn, WatchFits
  <2>. QED  BY <2>4, <2>5, OthersWatchOn
<1>6. CASE HearEnd(w)
  <2>. DEFINE f == Head(frames[w])
  <2>1. /\ f = frames[w][1] /\ f \in Frames
        /\ Status(f) /\ Stops(w, f) /\ Leave(w, "returned")
        /\ verdict' = [verdict EXCEPT ![w] = f]
    BY <1>1, <1>6 DEF HearEnd
  <2>. HIDE DEF f
  <2>2. Kept(f, state[watch[w]])
    BY <1>1, <1>6, <2>1 DEF WatchFits, HearEnd
  <2>3. f \in {"PAID", "EXPIRED"} /\ f \in OrderStates
    BY <1>1, <2>1 DEF Stops, StopSets, WatchTypeOK, OrderStates
  <2>4. InvoiceStatus(f) \in Canonical /\ Ended(f, InvoiceStatus(f))
    BY <2>3 DEF InvoiceStatus, Canonical, Ended
  <2>5. Ended(state[watch[w]], InvoiceStatus(f))
    BY <2>2, <2>4 DEF Kept
  <2>6. OnlyWatcher(w)
    BY <1>1, <1>3, <2>1, <2>3 DEF Leave, OnlyWatcher, WatchTypeOK, Stages
  <2>7. WatchFits(w)'
    BY <1>1, <1>2, <1>3, <2>1, <2>4, <2>5 DEF Leave, WatchFits, WatchTypeOK
  <2>. QED  BY <2>6, <2>7, OthersWatchOn
<1>7. CASE HearError(w) \/ ConnectionBreaks(w) \/ ConnectionCloses(w)
  BY <1>4, <1>7, OthersWatchOn DEF HearError, ConnectionBreaks, ConnectionCloses
<1>8. CASE SendFrame(w)
  <2>1. PICK f \in {"ping", "complete", "error", "none", state[watch[w]]} :
           frames' = [frames EXCEPT ![w] = Append(@, f)]
    BY <1>8 DEF SendFrame
  <2>2. state[watch[w]] \in OrderStates
    BY <1>2 DEF IInv, ClientsTypeOK, Orders
  <2>3. f \in Frames
    BY <2>1, <2>2 DEF Frames, OrderStates
  <2>4. Kept(f, state[watch[w]])
    BY <2>1 DEF Kept, Ended
  <2>5. frames'[w] = Append(frames[w], f) /\ frames'[w] \in Seq(Frames)
    BY <1>1, <2>1, <2>3 DEF WatchTypeOK
  <2>6. \A n \in 1..Len(frames'[w]) : \/ n \in 1..Len(frames[w]) /\ frames'[w][n] = frames[w][n]
                                      \/ frames'[w][n] = f
    BY <1>1, <2>5
  <2>7. OnlyWatcher(w)
    BY <1>1, <1>3, <1>8, <2>1, <2>3, <2>5 DEF SendFrame, OnlyWatcher, WatchTypeOK
  <2>8. WatchFits(w)'
    BY <1>1, <1>2, <1>3, <1>8, <2>4, <2>6 DEF SendFrame, WatchFits
  <2>. QED  BY <2>7, <2>8, OthersWatchOn
<1>. QED  BY <1>5, <1>6, <1>7, <1>8 DEF SocketStep

\* A watcher forgets its call: nothing changes for the orders.
LEMMA ForgetMoves ==
    ASSUME IInv, NEW w \in Watchers, call' = [call EXCEPT ![w] = None],
           UNCHANGED <<configured, state, adrift, calls>>
    PROVE  CallsMove
BY KeptItself, WatchAssumption DEF CallsMove, IInv, ClientsTypeOK, StateInv

\* What a new socket may hold.
LEMMA FirstFrames ==
    ASSUME NEW S, NEW a \in S, NEW b \in S, NEW first \in {<<>>, <<b>>}
    PROVE  /\ <<a>> \o first \in Seq(S)
           /\ \A n \in 1..Len(<<a>> \o first) : (<<a>> \o first)[n] \in {a, b}
<1>1. <<a>> \in Seq(S) /\ first \in Seq(S) /\ Len(<<a>>) = 1
  <2>1. <<a>> \in Seq(S) /\ Len(<<a>>) = 1
    OBVIOUS
  <2>2. <<b>> \in Seq(S) /\ <<>> \in Seq(S)
    OBVIOUS
  <2>. QED  BY <2>1, <2>2
<1>2. /\ <<a>> \o first \in Seq(S)
      /\ Len(<<a>> \o first) = Len(<<a>>) + Len(first)
      /\ \A n \in 1..Len(<<a>>) + Len(first) : (<<a>> \o first)[n] = IF n <= Len(<<a>>) THEN <<a>>[n] ELSE first[n - Len(<<a>>)]
  <2>. QED  BY <1>1, ConcatProperties
<1>3. CASE first = <<>>
  <2>1. Len(first) = 0
    BY <1>3
  <2>. QED  BY <1>1, <1>2, <2>1
<1>4. CASE first = <<b>>
  <2>1. Len(first) = 1 /\ first[1] = b
    BY <1>4
  <2>. QED  BY <1>1, <1>2, <2>1
<1>. QED  BY <1>3, <1>4

LEMMA TurnSteps ==
    ASSUME IInv, NEW w \in Watchers, NEW i \in Invoices, Subscribe(w, i) \/ CannotSubscribe(w, i)
    PROVE  CallsMove /\ WatchTypeOK' /\ WatchInv'
<1>1. PICK to \in {"listening", "failed"} : Watch(w, i, to)
  BY DEF Subscribe, CannotSubscribe
<1>2. CallsMove
  BY <1>1, ForgetMoves DEF Watch
<1>3. state[i] \in OrderStates /\ WatchTypeOK
  BY DEF IInv, ClientsTypeOK, Orders
<1>4. w \in Callers /\ call'[w] = None
  BY <1>1, WatchAssumption DEF Watch, IInv, ClientsTypeOK
<1>5. /\ frames' \in [Watchers -> Seq(Frames)]
      /\ \A v \in Watchers \ {w} : frames'[v] = frames[v]
      /\ Subscribe(w, i) => \A n \in 1..Len(frames'[w]) : Kept(frames'[w][n], state[i])
  <2>1. CASE Subscribe(w, i)
    <3>1. PICK first \in {<<>>, <<state[i]>>} :
             frames' = [frames EXCEPT ![w] = <<"connection_ack">> \o first]
      BY <2>1 DEF Subscribe
    <3>2. Kept("connection_ack", state[i]) /\ Kept(state[i], state[i])
      BY DEF Kept, Ended
    <3>3. "connection_ack" \in Frames /\ state[i] \in Frames
      BY <1>3 DEF Frames
    <3>4. /\ <<"connection_ack">> \o first \in Seq(Frames)
          /\ \A n \in 1..Len(<<"connection_ack">> \o first) :
                (<<"connection_ack">> \o first)[n] \in {"connection_ack", state[i]}
      BY <3>3, FirstFrames
    <3>5. frames'[w] = <<"connection_ack">> \o first
      BY <1>3, <3>1 DEF WatchTypeOK
    <3>6. \A n \in 1..Len(frames'[w]) : Kept(frames'[w][n], state[i])
      BY <3>2, <3>4, <3>5
    <3>. QED  BY <1>3, <3>1, <3>4, <3>6 DEF WatchTypeOK
  <2>2. CASE ~Subscribe(w, i)
    BY <1>3, <2>2 DEF CannotSubscribe, WatchTypeOK
  <2>. QED  BY <2>1, <2>2
<1>6. Subscribe(w, i) \/ to = "failed"
  BY <1>1, <1>3 DEF CannotSubscribe, Watch, WatchTypeOK
<1>7. OnlyWatcher(w)
  BY <1>1, <1>3, <1>5, WatchAssumption DEF Watch, OnlyWatcher, WatchTypeOK, Stages, IInv, ClientsTypeOK
<1>8. WatchFits(w)'
  <2>1. verdict'[w] = None
    BY <1>1 DEF Watch, IInv, WatchInv, WatchFits
  <2>. QED  BY <1>1, <1>3, <1>4, <1>5, <1>6, <2>1 DEF Watch, WatchFits, WatchTypeOK
<1>. QED  BY <1>2, <1>7, <1>8, OthersWatchOn

-------------------------------------------------------------------------------
(* Every step *)

\* A call of c, and of nobody else, goes on.
LEMMA SameSubject ==
    ASSUME IInv, NEW c \in Callers, Busy(c), NEW k \in Call, call' = [call EXCEPT ![c] = k],
           k.op = call[c].op, k.order = call[c].order
    PROVE  WatchersCall
<1>1. ASSUME NEW w \in Watchers
      PROVE  call'[w] = call[w] \/ ~Listens(w)
  <2>1. w \in Callers
    BY WatchAssumption
  <2>2. CASE w # c
    BY <2>1, <2>2 DEF IInv, ClientsTypeOK
  <2>3. CASE w = c
    BY <2>1, <2>3 DEF IInv, WatchInv, WatchFits, Listens, Busy
  <2>. QED  BY <2>2, <2>3
<1>. QED  BY <1>1 DEF WatchersCall

\* What remains to be shown of a step of a call.
LEMMA Together ==
    ASSUME IInv, CallsMove, WatchTypeOK' /\ WatchInv'
    PROVE  IInv'
BY CallsGoOn DEF IInv

LEMMA CallSteps ==
    ASSUME IInv, CallStep
    PROVE  IInv'
<1>1. UNCHANGED watchVars
  BY DEF CallStep
<1>2. CASE \E c \in Callers, s \in Subjects : ~Waits(c) /\ Use(c, s[2], s[1])
  <2>1. PICK c \in Callers, s \in Subjects : ~Waits(c) /\ Use(c, s[2], s[1])
    BY <1>2
  <2>2. <<s[1], s[2]>> \in Subjects
    BY DEF Subjects
  <2>3. Begin(c, s[2], s[1]) /\ calls' \in 0..MaxCalls
    BY <2>1, ClientsAssumption DEF Use, IInv, ClientsTypeOK
  <2>4. CallsMove /\ call' = [call EXCEPT ![c] = call'[c]]
    BY <2>2, <2>3, BeginFits
  <2>5. ASSUME NEW w \in Watchers
        PROVE  call'[w] = call[w] \/ ~Listens(w)
    BY <2>1, <2>4, WatchAssumption DEF Waits, IInv, ClientsTypeOK
  <2>6. WatchersCall
    BY <2>5 DEF WatchersCall
  <2>. QED  BY <1>1, <2>4, <2>6, WatchersGoOn, Together
<1>3. ASSUME NEW c \in Callers, Refuse(c) \/ Return(c) \/ GiveUp(c)
      PROVE  IInv'
  <2>1. Busy(c)
    BY <1>3 DEF Refuse, Return, GiveUp, Unanswered
  <2>2. /\ CallsMove
        /\ \E k \in Call : call' = [call EXCEPT ![c] = k] /\ k.op = call[c].op /\ k.order = call[c].order
    BY <1>3, RefuseMoves, ReturnMoves, GiveUpMoves
  <2>3. WatchersCall
    BY <2>1, <2>2, SameSubject
  <2>. QED  BY <1>1, <2>2, <2>3, WatchersGoOn, Together
<1>4. ASSUME NEW s \in adrift, LoseRequest(s[1], s[2])
      PROVE  IInv'
  <2>1. CallsMove
    BY <1>4, LoseMoves
  <2>2. WatchersCall
    BY <1>4 DEF LoseRequest, WatchersCall
  <2>. QED  BY <1>1, <2>1, <2>2, WatchersGoOn, Together
<1>. QED  BY <1>2, <1>3, <1>4 DEF CallStep

LEMMA ProviderSteps ==
    ASSUME IInv, ProviderStep
    PROVE  IInv'
<1>1. ASSUME NEW c \in Callers, NEW s \in OrderStates, Serve(c, s), Announce(call[c].order, s)
      PROVE  IInv'
  <2>1. Busy(c)
    BY <1>1 DEF Serve, Unanswered
  <2>2. /\ CallsMove
        /\ \E k \in Call : call' = [call EXCEPT ![c] = k] /\ k.op = call[c].op /\ k.order = call[c].order
    BY <1>1, ServeMoves
  <2>3. WatchersCall
    BY <2>1, <2>2, SameSubject
  <2>4. state' = [state EXCEPT ![call[c].order] = s]
    BY <1>1 DEF Serve
  <2>5. call[c].order \in Orders
    BY <2>1, BusyCall
  <2>. QED  BY <1>1, <2>2, <2>3, <2>4, <2>5, WatchersHear, Together
<1>2. ASSUME NEW a \in adrift, NEW s \in OrderStates, ServeLate(a[1], a[2], s), Announce(a[1], s)
      PROVE  IInv'
  <2>1. CallsMove /\ a[1] \in Orders
    BY <1>2, ServeLateMoves
  <2>2. WatchersCall
    BY <1>2 DEF ServeLate, WatchersCall
  <2>3. state' = [state EXCEPT ![a[1]] = s]
    BY <1>2 DEF ServeLate
  <2>. QED  BY <1>2, <2>1, <2>2, <2>3, WatchersHear, Together
<1>3. ASSUME NEW o \in Orders, NEW s \in OrderStates, Resolve(o, s), Announce(o, s)
      PROVE  IInv'
  <2>1. CallsMove
    BY <1>3, ResolveMoves
  <2>2. WatchersCall
    BY <1>3 DEF Resolve, WatchersCall
  <2>3. state' = [state EXCEPT ![o] = s]
    BY <1>3 DEF Resolve
  <2>. QED  BY <1>3, <2>1, <2>2, <2>3, WatchersHear, Together
<1>. QED  BY <1>1, <1>2, <1>3 DEF ProviderStep

\* Where neither an order nor a call changes.
LEMMA CallsStay ==
    ASSUME IInv, UNCHANGED clientVars
    PROVE  CallsMove
BY KeptItself DEF clientVars, CallsMove, IInv, ClientsTypeOK, StateInv

LEMMA WatchSteps ==
    ASSUME IInv, WatchStep
    PROVE  IInv'
<1>1. ASSUME NEW w \in Watchers, UNCHANGED clientVars, SocketStep(w)
      PROVE  IInv'
  BY <1>1, SocketSteps, CallsStay, Together
<1>2. ASSUME NEW w \in Watchers, NEW i \in Invoices, Subscribe(w, i) \/ CannotSubscribe(w, i)
      PROVE  IInv'
  BY <1>2, TurnSteps, Together
<1>. QED  BY <1>1, <1>2 DEF WatchStep

LEMMA OtherSteps ==
    ASSUME IInv, UNCHANGED <<clientVars, watchVars>>
    PROVE  IInv'
<1>1. CallsMove
  BY CallsStay
<1>2. WatchersCall
  BY DEF clientVars, WatchersCall
<1>. QED  BY <1>1, <1>2, WatchersGoOn, Together

\* What clients and watchers know stays so with every step of Rails.
THEOREM ClientsInvariant == Spec => []IInv
<1>1. Init => IInv
  BY InitIInv
<1>2. IInv /\ [Next]_vars => IInv'
  <2>. SUFFICES ASSUME IInv, [Next]_vars
                PROVE  IInv'
    OBVIOUS
  <2>1. CASE CallStep
    BY <2>1, CallSteps
  <2>2. CASE ProviderStep
    BY <2>2, ProviderSteps
  <2>3. CASE WatchStep
    BY <2>3, WatchSteps
  <2>4. CASE OnrampStep \/ DashboardStep \/ Quiescent \/ UNCHANGED vars
    <3>1. UNCHANGED <<clientVars, watchVars>>
      BY <2>4 DEF OnrampStep, DashboardStep, Quiescent, vars
    <3>. QED  BY <3>1, OtherSteps
  <2>. QED  BY <2>1, <2>2, <2>3, <2>4 DEF Next
<1>. QED  BY <1>1, <1>2, PTL DEF Spec

\* An error of a client that names a cause means that nothing was done, for all
\* callers, invoices, orders and HTTP codes (blink/client.py, bitlibera/client.py).
THEOREM DefiniteErrorsTheorem == Spec => []DefiniteErrorsDidNothing
<1>1. IInv => DefiniteErrorsDidNothing
  BY DEF IInv, CallInv, CallFits, DefiniteErrorsDidNothing, Over
<1>. QED  BY <1>1, ClientsInvariant, PTL

\* A result that promises something was done at the provider, for every way of a
\* provider to say no within a success (BlinkService.pay_invoice, cancel_invoice,
\* _raise_mutation_errors, BitLiberaClient._parse).
THEOREM ResultsTheorem == Spec => []ResultsWereServed
<1>1. IInv => ResultsWereServed
  BY DEF IInv, CallInv, CallFits, ResultsWereServed, Over
<1>. QED  BY <1>1, ClientsInvariant, PTL

\* What a client reports of an order is so and stays so
\* (translate_invoice_status, translate_order_status).
THEOREM ReportsTheorem == Spec => []ReportsAreTrue
<1>1. IInv => ReportsAreTrue
  BY DEF IInv, CallInv, CallFits, ReportFits, ReportsAreTrue, Over
<1>. QED  BY <1>1, ClientsInvariant, PTL

\* A watcher stops on what stays true, for sockets of any length
\* (on_status_change, iter_statuses).
THEOREM VerdictTheorem == Spec => []VerdictIsFinal
<1>1. IInv => VerdictIsFinal
  BY DEF IInv, WatchInv, WatchFits, VerdictIsFinal
<1>. QED  BY <1>1, ClientsInvariant, PTL

-------------------------------------------------------------------------------
(* The inductive invariant of the codes *)

\* A code that was taken or replaced pays for nothing later: what is in the
\* store or in a thread is neither spent nor somewhere else.
CodesAreInOnePlace ==
    /\ \A k \in Keys, p \in Payments : otps[k] # Nothing => otps[k].nth # spent[p]
    /\ \A k, l \in Keys : k # l /\ otps[k] # Nothing /\ otps[l] # Nothing => otps[k].nth # otps[l].nth
    /\ \A k \in Keys, t \in Threads : Confirming(t) /\ otps[k] # Nothing => request[t].nth # otps[k].nth
    /\ \A t \in Threads, p \in Payments : Confirming(t) => request[t].nth # spent[p]
    /\ \A t, u \in Threads : t # u /\ Confirming(t) /\ Confirming(u) => request[t].nth # request[u].nth

\* Codes are numbered as they are issued.
CodesWereIssued ==
    /\ \A k \in Keys : otps[k] # Nothing => otps[k].nth \in 1..issued
    /\ \A t \in Threads : request[t] # Nothing => request[t].nth \in 0..issued
    /\ \A p \in Payments : spent[p] \in 0..issued

SpentOnce == \A p, q \in Payments : spent[p] # 0 /\ spent[p] = spent[q] => p = q

CodesInv ==
    /\ OnrampTypeOK
    /\ CodesWereIssued
    /\ CodesAreInOnePlace
    /\ SpentOnce

LEMMA InitCodes ==
    ASSUME Init
    PROVE  CodesInv
<1>1. OnrampTypeOK
  BY OnrampAssumption DEF Init, OnrampInit, OnrampTypeOK
<1>2. CodesWereIssued /\ CodesAreInOnePlace /\ SpentOnce
  BY DEF Init, OnrampInit, CodesWereIssued, CodesAreInOnePlace, SpentOnce, Confirming
<1>. QED  BY <1>1, <1>2 DEF CodesInv

LEMMA RequestOtpSteps ==
    ASSUME CodesInv, NEW k \in Keys, NEW code \in Codes, RequestOtp(k, code)
    PROVE  CodesInv'
<1>. DEFINE new == [code |-> code, nth |-> issued + 1]
<1>1. issued \in Nat /\ issued' = issued + 1 /\ issued' \in 0..MaxIssues
  BY OnrampAssumption DEF CodesInv, OnrampTypeOK, RequestOtp
<1>2. otps' = [otps EXCEPT ![k] = new] /\ UNCHANGED <<request, spent, demo, registry, paid>>
  BY <1>1 DEF RequestOtp
<1>3. new \in Otp /\ new # Nothing /\ new.nth = issued + 1
  BY <1>1, OnrampAssumption DEF Otp
<1>. HIDE DEF new
<1>4. OnrampTypeOK'
  BY <1>1, <1>2, <1>3 DEF CodesInv, OnrampTypeOK
<1>5. \A l \in Keys : otps'[l] = IF l = k THEN new ELSE otps[l]
  BY <1>2 DEF CodesInv, OnrampTypeOK
<1>6. CodesWereIssued'
  BY <1>1, <1>2, <1>3, <1>5 DEF CodesInv, CodesWereIssued
<1>7. CodesAreInOnePlace'
  BY <1>1, <1>2, <1>3, <1>5 DEF CodesInv, CodesWereIssued, CodesAreInOnePlace, Confirming
<1>. QED  BY <1>2, <1>4, <1>6, <1>7 DEF CodesInv, SpentOnce

LEMMA BeginConfirmSteps ==
    ASSUME CodesInv, NEW t \in Threads, NEW p \in Payments, NEW k \in Keys, NEW code \in Codes,
           BeginConfirm(t, p, k, code)
    PROVE  CodesInv'
<1>. DEFINE new == [payment |-> p, key |-> k, code |-> code, nth |-> 0]
<1>1. request' = [request EXCEPT ![t] = new] /\ UNCHANGED <<otps, issued, spent, demo, registry, paid>>
  BY DEF BeginConfirm
<1>2. new \in Request /\ new.nth = 0
  BY DEF Request
<1>. HIDE DEF new
<1>3. OnrampTypeOK'
  BY <1>1, <1>2 DEF CodesInv, OnrampTypeOK
<1>4. \A u \in Threads : request'[u] = IF u = t THEN new ELSE request[u]
  BY <1>1 DEF CodesInv, OnrampTypeOK
<1>5. issued \in Nat
  BY DEF CodesInv, OnrampTypeOK
<1>6. CodesWereIssued'
  BY <1>1, <1>2, <1>4, <1>5 DEF CodesInv, CodesWereIssued
<1>7. CodesAreInOnePlace'
  BY <1>1, <1>2, <1>4 DEF CodesInv, CodesAreInOnePlace, Confirming
<1>. QED  BY <1>1, <1>3, <1>6, <1>7 DEF CodesInv, SpentOnce

\* The thread takes the code from the store, or the store loses it.
LEMMA TakeOtpSteps ==
    ASSUME CodesInv, NEW t \in Threads, TakeOtp(t)
    PROVE  CodesInv'
<1>. DEFINE k == request[t].key
            new == IF Fits(k, request[t].code) THEN [request[t] EXCEPT !.nth = otps[k].nth] ELSE Nothing
<1>1. request[t] \in Request /\ k \in Keys
  BY DEF CodesInv, OnrampTypeOK, TakeOtp, Request
<1>2. /\ otps' = [otps EXCEPT ![k] = Nothing]
      /\ request' = [request EXCEPT ![t] = new]
      /\ UNCHANGED <<issued, spent, demo, registry, paid>>
  BY DEF TakeOtp, Popped
<1>3. new # Nothing => new \in Request /\ otps[k] # Nothing /\ new.nth = otps[k].nth
  <2>1. SUFFICES ASSUME Fits(k, request[t].code)
                 PROVE  /\ [request[t] EXCEPT !.nth = otps[k].nth] \in Request
                        /\ [request[t] EXCEPT !.nth = otps[k].nth].nth = otps[k].nth
                        /\ otps[k] # Nothing
    OBVIOUS
  <2>2. otps[k] \in Otp /\ otps[k] # Nothing
    BY <1>1, <2>1 DEF Fits, CodesInv, OnrampTypeOK
  <2>. HIDE DEF k
  <2>. QED  BY <1>1, <2>2 DEF Request, Otp
<1>. HIDE DEF new, k
<1>4. OnrampTypeOK'
  BY <1>1, <1>2, <1>3 DEF CodesInv, OnrampTypeOK
<1>5. /\ \A u \in Threads : request'[u] = IF u = t THEN new ELSE request[u]
      /\ \A l \in Keys : otps'[l] = IF l = k THEN Nothing ELSE otps[l]
  BY <1>1, <1>2 DEF CodesInv, OnrampTypeOK
<1>6. CodesWereIssued'
  BY <1>1, <1>2, <1>3, <1>5 DEF CodesInv, CodesWereIssued, OnrampTypeOK
<1>7. CodesAreInOnePlace'
  BY <1>1, <1>2, <1>3, <1>5 DEF CodesInv, CodesAreInOnePlace, Confirming
<1>. QED  BY <1>2, <1>4, <1>6, <1>7 DEF CodesInv, SpentOnce

\* A thread is done; its code paid for p, or for nothing.
LEMMA ConfirmSteps ==
    ASSUME CodesInv, NEW t \in Threads, ConfirmPayment(t) \/ ConfirmFails(t)
    PROVE  CodesInv'
<1>. DEFINE p == request[t].payment
<1>1. request[t] \in Request /\ p \in Payments /\ request[t].nth \in Nat
  BY DEF CodesInv, OnrampTypeOK, ConfirmPayment, ConfirmFails, Confirming, Request
<1>2. Confirming(t) /\ UNCHANGED <<otps, issued, demo, registry>>
  BY DEF ConfirmPayment, ConfirmFails
<1>3. request' = [request EXCEPT ![t] = Nothing]
  BY DEF ConfirmPayment, ConfirmFails
<1>4. spent' = spent \/ spent' = [spent EXCEPT ![p] = request[t].nth]
  BY <1>1 DEF ConfirmPayment, ConfirmFails, CodesInv, OnrampTypeOK
<1>5. paid' \subseteq Payments
  BY <1>1 DEF ConfirmPayment, ConfirmFails, CodesInv, OnrampTypeOK
<1>6. \A u \in Threads : request'[u] = IF u = t THEN Nothing ELSE request[u]
  BY <1>3 DEF CodesInv, OnrampTypeOK
<1>7. \A q \in Payments : spent'[q] = spent[q] \/ (q = p /\ spent'[q] = request[t].nth)
  BY <1>4 DEF CodesInv, OnrampTypeOK
<1>8. OnrampTypeOK'
  BY <1>1, <1>2, <1>3, <1>4, <1>5 DEF CodesInv, OnrampTypeOK
<1>. HIDE DEF p
<1>9. CodesWereIssued'
  BY <1>2, <1>6, <1>7 DEF CodesInv, CodesWereIssued, Confirming
<1>10. CodesAreInOnePlace'
  BY <1>2, <1>6, <1>7 DEF CodesInv, CodesAreInOnePlace, Confirming
<1>11. SpentOnce'
  BY <1>2, <1>7 DEF CodesInv, CodesAreInOnePlace, SpentOnce, Confirming
<1>. QED  BY <1>8, <1>9, <1>10, <1>11 DEF CodesInv

LEMMA RestartSteps ==
    ASSUME CodesInv, Restart
    PROVE  CodesInv'
<1>1. OnrampTypeOK'
  BY DEF Restart, CodesInv, OnrampTypeOK
<1>2. (\A k \in Keys : otps'[k] = Nothing) /\ \A t \in Threads : request'[t] = Nothing
  BY DEF Restart
<1>3. CodesWereIssued' /\ CodesAreInOnePlace' /\ SpentOnce'
  BY <1>2 DEF Restart, CodesInv, CodesWereIssued, CodesAreInOnePlace, SpentOnce, Confirming
<1>. QED  BY <1>1, <1>3 DEF CodesInv

LEMMA PollDemoSteps ==
    ASSUME CodesInv, NEW p \in Payments, NEW rail \in Adapters, PollDemo(p, rail)
    PROVE  CodesInv'
<1>1. OnrampTypeOK'
  BY DEF PollDemo, CodesInv, OnrampTypeOK
<1>. QED  BY <1>1 DEF PollDemo, CodesInv, CodesWereIssued, CodesAreInOnePlace, SpentOnce, Confirming

\* The codes of the store and of the threads stay numbered, in one place each and
\* unspent, and the on-ramp's state well typed, with every step of Rails.
THEOREM CodesInvariant == Spec => []CodesInv
<1>1. Init => CodesInv
  BY InitCodes
<1>2. CodesInv /\ [Next]_vars => CodesInv'
  <2>. SUFFICES ASSUME CodesInv, [Next]_vars
                PROVE  CodesInv'
    OBVIOUS
  <2>1. CASE OnrampStep
    BY <2>1, RequestOtpSteps, BeginConfirmSteps, TakeOtpSteps, ConfirmSteps, PollDemoSteps, RestartSteps
       DEF OnrampStep
  <2>2. CASE UNCHANGED onrampVars
    <3>1. OnrampTypeOK'
      BY <2>2 DEF onrampVars, CodesInv, OnrampTypeOK
    <3>. QED
      BY <2>2, <3>1
         DEF onrampVars, CodesInv, CodesWereIssued, CodesAreInOnePlace, SpentOnce, Confirming
  <2>3. CASE ~OnrampStep
    <3>1. UNCHANGED onrampVars
      BY <2>3 DEF Next, CallStep, ProviderStep, WatchStep, DashboardStep, Quiescent,
                  vars, localVars
    <3>. QED  BY <2>2, <3>1
  <2>. QED  BY <2>1, <2>3
<1>. QED  BY <1>1, <1>2, PTL DEF Spec

\* One code pays one order at most, for all payments, phones, codes and threads
\* (payments/demo.py: confirm_otp).
THEOREM CodesTheorem == Spec => []OneCodePaysOneOrder
<1>1. CodesInv => OneCodePaysOneOrder
  BY DEF CodesInv, SpentOnce, OneCodePaysOneOrder, Pays
<1>. QED  BY <1>1, CodesInvariant, PTL

-------------------------------------------------------------------------------
(* The codes implement one-time codes *)

SpentArePaid == \A p \in Payments : spent[p] # 0 => p \in paid

LEMMA OpenCode ==
    \A n : n \in OpenCodes <=> \/ \E k \in Keys : otps[k] # Nothing /\ n = otps[k].nth
                               \/ \E t \in Threads : Confirming(t) /\ n = request[t].nth
  BY DEF OpenCodes

LEMMA OpenCodeNext ==
    \A n : n \in OpenCodes' <=> \/ \E k \in Keys : otps'[k] # Nothing /\ n = otps'[k].nth
                                \/ \E t \in Threads : Confirming(t)' /\ n = request'[t].nth
  BY DEF OpenCodes

\* Payments have a code only when they are PAID, and stay so.
LEMMA SpentArePaidInvariant == Spec => []SpentArePaid
<1>1. Init => SpentArePaid
  BY DEF Init, OnrampInit, SpentArePaid
<1>2. CodesInv /\ SpentArePaid /\ [Next]_vars => SpentArePaid'
  <2>. SUFFICES ASSUME CodesInv, SpentArePaid, [Next]_vars
                PROVE  SpentArePaid'
    OBVIOUS
  <2>1. ASSUME NEW t \in Threads, ConfirmPayment(t)
        PROVE  SpentArePaid'
    <3>1. /\ paid' = paid \cup {request[t].payment}
          /\ spent' = [spent EXCEPT ![request[t].payment] =
                          IF request[t].payment \in paid THEN @ ELSE request[t].nth]
      BY <2>1 DEF ConfirmPayment
    <3>2. spent \in [Payments -> Nat]
      BY DEF CodesInv, OnrampTypeOK
    <3>. QED  BY <3>1, <3>2 DEF SpentArePaid
  <2>2. CASE OnrampStep
    <3>1. CASE \E t \in Threads : ConfirmPayment(t)
      BY <2>1, <3>1
    <3>2. CASE ~\E t \in Threads : ConfirmPayment(t)
      <4>1. UNCHANGED spent /\ paid \subseteq paid'
        BY <2>2, <3>2 DEF OnrampStep, RequestOtp, BeginConfirm, TakeOtp, ConfirmFails, PollDemo, Restart
      <4>. QED  BY <4>1 DEF SpentArePaid
    <3>. QED  BY <3>1, <3>2
  <2>3. CASE ~OnrampStep
    BY <2>3 DEF Next, CallStep, ProviderStep, WatchStep, DashboardStep, Quiescent,
                vars, localVars, onrampVars, SpentArePaid
  <2>. QED  BY <2>2, <2>3
<1>. QED  BY <1>1, <1>2, CodesInvariant, PTL DEF Spec

LEMMA CodesStart ==
    ASSUME Init
    PROVE  OneTime!Init
<1>1. \A n : n \notin OpenCodes
  BY OpenCode DEF Init, OnrampInit, Confirming
<1>. QED  BY <1>1 DEF Init, OnrampInit, OneTime!Init

\* A new code is opened, and the one it takes the place of is not.
LEMMA RequestOtpIssues ==
    ASSUME CodesInv, NEW k \in Keys, NEW code \in Codes, RequestOtp(k, code)
    PROVE  OneTime!Issue
<1>. DEFINE kept == OpenCodes' \ {issued'}
<1>1. /\ issued' = issued + 1
      /\ otps' = [otps EXCEPT ![k] = [code |-> code, nth |-> issued']]
      /\ UNCHANGED <<request, spent>>
  BY DEF RequestOtp
<1>2. /\ otps'[k] = [code |-> code, nth |-> issued']
      /\ \A l \in Keys : l # k => otps'[l] = otps[l]
  BY <1>1 DEF CodesInv, OnrampTypeOK
<1>3. otps'[k] # Nothing
  <2>1. issued' \in Nat
    BY <1>1 DEF CodesInv, OnrampTypeOK
  <2>. QED  BY <1>2, <2>1, OnrampAssumption
<1>4. issued' \in OpenCodes'
  BY <1>2, <1>3, OpenCodeNext
<1>5. kept \in SUBSET OpenCodes
  BY <1>1, <1>2, OpenCode, OpenCodeNext DEF Confirming
<1>6. OpenCodes' = kept \cup {issued'}
  BY <1>4
<1>. QED  BY <1>1, <1>5, <1>6 DEF OneTime!Issue

\* A step that brings no code into the store or to a thread.
LEMMA NoCodeIsOpened ==
    ASSUME OpenCodes' \subseteq OpenCodes, UNCHANGED <<issued, spent>>
    PROVE  OneTime!Lapse
  BY DEF OneTime!Lapse

LEMMA BeginConfirmLapses ==
    ASSUME CodesInv, NEW t \in Threads, NEW p \in Payments, NEW k \in Keys, NEW code \in Codes,
           BeginConfirm(t, p, k, code)
    PROVE  OneTime!Lapse
<1>1. /\ request' = [request EXCEPT ![t] = [payment |-> p, key |-> k, code |-> code, nth |-> 0]]
      /\ UNCHANGED <<otps, issued, spent>>
  BY DEF BeginConfirm
<1>2. /\ request'[t].nth = 0
      /\ \A u \in Threads : u # t => request'[u] = request[u]
  BY <1>1 DEF CodesInv, OnrampTypeOK
<1>3. OpenCodes' \subseteq OpenCodes
  BY <1>1, <1>2, OpenCode, OpenCodeNext DEF Confirming
<1>. QED  BY <1>1, <1>3, NoCodeIsOpened

\* The code goes from the store to the thread, or is gone.
LEMMA TakeOtpLapses ==
    ASSUME CodesInv, NEW t \in Threads, TakeOtp(t)
    PROVE  OneTime!Lapse
<1>. DEFINE k == request[t].key
            new == IF Fits(k, request[t].code) THEN [request[t] EXCEPT !.nth = otps[k].nth] ELSE Nothing
<1>1. request[t] \in Request /\ k \in Keys
  BY DEF CodesInv, OnrampTypeOK, TakeOtp, Request
<1>2. /\ otps' = [otps EXCEPT ![k] = Nothing]
      /\ request' = [request EXCEPT ![t] = new]
      /\ UNCHANGED <<issued, spent>>
  BY DEF TakeOtp, Popped
<1>3. new # Nothing => otps[k] # Nothing /\ new.nth = otps[k].nth
  <2>1. SUFFICES ASSUME Fits(k, request[t].code)
                 PROVE  /\ [request[t] EXCEPT !.nth = otps[k].nth].nth = otps[k].nth
                        /\ otps[k] # Nothing
    OBVIOUS
  <2>. HIDE DEF k
  <2>. QED  BY <1>1, <2>1 DEF Fits, Request
<1>. HIDE DEF new, k
<1>4. /\ \A u \in Threads : request'[u] = IF u = t THEN new ELSE request[u]
      /\ \A l \in Keys : otps'[l] = IF l = k THEN Nothing ELSE otps[l]
  BY <1>1, <1>2 DEF CodesInv, OnrampTypeOK
<1>5. OpenCodes' \subseteq OpenCodes
  BY <1>1, <1>3, <1>4, OpenCode, OpenCodeNext DEF Confirming
<1>. QED  BY <1>2, <1>5, NoCodeIsOpened

\* What is open after the thread t is done.
LEMMA DoneThread ==
    ASSUME CodesInv, NEW t \in Threads, Confirming(t),
           request' = [request EXCEPT ![t] = Nothing], UNCHANGED otps
    PROVE  OpenCodes' = OpenCodes \ {request[t].nth}
<1>1. \A u \in Threads : request'[u] = IF u = t THEN Nothing ELSE request[u]
  BY DEF CodesInv, OnrampTypeOK
<1>2. \A n : n \in OpenCodes' <=> n \in OpenCodes /\ n # request[t].nth
  <2>1. ASSUME NEW n, n \in OpenCodes'
        PROVE  n \in OpenCodes /\ n # request[t].nth
    BY <1>1, <2>1, OpenCode, OpenCodeNext DEF Confirming, CodesInv, CodesAreInOnePlace
  <2>2. ASSUME NEW n, n \in OpenCodes, n # request[t].nth
        PROVE  n \in OpenCodes'
    BY <1>1, <2>2, OpenCode, OpenCodeNext DEF Confirming
  <2>. QED  BY <2>1, <2>2
<1>. QED  BY <1>2

\* A payment that is not PAID is paid with the thread's code, which is open.
LEMMA ConfirmRedeems ==
    ASSUME CodesInv, SpentArePaid, NEW t \in Threads, ConfirmPayment(t) \/ ConfirmFails(t)
    PROVE  OneTime!Next
<1>. DEFINE p == request[t].payment
            n == request[t].nth
<1>1. Confirming(t) /\ request' = [request EXCEPT ![t] = Nothing] /\ UNCHANGED <<otps, issued>>
  BY DEF ConfirmPayment, ConfirmFails
<1>2. OpenCodes' = OpenCodes \ {n}
  BY <1>1, DoneThread
<1>3. p \in Payments /\ spent \in [Payments -> Nat]
  BY <1>1 DEF CodesInv, OnrampTypeOK, Confirming, Request
<1>4. CASE ConfirmPayment(t) /\ p \notin paid
  <2>1. spent' = [spent EXCEPT ![p] = n]
    BY <1>4 DEF ConfirmPayment
  <2>2. n \in OpenCodes
    BY <1>1, OpenCode
  <2>3. spent[p] = 0
    BY <1>3, <1>4 DEF SpentArePaid
  <2>4. OneTime!Redeem(p, n)
    BY <1>1, <1>2, <2>1, <2>2, <2>3 DEF OneTime!Redeem
  <2>. QED  BY <1>3, <2>2, <2>4 DEF OneTime!Next
<1>5. CASE ~(ConfirmPayment(t) /\ p \notin paid)
  <2>1. UNCHANGED spent
    BY <1>3, <1>5 DEF ConfirmPayment, ConfirmFails
  <2>. QED  BY <1>1, <1>2, <2>1, NoCodeIsOpened DEF OneTime!Next
<1>. QED  BY <1>4, <1>5

LEMMA RestartLapses ==
    ASSUME Restart
    PROVE  OneTime!Lapse
<1>1. (\A k \in Keys : otps'[k] = Nothing) /\ \A t \in Threads : request'[t] = Nothing
  BY DEF Restart
<1>2. OpenCodes' \subseteq OpenCodes
  BY <1>1, OpenCodeNext DEF Confirming
<1>3. UNCHANGED <<issued, spent>>
  BY DEF Restart
<1>. QED  BY <1>2, <1>3, NoCodeIsOpened

\* The code store, the on-ramp views and confirm_payment implement one-time codes,
\* whatever threads, phones, payments and restarts there are: every step issues a
\* code, lets codes lapse, redeems one, or changes nothing of them.
THEOREM CodesRefinement == Spec => CodesAreOneTime
<1>1. Init => OneTime!Init
  BY CodesStart
<1>2. CodesInv /\ SpentArePaid /\ [Next]_vars => [OneTime!Next]_OneTime!codeVars
  <2>. SUFFICES ASSUME CodesInv, SpentArePaid, [Next]_vars
                PROVE  [OneTime!Next]_OneTime!codeVars
    OBVIOUS
  <2>1. CASE UNCHANGED <<otps, request, issued, spent>>
    <3>1. OpenCodes' = OpenCodes
      BY <2>1 DEF OpenCodes, Confirming
    <3>. QED  BY <2>1, <3>1 DEF OneTime!codeVars
  <2>2. CASE OnrampStep
    <3>1. ASSUME NEW k \in Keys, NEW code \in Codes, RequestOtp(k, code)
          PROVE  OneTime!Next
      BY <3>1, RequestOtpIssues DEF OneTime!Next
    <3>2. ASSUME NEW t \in Threads, NEW p \in Payments, NEW k \in Keys, NEW code \in Codes,
                 BeginConfirm(t, p, k, code)
          PROVE  OneTime!Next
      BY <3>2, BeginConfirmLapses DEF OneTime!Next
    <3>3. ASSUME NEW t \in Threads, TakeOtp(t)
          PROVE  OneTime!Next
      BY <3>3, TakeOtpLapses DEF OneTime!Next
    <3>4. ASSUME NEW p \in Payments, NEW rail \in Adapters, PollDemo(p, rail)
          PROVE  UNCHANGED <<otps, request, issued, spent>>
      BY <3>4 DEF PollDemo
    <3>5. CASE Restart
      BY <3>5, RestartLapses DEF OneTime!Next
    <3>. QED  BY <2>1, <2>2, <3>1, <3>2, <3>3, <3>4, <3>5, ConfirmRedeems DEF OnrampStep
  <2>3. CASE ~OnrampStep
    <3>1. UNCHANGED <<otps, request, issued, spent>>
      BY <2>3 DEF Next, CallStep, ProviderStep, WatchStep, DashboardStep, Quiescent,
                  vars, localVars, onrampVars
    <3>. QED  BY <2>1, <3>1
  <2>. QED  BY <2>2, <2>3
<1>. QED  BY <1>1, <1>2, CodesInvariant, SpentArePaidInvariant, PTL DEF Spec, CodesAreOneTime, OneTime!Spec

===============================================================================
