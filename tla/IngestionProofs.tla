---------------------------- MODULE IngestionProofs ----------------------------
(***************************************************************************)
(* What DocumentIngestion guarantees for every number of processes,        *)
(* documents and lines, every limit of budget and retries, and whatever    *)
(* the provider charges.                                                   *)
(***************************************************************************)
EXTENDS DocumentIngestion, TLAPS

-----------------------------------------------------------------------------
(* The account of one process *)

\* Requests that one call may send.
Sends == MaxRetries + 1

\* What has been sent is covered by the calls reserved, and by the attempts of
\* the one under way; it was within the budget when it began.
Covered(b, m, x) ==
    /\ m.attempt <= MaxRetries
    /\ IF m.pc = "send"
         THEN /\ b.cost <= MaxCost
              /\ b.calls >= 1
              /\ x.requests <= (b.calls - 1) * Sends + m.attempt
         ELSE x.requests <= b.calls * Sends

MoneySound == MoneyTypeOK /\ \A w \in Process : Covered(budget[w], modelCall[w], bill[w])

\* One more call of k requests, counted.
LEMMA OneMoreCall ==
    ASSUME NEW n \in Nat, n >= 1, NEW k \in Nat PROVE (n - 1) * k + k = n * k
  BY SMT

\* More calls cover no fewer requests.
LEMMA CallsMonotone ==
    ASSUME NEW m \in Nat, NEW n \in Nat, m <= n, NEW k \in Nat PROVE m * k <= n * k
  <1>1. n - m \in Nat /\ n * k = m * k + (n - m) * k
    BY SMT
  <1>2. (n - m) * k \in Nat /\ m * k \in Nat
    BY <1>1, SMT
  <1> DEFINE p == (n - m) * k
             q == m * k
  <1>3. p \in Nat /\ q \in Nat /\ n * k = q + p
    BY <1>1, <1>2
  <1> HIDE DEF p, q
  <1>4. q <= q + p
    BY <1>3, SMT
  <1> QED BY <1>3, <1>4 DEF q

\* The account of one process changes, to one that is covered.
LEMMA AccountStep ==
    ASSUME MoneySound, NEW w \in Process, NEW b \in Budget, NEW m \in ModelCall, NEW x \in Bill,
           Covered(b, m, x), budget' = [budget EXCEPT ![w] = b],
           modelCall' = [modelCall EXCEPT ![w] = m], bill' = [bill EXCEPT ![w] = x]
    PROVE  MoneySound'
  <1>1. MoneyTypeOK'
    BY DEF MoneySound, MoneyTypeOK
  <1>2. ASSUME NEW v \in Process PROVE Covered(budget'[v], modelCall'[v], bill'[v])
    <2>1. CASE v = w
      <3>1. budget'[v] = b /\ modelCall'[v] = m /\ bill'[v] = x
        BY <2>1 DEF MoneySound, MoneyTypeOK
      <3> QED BY <3>1
    <2>2. CASE v # w
      <3>1. budget'[v] = budget[v] /\ modelCall'[v] = modelCall[v] /\ bill'[v] = bill[v]
        BY <2>2 DEF MoneySound, MoneyTypeOK
      <3> QED BY <3>1 DEF MoneySound
    <2> QED BY <2>1, <2>2
  <1> QED BY <1>1, <1>2 DEF MoneySound, Covered

\* What the invariant says of the account of one process.
LEMMA AccountOf ==
    ASSUME MoneySound, NEW w \in Process
    PROVE  /\ budget[w] \in Budget /\ modelCall[w] \in ModelCall /\ bill[w] \in Bill
           /\ Covered(budget[w], modelCall[w], bill[w])
           /\ budget = [budget EXCEPT ![w] = budget[w]]
           /\ bill = [bill EXCEPT ![w] = bill[w]]
  BY DEF MoneySound, MoneyTypeOK

\* A call that is over, however it ended, is covered by its reservation.
LEMMA OverIsCovered ==
    ASSUME NEW b \in Budget, NEW m \in ModelCall, NEW x \in Bill, Covered(b, m, x)
    PROVE  x.requests <= b.calls * Sends
  <1>1. /\ b.calls \in Nat /\ m.attempt \in Nat /\ x.requests \in Nat /\ Sends \in Nat
        /\ MaxRetries \in Nat
    BY LimitsAssumption DEF Budget, ModelCall, Bill, Sends
  <1>2. CASE m.pc = "send"
    <2> DEFINE p == (b.calls - 1) * Sends
    <2>1. /\ b.calls >= 1 /\ x.requests <= p + m.attempt
          /\ m.attempt <= MaxRetries
      BY <1>2 DEF Covered
    <2>2. b.calls - 1 \in Nat
      BY <1>1, <2>1, SMT
    <2>3. p \in Nat /\ p + Sends = b.calls * Sends
      BY <1>1, <2>1, <2>2, OneMoreCall, SMT
    <2> HIDE DEF p
    <2>4. x.requests <= p + Sends
      BY <1>1, <2>1, <2>3, SMT DEF Sends
    <2> QED BY <2>3, <2>4
  <1>3. CASE m.pc # "send"
    BY <1>3 DEF Covered
  <1> QED BY <1>2, <1>3

\* A call in any of its stages starts without an attempt.
LEMMA NoCallIsCall ==
    ASSUME NEW how \in {"none", "send", "register", "answered", "refused", "overrun", "failed", "broken"}
    PROVE  /\ [NoCall EXCEPT !.pc = how] \in ModelCall
           /\ [NoCall EXCEPT !.pc = how].pc = how
           /\ [NoCall EXCEPT !.pc = how].attempt = 0
  BY DEF NoCall, ModelCall

\* The call of a process ends without another request.
LEMMA EndStep ==
    ASSUME MoneySound, NEW w \in Process, NEW how \in Answers \cup {"none"}, Ends(w, how),
           UNCHANGED <<budget, bill>>
    PROVE  MoneySound'
  <1> DEFINE m == [NoCall EXCEPT !.pc = how]
  <1>1. m \in ModelCall /\ m.pc = how /\ m.attempt = 0
    BY NoCallIsCall DEF Answers
  <1>2. how # "send"
    BY DEF Answers
  <1>3. bill[w].requests <= budget[w].calls * Sends
    BY AccountOf, OverIsCovered
  <1>4. modelCall' = [modelCall EXCEPT ![w] = m]
    BY DEF Ends
  <1> HIDE DEF m
  <1>5. Covered(budget[w], m, bill[w])
    BY <1>1, <1>2, <1>3, LimitsAssumption DEF Covered
  <1> QED BY <1>1, <1>4, <1>5, AccountOf, AccountStep

\* Reserving or refusing a call leaves the requests covered.
LEMMA ReserveStep ==
    ASSUME MoneySound, NEW w \in Process, ReserveCall(w) PROVE MoneySound'
  <1> DEFINE b == [budget[w] EXCEPT !.calls = @ + 1]
             m == [NoCall EXCEPT !.pc = "send"]
  <1>1. PICK estimate \in Estimates : Affordable(w, estimate)
    BY DEF ReserveCall
  <1>2. budget[w].calls \in Nat /\ budget[w].cost \in Nat /\ estimate \in Nat
    BY AccountOf, MoneyAssumption, LimitsAssumption DEF Budget
  <1>3. budget[w].calls + 1 <= MaxCalls /\ budget[w].cost <= MaxCost
    BY <1>1, <1>2, LimitsAssumption, SMT DEF Affordable
  <1>4. b \in Budget /\ b.calls = budget[w].calls + 1 /\ b.cost = budget[w].cost
    BY <1>2, <1>3, AccountOf, LimitsAssumption DEF Budget
  <1>5. m \in ModelCall /\ m.pc = "send" /\ m.attempt = 0
    BY NoCallIsCall
  <1>6. bill[w].requests <= budget[w].calls * Sends
    BY AccountOf, OverIsCovered
  <1>7. budget' = [budget EXCEPT ![w] = b] /\ modelCall' = [modelCall EXCEPT ![w] = m]
    BY DEF ReserveCall, Ends, MoneySound, MoneyTypeOK
  <1> HIDE DEF b, m
  <1>8. b.calls - 1 = budget[w].calls /\ b.calls >= 1
    BY <1>2, <1>4, SMT
  <1>9. bill[w].requests \in Nat /\ budget[w].calls * Sends + 0 = budget[w].calls * Sends
    BY <1>2, AccountOf, LimitsAssumption, SMT DEF Bill, Sends
  <1>10. Covered(b, m, bill[w])
    BY <1>3, <1>4, <1>5, <1>6, <1>8, <1>9, LimitsAssumption DEF Covered
  <1> QED BY <1>4, <1>5, <1>7, <1>10, AccountOf, AccountStep DEF ReserveCall

\* One request is sent, of those the call has left.
LEMMA OneRequest ==
    ASSUME MoneySound, NEW w \in Process, Calling(w, "send"), NEW cost \in Costs \cup {0},
           Charge(w, cost)
    PROVE  \E x \in Bill : /\ bill' = [bill EXCEPT ![w] = x]
                           /\ x.requests = bill[w].requests + 1
                           /\ x.requests <= (budget[w].calls - 1) * Sends + modelCall[w].attempt + 1
                           /\ x.requests <= budget[w].calls * Sends
  <1> DEFINE x == [bill[w] EXCEPT !.requests = @ + 1, !.charged = @ + cost]
             p == (budget[w].calls - 1) * Sends
  <1>1. /\ bill[w].requests \in Nat /\ bill[w].charged \in Nat /\ cost \in Nat
        /\ budget[w].calls \in Nat /\ modelCall[w].attempt \in Nat
        /\ Sends \in Nat /\ MaxRetries \in Nat
    BY AccountOf, MoneyAssumption, LimitsAssumption DEF Bill, Budget, ModelCall, Sends
  <1>2. x \in Bill /\ x.requests = bill[w].requests + 1
    <2>1. bill[w].requests + 1 \in Nat /\ bill[w].charged + cost \in Nat
      BY <1>1
    <2>2. bill[w] \in Bill
      BY AccountOf
    <2> QED BY <2>1, <2>2 DEF Bill
  <1>3. bill' = [bill EXCEPT ![w] = x]
    BY DEF Charge, MoneySound, MoneyTypeOK
  <1>4. /\ bill[w].requests <= p + modelCall[w].attempt /\ budget[w].calls >= 1
        /\ modelCall[w].attempt <= MaxRetries
    BY AccountOf DEF Covered, Calling
  <1>5. budget[w].calls - 1 \in Nat
    BY <1>1, <1>4, SMT
  <1>6. p \in Nat /\ p + Sends = budget[w].calls * Sends
    BY <1>1, <1>4, <1>5, OneMoreCall, SMT
  <1> HIDE DEF x, p
  <1>7. x.requests <= p + modelCall[w].attempt + 1 /\ x.requests <= p + Sends
    BY <1>1, <1>2, <1>4, <1>6, SMT DEF Sends
  <1>8. x.requests <= budget[w].calls * Sends
    BY <1>6, <1>7
  <1> QED BY <1>2, <1>3, <1>7, <1>8 DEF p

\* A request, an answer, a retry or a registration leaves them covered.
LEMMA AwaitStep ==
    ASSUME MoneySound, NEW w \in Process, Await(w) PROVE MoneySound'
  <1>0. /\ budget[w] \in Budget /\ modelCall[w] \in ModelCall /\ bill[w] \in Bill
        /\ budget[w].cost \in Nat /\ modelCall[w].attempt \in Nat /\ modelCall[w].cost \in Nat
        /\ budget = [budget EXCEPT ![w] = budget[w]]
        /\ bill = [bill EXCEPT ![w] = bill[w]]
        /\ MaxRetries \in Nat
    BY AccountOf, LimitsAssumption DEF Budget, ModelCall
  <1>1. CASE Retry(w)
    <2> DEFINE m == [modelCall[w] EXCEPT !.attempt = @ + 1]
    <2>1. PICK cost \in Costs \cup {0} : Charge(w, cost)
      BY <1>1 DEF Retry
    <2>2. Calling(w, "send") /\ modelCall[w].attempt < MaxRetries
      BY <1>1 DEF Retry
    <2>3. PICK x \in Bill : /\ bill' = [bill EXCEPT ![w] = x]
                            /\ x.requests <= (budget[w].calls - 1) * Sends + modelCall[w].attempt + 1
      BY <2>1, <2>2, OneRequest
    <2>4. m \in ModelCall /\ m.pc = "send" /\ m.attempt = modelCall[w].attempt + 1
      BY <1>0, <2>2 DEF ModelCall, Calling
    <2>5. modelCall' = [modelCall EXCEPT ![w] = m]
      BY <1>1 DEF Retry, MoneySound, MoneyTypeOK
    <2> HIDE DEF m
    <2>6. m.attempt <= MaxRetries
      BY <1>0, <2>2, <2>4, SMT
    <2>7. budget[w].cost <= MaxCost /\ budget[w].calls >= 1
      BY <2>2, AccountOf DEF Covered, Calling
    <2>8. x.requests <= (budget[w].calls - 1) * Sends + m.attempt
      <3> DEFINE p == (budget[w].calls - 1) * Sends
      <3>0. budget[w].calls - 1 \in Nat /\ Sends \in Nat
        BY <1>0, <2>7, LimitsAssumption, SMT DEF Budget, Sends
      <3>1. p \in Nat
        BY <3>0, SMT
      <3> HIDE DEF p
      <3>2. x.requests <= p + modelCall[w].attempt + 1
        BY <2>3 DEF p
      <3>3. p + modelCall[w].attempt + 1 = p + m.attempt
        BY <1>0, <2>4, <3>1, SMT
      <3> QED BY <3>2, <3>3 DEF p
    <2>9. Covered(budget[w], m, x)
      BY <2>4, <2>6, <2>7, <2>8 DEF Covered
    <2> QED BY <1>0, <1>1, <2>3, <2>4, <2>5, <2>9, AccountStep DEF Retry
  <1>2. ASSUME NEW m \in ModelCall, m.pc # "send", m.attempt <= MaxRetries, Calling(w, "send"),
               NEW cost \in Costs \cup {0}, Charge(w, cost),
               modelCall' = [modelCall EXCEPT ![w] = m], UNCHANGED budget
        PROVE  MoneySound'
    <2>1. PICK x \in Bill : /\ bill' = [bill EXCEPT ![w] = x]
                            /\ x.requests <= budget[w].calls * Sends
      BY <1>2, OneRequest
    <2>2. Covered(budget[w], m, x)
      BY <1>2, <2>1 DEF Covered
    <2> QED BY <1>0, <1>2, <2>1, <2>2, AccountStep
  <1>3. CASE Respond(w)
    <2>1. PICK cost \in Costs :
            /\ Charge(w, cost)
            /\ modelCall' = [modelCall EXCEPT ![w].pc = "register", ![w].cost = cost]
      BY <1>3 DEF Respond
    <2> DEFINE m == [modelCall[w] EXCEPT !.pc = "register", !.cost = cost]
    <2>2. cost \in Nat
      BY MoneyAssumption
    <2>3. m \in ModelCall /\ m.pc = "register" /\ m.attempt = modelCall[w].attempt
      BY <1>0, <2>2 DEF ModelCall
    <2>4. modelCall' = [modelCall EXCEPT ![w] = m]
      BY <2>1 DEF MoneySound, MoneyTypeOK
    <2>5. modelCall[w].attempt <= MaxRetries
      BY AccountOf DEF Covered
    <2> HIDE DEF m
    <2>6. Calling(w, "send") /\ UNCHANGED budget
      BY <1>3 DEF Respond
    <2> QED BY <1>2, <2>1, <2>3, <2>4, <2>5, <2>6
  <1>4. CASE GiveUp(w) \/ Disconnect(w)
    <2>1. PICK how \in {"failed", "broken"}, cost \in Costs \cup {0} :
            Charge(w, cost) /\ modelCall' = [modelCall EXCEPT ![w] = [NoCall EXCEPT !.pc = how]]
      BY <1>4 DEF GiveUp, Disconnect, Ends
    <2> DEFINE m == [NoCall EXCEPT !.pc = how]
    <2>2. m \in ModelCall /\ m.pc = how /\ m.attempt = 0
      BY NoCallIsCall
    <2> HIDE DEF m
    <2>3. m.pc # "send" /\ m.attempt <= MaxRetries
      BY <1>0, <2>2
    <2>4. modelCall' = [modelCall EXCEPT ![w] = m]
      BY <2>1 DEF m
    <2>5. Calling(w, "send") /\ UNCHANGED budget
      BY <1>4 DEF GiveUp, Disconnect
    <2> QED BY <1>2, <2>1, <2>2, <2>3, <2>4, <2>5
  <1>5. CASE NoCredential(w)
    <2>1. Ends(w, "failed") /\ UNCHANGED <<budget, bill>>
      BY <1>5 DEF NoCredential
    <2> QED BY <2>1, EndStep DEF Answers
  <1>6. CASE RegisterCost(w)
    <2> DEFINE b == [budget[w] EXCEPT !.cost = budget[w].cost + modelCall[w].cost]
    <2>1. PICK how \in {"overrun", "answered"} :
            modelCall' = [modelCall EXCEPT ![w] = [NoCall EXCEPT !.pc = how]]
      BY <1>6 DEF RegisterCost, Ends
    <2> DEFINE m == [NoCall EXCEPT !.pc = how]
    <2>2. m \in ModelCall /\ m.pc = how /\ m.attempt = 0
      BY NoCallIsCall
    <2>3. b \in Budget /\ b.calls = budget[w].calls
      BY <1>0 DEF Budget
    <2>4. budget' = [budget EXCEPT ![w] = b]
      BY <1>6 DEF RegisterCost, MoneySound, MoneyTypeOK
    <2>5. modelCall' = [modelCall EXCEPT ![w] = m] /\ bill' = bill
      BY <1>6, <2>1 DEF RegisterCost
    <2> HIDE DEF b, m
    <2>6. bill[w].requests <= b.calls * Sends
      BY <2>3, AccountOf, OverIsCovered
    <2>7. Covered(b, m, bill[w])
      BY <1>0, <2>2, <2>6 DEF Covered
    <2> QED BY <1>0, <2>2, <2>3, <2>4, <2>5, <2>7, AccountStep
  <1> QED BY <1>1, <1>3, <1>4, <1>5, <1>6 DEF Await

\* At the start nothing has been sent.
LEMMA MoneyStart == MoneyInit => MoneySound
  <1> SUFFICES ASSUME MoneyInit PROVE MoneySound
    OBVIOUS
  <1>1. NoBudgetUsed \in Budget /\ NoCall \in ModelCall /\ NoBill \in Bill
    BY LimitsAssumption DEF NoBudgetUsed, Budget, NoCall, ModelCall, NoBill, Bill
  <1>2. Covered(NoBudgetUsed, NoCall, NoBill)
    BY LimitsAssumption, SMT DEF Covered, NoBudgetUsed, NoCall, NoBill, Sends
  <1> QED BY <1>1, <1>2 DEF MoneyInit, MoneySound, MoneyTypeOK

\* No step of a process, whatever it does, takes the account out of its limits.
LEMMA MoneyStep ==
    ASSUME MoneySound, [Next]_vars PROVE MoneySound'
  <1>1. ASSUME UNCHANGED money PROVE MoneySound'
    BY <1>1 DEF money, MoneySound, MoneyTypeOK
  <1>2. ASSUME NEW w \in Process, NEW d \in Document, NEW p \in Partner, Begin(w, d, p)
        PROVE  MoneySound'
    <2>1. NoBudgetUsed \in Budget /\ NoCall \in ModelCall /\ NoBill \in Bill
      BY LimitsAssumption DEF NoBudgetUsed, Budget, NoCall, ModelCall, NoBill, Bill
    <2>2. Covered(NoBudgetUsed, NoCall, NoBill)
      BY LimitsAssumption, SMT DEF Covered, NoBudgetUsed, NoCall, NoBill, Sends
    <2> QED BY <1>2, <2>1, <2>2, AccountStep DEF Begin
  <1>3. ASSUME NEW w \in Process, ReserveCall(w) \/ RefuseCall(w) PROVE MoneySound'
    <2>1. CASE RefuseCall(w)
      BY <2>1, EndStep DEF RefuseCall, Answers
    <2> QED BY <1>3, <2>1, ReserveStep
  <1>4. ASSUME NEW w \in Process, Ends(w, "none"), UNCHANGED <<budget, bill>> PROVE MoneySound'
    BY <1>4, EndStep
  <1>5. ASSUME NEW w \in Process, Carry(w) PROVE MoneySound'
    <2>1. CASE ParserSucceeds(w) \/ ParserFails(w) \/ SaveInvoiceDocument(w) \/ AllDecided(w) \/ Finish(w)
      BY <1>1, <2>1 DEF ParserSucceeds, ParserFails, SaveInvoiceDocument, AllDecided, Finish
    <2>2. ASSUME NEW l \in LineId, LineIsKnown(w, l) \/ LinkInvoiceDecision(w, l) PROVE MoneySound'
      BY <1>1, <2>2 DEF LineIsKnown, LinkInvoiceDecision
    <2>3. CASE AskForExtraction(w)
      BY <1>3, <2>3 DEF AskForExtraction
    <2>4. ASSUME NEW l \in LineId, LineAsksModel(w, l) PROVE MoneySound'
      BY <1>3, <2>4 DEF LineAsksModel
    <2>5. CASE Extracted(w) \/ ExtractionFails(w) \/ LineIsDecided(w) \/ LineFails(w)
      BY <1>4, <2>5 DEF Extracted, ExtractionFails, LineIsDecided, LineFails
    <2>6. CASE Await(w)
      BY <2>6, AwaitStep
    <2> QED BY <1>5, <2>1, <2>2, <2>3, <2>4, <2>5, <2>6 DEF Carry
  <1>6. ASSUME NEW w \in Process, Crash(w) PROVE MoneySound'
    BY <1>4, <1>6 DEF Crash
  <1>7. CASE UNCHANGED vars
    BY <1>1, <1>7 DEF vars
  <1> QED BY <1>2, <1>5, <1>6, <1>7 DEF Next

\* The requests of every process are covered throughout.
LEMMA MoneyIsSound == Spec => []MoneySound
  <1>1. Init => MoneySound
    BY MoneyStart DEF Init
  <1>2. MoneySound /\ [Next]_vars => MoneySound'
    BY MoneyStep
  <1> QED BY <1>1, <1>2, PTL DEF Spec

\* No call of a model is under way on a budget that is used up, whatever
\* answers cost.
THEOREM BudgetStops == Spec => []BudgetStopsCalls
  <1>1. MoneySound => BudgetStopsCalls
    BY DEF MoneySound, Covered, BudgetStopsCalls, Calling
  <1> QED BY <1>1, MoneyIsSound, PTL

\* A document costs a bounded number of requests, however often the provider
\* fails and whenever processes die.
THEOREM RequestsBounded == Spec => []RequestsAreBounded
  <1>1. ASSUME MoneySound, NEW w \in Process
        PROVE  bill[w].requests <= MaxCalls * (MaxRetries + 1)
    <2>1. /\ bill[w].requests \in Nat /\ budget[w].calls \in Nat /\ budget[w].calls <= MaxCalls
          /\ MaxCalls \in Nat /\ Sends \in Nat
      BY <1>1, AccountOf, LimitsAssumption DEF Bill, Budget, Sends
    <2>2. bill[w].requests <= budget[w].calls * Sends
      BY <1>1, AccountOf, OverIsCovered
    <2>3. budget[w].calls * Sends <= MaxCalls * Sends
      BY <2>1, CallsMonotone
    <2> DEFINE p == budget[w].calls * Sends
               q == MaxCalls * Sends
    <2>4. p \in Nat /\ q \in Nat
      BY <2>1, SMT
    <2> HIDE DEF p, q
    <2>5. bill[w].requests <= q
      BY <2>1, <2>2, <2>3, <2>4 DEF p, q
    <2> QED BY <2>5 DEF q, Sends
  <1>2. MoneySound => RequestsAreBounded
    BY <1>1 DEF RequestsAreBounded
  <1> QED BY <1>2, MoneyIsSound, PTL

-----------------------------------------------------------------------------
(* Jobs and tables *)

\* A job knows its document from the beginning to the end.
Fit(j) ==
    /\ j \in Job
    /\ j.pc \notin {"idle", "failed"} => j.document \in Document
    /\ j.pc \notin {"idle", "failed", "finished"} => j.partner \in Partner

\* While nobody has saved a document since process w did, its rows are those w
\* has read, and the ones that w has gone through are linked.
LinkedFor(j, w, st, sb) ==
    j.pc \in {"lines", "asking", "link", "finished"} /\ sb[j.document] = w =>
        \A l \in LineId : st[j.document][l].text # None =>
            /\ j.pc # "finished" => l \in LinesOf(j.reading)
            /\ j.pc = "link" /\ l \notin j.todo => st[j.document][l].decided # Undecided
            /\ j.pc = "finished" => st[j.document][l].decided # Undecided

RowsTyped ==
    /\ documents \in [Document -> Parser]
    /\ stored \in [Document -> [LineId -> Line]]
    /\ begun \in 0..MaxBegun
    /\ savedBy \in [Document -> Process \cup {None}]

JobsSound ==
    /\ job \in [Process -> Job]
    /\ \A w \in Process : Fit(job[w]) /\ LinkedFor(job[w], w, stored, savedBy)

Ingestion == MoneySound /\ RowsTyped /\ JobsSound

\* What a step of another process may do to the documents that v saved last.
TablesStay(v) ==
    \A d \in Document : savedBy'[d] = v =>
        /\ savedBy[d] = v
        /\ \A l \in LineId :
              /\ stored'[d][l].text # None => stored[d][l].text # None
              /\ stored[d][l].decided # Undecided => stored'[d][l].decided # Undecided

\* The links a job relies on survive steps that leave its tables alone.
LEMMA LinksStay ==
    ASSUME NEW v \in Process, NEW j, Fit(j), LinkedFor(j, v, stored, savedBy), TablesStay(v)
    PROVE  LinkedFor(j, v, stored', savedBy')
  <1> SUFFICES ASSUME j.pc \in {"lines", "asking", "link", "finished"}, savedBy'[j.document] = v,
                      NEW l \in LineId, stored'[j.document][l].text # None
               PROVE  /\ j.pc # "finished" => l \in LinesOf(j.reading)
                      /\ j.pc = "link" /\ l \notin j.todo => stored'[j.document][l].decided # Undecided
                      /\ j.pc = "finished" => stored'[j.document][l].decided # Undecided
    BY DEF LinkedFor
  <1>1. j.document \in Document
    BY DEF Fit
  <1>2. savedBy[j.document] = v /\ stored[j.document][l].text # None
    BY <1>1 DEF TablesStay
  <1>3. stored[j.document][l].decided # Undecided => stored'[j.document][l].decided # Undecided
    BY <1>1 DEF TablesStay
  <1> QED BY <1>2, <1>3 DEF LinkedFor

\* The job of one process goes on.
LEMMA JobStep ==
    ASSUME JobsSound, NEW w \in Process, NEW next, Go(w, next), Fit(next),
           LinkedFor(next, w, stored', savedBy'),
           \A v \in Process \ {w} : TablesStay(v)
    PROVE  JobsSound'
  <1>1. job \in [Process -> Job] /\ next \in Job /\ job' = [job EXCEPT ![w] = next]
    BY DEF JobsSound, Fit, Go
  <1>2. job' \in [Process -> Job] /\ job'[w] = next /\ \A v \in Process \ {w} : job'[v] = job[v]
    BY <1>1
  <1>3. ASSUME NEW v \in Process PROVE Fit(job'[v]) /\ LinkedFor(job'[v], v, stored', savedBy')
    <2>1. CASE v = w
      BY <1>2, <2>1
    <2>2. CASE v # w
      <3>1. PICK j : j = job[v]
        OBVIOUS
      <3>2. Fit(j) /\ LinkedFor(j, v, stored, savedBy) /\ job'[v] = j
        BY <1>2, <2>2, <3>1 DEF JobsSound
      <3>3. TablesStay(v)
        BY <2>2
      <3>4. LinkedFor(j, v, stored', savedBy')
        BY <3>2, <3>3, LinksStay
      <3> QED BY <3>2, <3>4
    <2> QED BY <2>1, <2>2
  <1> QED BY <1>2, <1>3 DEF JobsSound, Fit, LinkedFor

\* A step that writes no table leaves them alone for everyone.
LEMMA SameTablesStay ==
    ASSUME UNCHANGED <<stored, savedBy>>, NEW v \in Process PROVE TablesStay(v)
  BY DEF TablesStay

\* A job that goes on without touching the tables, and has not begun to save.
LEMMA QuietStep ==
    ASSUME JobsSound, UNCHANGED <<stored, savedBy>>, NEW w \in Process, NEW next, Go(w, next),
           Fit(next), next.pc \notin {"lines", "asking", "link", "finished"}
    PROVE  JobsSound'
  <1>1. LinkedFor(next, w, stored', savedBy')
    BY DEF LinkedFor
  <1> QED BY <1>1, JobStep, SameTablesStay

\* One that has begun: it keeps document and reading.
LEMMA LaterStep ==
    ASSUME JobsSound, UNCHANGED <<stored, savedBy>>, NEW w \in Process, NEW next, Go(w, next),
           Fit(next), LinkedFor(next, w, stored, savedBy)
    PROVE  JobsSound'
  <1>1. LinkedFor(next, w, stored', savedBy')
    BY DEF LinkedFor
  <1> QED BY <1>1, JobStep, SameTablesStay

\* A process at rest, or that has failed, has a job that fits.
LEMMA RestIsJob ==
    /\ Rest \in Job /\ Unread \in Reading
    /\ Fit([Rest EXCEPT !.pc = "failed"])
    /\ [Rest EXCEPT !.pc = "failed"].pc = "failed"
  BY DEF Rest, Job, Reading, Unread, Parser, Fit

\* Failing gives up every claim to links, and leaves those of others.
LEMMA FailJob ==
    ASSUME JobsSound, UNCHANGED <<stored, savedBy>>, NEW w \in Process, Fail(w)
    PROVE  JobsSound'
  BY RestIsJob, QuietStep DEF Fail

\* What the invariant says of one job.
LEMMA CurrentJob ==
    ASSUME JobsSound, NEW w \in Process
    PROVE  Fit(job[w]) /\ LinkedFor(job[w], w, stored, savedBy)
  BY DEF JobsSound

\* Reading a document, natively or by the model, keeps jobs sound.
LEMMA ReadingJobs ==
    ASSUME JobsSound, NEW w \in Process,
           \/ \E d \in Document, p \in Partner : Begin(w, d, p)
           \/ ParserSucceeds(w) \/ ParserFails(w)
           \/ AskForExtraction(w) \/ Extracted(w) \/ ExtractionFails(w)
    PROVE  JobsSound'
  <1>1. ASSUME NEW d \in Document, NEW p \in Partner, Begin(w, d, p) PROVE JobsSound'
    <2>1. PICK next : next = [Rest EXCEPT !.pc = "parse", !.document = d, !.partner = p]
      OBVIOUS
    <2>2. Fit(next) /\ next.pc = "parse"
      BY <2>1, RestIsJob DEF Rest, Fit, Job
    <2> QED BY <1>1, <2>1, <2>2, QuietStep DEF Begin, tables
  <1>2. PICK j : j = job[w]
    OBVIOUS
  <1>3. Fit(j) /\ j \in Job
    BY <1>2, CurrentJob DEF Fit
  <1>4. CASE ParserSucceeds(w)
    <2>1. PICK next : next = [j EXCEPT !.pc = "save", !.parser = "native", !.reading = Native[j.document]]
      OBVIOUS
    <2>2. j.document \in Document /\ j.partner \in Partner
      BY <1>2, <1>3, <1>4 DEF ParserSucceeds, Doing, Fit
    <2>3. Fit(next) /\ next.pc = "save"
      BY <1>3, <2>1, <2>2, NativeAssumption DEF Fit, Job, Parser
    <2> QED BY <1>2, <1>4, <2>1, <2>3, QuietStep DEF ParserSucceeds, tables
  <1>5. ASSUME NEW from \in {"parse", "extract"}, NEW to \in {"extract", "extracting"},
               j.pc = from, UNCHANGED <<stored, savedBy>>, Go(w, [job[w] EXCEPT !.pc = to])
        PROVE  JobsSound'
    <2>1. PICK next : next = [j EXCEPT !.pc = to]
      OBVIOUS
    <2>2. Fit(next) /\ next.pc = to
      BY <1>3, <1>5, <2>1 DEF Fit, Job
    <2> QED BY <1>2, <1>5, <2>1, <2>2, QuietStep
  <1>6. CASE ParserFails(w)
    <2>1. j.pc = "parse" /\ UNCHANGED <<stored, savedBy>>
      BY <1>2, <1>6 DEF ParserFails, Doing, tables
    <2>2. CASE Fail(w)
      BY <2>1, <2>2, FailJob
    <2>3. CASE Go(w, [job[w] EXCEPT !.pc = "extract"])
      BY <1>5, <2>1, <2>3
    <2> QED BY <1>6, <2>2, <2>3 DEF ParserFails
  <1>7. CASE AskForExtraction(w)
    <2>1. j.pc = "extract" /\ UNCHANGED <<stored, savedBy>> /\ Go(w, [job[w] EXCEPT !.pc = "extracting"])
      BY <1>2, <1>7 DEF AskForExtraction, Doing, tables
    <2> QED BY <1>5, <2>1
  <1>8. CASE Extracted(w)
    <2>1. j.pc = "extracting" /\ UNCHANGED <<stored, savedBy>>
      BY <1>2, <1>8 DEF Extracted, Doing, tables
    <2>2. PICK r \in Readings :
            IF r.sound
              THEN Go(w, [job[w] EXCEPT !.pc = "save", !.parser = "model", !.reading = r.lines])
              ELSE Fail(w)
      BY <1>8 DEF Extracted
    <2>3. CASE r.sound
      <3>1. PICK next : next = [j EXCEPT !.pc = "save", !.parser = "model", !.reading = r.lines]
        OBVIOUS
      <3>2. r.lines \in Reading
        BY ReadingsAssumption
      <3>3. Fit(next) /\ next.pc = "save"
        BY <1>3, <2>1, <3>1, <3>2 DEF Fit, Job, Parser
      <3> QED BY <1>2, <2>1, <2>2, <2>3, <3>1, <3>3, QuietStep
    <2>4. CASE ~r.sound
      BY <2>1, <2>2, <2>4, FailJob
    <2> QED BY <2>3, <2>4
  <1>9. CASE ExtractionFails(w)
    BY <1>9, FailJob DEF ExtractionFails, tables
  <1> QED BY <1>1, <1>4, <1>6, <1>7, <1>8, <1>9

\* Saving replaces the rows, so that only the saver may claim links to them.
LEMMA SaveJob ==
    ASSUME JobsSound, RowsTyped, NEW w \in Process, SaveInvoiceDocument(w)
    PROVE  JobsSound' /\ RowsTyped'
  <1>1. PICK j : j = job[w]
    OBVIOUS
  <1>2. /\ j \in Job /\ Fit(j) /\ j.pc = "save" /\ j.document \in Document /\ j.partner \in Partner
        /\ j.parser \in Parser /\ j.reading \in Reading
    BY <1>1, CurrentJob DEF SaveInvoiceDocument, Doing, Fit, Job
  <1> DEFINE d == j.document
             lines == LinesOf(j.reading)
             fresh == [l \in LineId |-> IF l \in lines THEN FreshLine(w, l) ELSE NoLine]
  <1>3. /\ documents' = [documents EXCEPT ![d] = j.parser]
        /\ stored' = [stored EXCEPT ![d] = fresh]
        /\ savedBy' = [savedBy EXCEPT ![d] = w]
        /\ Go(w, [j EXCEPT !.pc = "lines", !.todo = lines])
        /\ begun' = begun
    BY <1>1 DEF SaveInvoiceDocument
  <1>4. fresh \in [LineId -> Line]
    <2>1. \A l \in LineId : FreshLine(w, l) \in Line
      BY <1>1, <1>2 DEF FreshLine, Line, Undecided, Reading
    <2>2. NoLine \in Line
      BY DEF NoLine, Line, Undecided
    <2> QED BY <2>1, <2>2
  <1>5. \A l \in LineId : fresh[l].text # None => l \in lines
    BY DEF NoLine
  <1> HIDE DEF fresh
  <1>6. RowsTyped'
    BY <1>2, <1>3, <1>4 DEF RowsTyped
  <1>7. stored'[d] = fresh
    BY <1>2, <1>3 DEF RowsTyped
  <1>8. PICK next : next = [j EXCEPT !.pc = "lines", !.todo = lines]
    OBVIOUS
  <1>9. /\ Fit(next) /\ next.pc = "lines" /\ next.document = d /\ next.reading = j.reading
    BY <1>2, <1>8 DEF Fit, Job, LinesOf
  <1>10. LinkedFor(next, w, stored', savedBy')
    BY <1>5, <1>7, <1>9 DEF LinkedFor
  <1>11. ASSUME NEW v \in Process \ {w} PROVE TablesStay(v)
    <2>1. \A e \in Document : savedBy'[e] = v => e # d /\ savedBy[e] = v /\ stored'[e] = stored[e]
      BY <1>2, <1>3, <1>11 DEF RowsTyped
    <2> QED BY <2>1 DEF TablesStay
  <1> QED BY <1>3, <1>6, <1>8, <1>9, <1>10, <1>11, JobStep

\* Going through the lines, finishing and crashing keep jobs sound.
LEMMA LineJobs ==
    ASSUME JobsSound, NEW w \in Process,
           \/ \E l \in LineId : LineIsKnown(w, l) \/ LineAsksModel(w, l)
           \/ LineIsDecided(w) \/ LineFails(w) \/ AllDecided(w) \/ Finish(w) \/ Crash(w)
    PROVE  JobsSound'
  <1>1. PICK j : j = job[w]
    OBVIOUS
  <1>2. j \in Job /\ Fit(j) /\ LinkedFor(j, w, stored, savedBy)
    BY <1>1, CurrentJob DEF Fit
  <1>3. UNCHANGED <<stored, savedBy>>
    BY DEF LineIsKnown, LineAsksModel, LineIsDecided, LineFails, AllDecided, Finish, Crash, tables
  <1>4. ASSUME NEW to \in {"lines", "asking"}, NEW todo \in SUBSET LineId,
               j.pc \in {"lines", "asking"},
               Go(w, [j EXCEPT !.pc = to, !.todo = todo])
        PROVE  JobsSound'
    <2>1. PICK next : next = [j EXCEPT !.pc = to, !.todo = todo]
      OBVIOUS
    <2>2. /\ Fit(next) /\ next.pc = to /\ next.document = j.document /\ next.reading = j.reading
      BY <1>2, <1>4, <2>1 DEF Fit, Job
    <2>3. LinkedFor(next, w, stored, savedBy)
      BY <1>2, <1>4, <2>2 DEF LinkedFor
    <2> QED BY <1>3, <1>4, <2>1, <2>2, <2>3, LaterStep
  <1>5. ASSUME NEW l \in LineId, LineIsKnown(w, l) PROVE JobsSound'
    <2>1. j.pc = "lines" /\ j.todo \ {l} \in SUBSET LineId
      BY <1>1, <1>2, <1>5 DEF LineIsKnown, Doing, Job
    <2>2. Go(w, [j EXCEPT !.pc = "lines", !.todo = j.todo \ {l}])
      <3>1. [j EXCEPT !.todo = j.todo \ {l}] = [j EXCEPT !.pc = "lines", !.todo = j.todo \ {l}]
        BY <1>2, <2>1 DEF Job
      <3> QED BY <1>1, <1>5, <3>1 DEF LineIsKnown
    <2> QED BY <1>4, <2>1, <2>2
  <1>6. ASSUME NEW l \in LineId, LineAsksModel(w, l) PROVE JobsSound'
    <2>1. /\ j.pc = "lines" /\ j.todo \ {l} \in SUBSET LineId
          /\ Go(w, [j EXCEPT !.pc = "asking", !.todo = j.todo \ {l}])
      BY <1>1, <1>2, <1>6 DEF LineAsksModel, Doing, Job
    <2> QED BY <1>4, <2>1
  <1>7. CASE LineIsDecided(w)
    <2>1. j.pc = "asking" /\ j.todo \in SUBSET LineId
      BY <1>1, <1>2, <1>7 DEF LineIsDecided, Doing, Job
    <2>2. [j EXCEPT !.pc = "lines"] = [j EXCEPT !.pc = "lines", !.todo = j.todo]
      BY <1>2 DEF Job
    <2>3. Go(w, [j EXCEPT !.pc = "lines", !.todo = j.todo])
      BY <1>1, <1>7, <2>2 DEF LineIsDecided
    <2> QED BY <1>4, <2>1, <2>3
  <1>8. CASE LineFails(w) \/ Crash(w)
    BY <1>3, <1>8, FailJob DEF LineFails, Crash
  <1>9. CASE AllDecided(w)
    <2>1. PICK next : next = [j EXCEPT !.pc = "link", !.todo = LinesOf(j.reading)]
      OBVIOUS
    <2>2. j.pc = "lines"
      BY <1>1, <1>9 DEF AllDecided, Doing
    <2>3. /\ Fit(next) /\ next.pc = "link" /\ next.document = j.document /\ next.reading = j.reading
          /\ next.todo = LinesOf(j.reading)
      BY <1>2, <2>1, <2>2 DEF Fit, Job, LinesOf
    <2>4. LinkedFor(next, w, stored, savedBy)
      BY <1>2, <2>2, <2>3 DEF LinkedFor
    <2> QED BY <1>1, <1>3, <1>9, <2>1, <2>3, <2>4, LaterStep DEF AllDecided
  <1>10. CASE Finish(w)
    <2>1. PICK next : next = [Rest EXCEPT !.pc = "finished", !.document = j.document]
      OBVIOUS
    <2>2. j.pc = "link" /\ j.todo = {} /\ j.document \in Document
      BY <1>1, <1>2, <1>10 DEF Finish, Doing, Fit
    <2>3. Fit(next) /\ next.pc = "finished" /\ next.document = j.document
      BY <2>1, <2>2, RestIsJob DEF Fit, Job, Rest
    <2>4. LinkedFor(next, w, stored, savedBy)
      BY <1>2, <2>2, <2>3 DEF LinkedFor
    <2> QED BY <1>1, <1>3, <1>10, <2>1, <2>3, <2>4, LaterStep DEF Finish
  <1> QED BY <1>5, <1>6, <1>7, <1>8, <1>9, <1>10

\* A link decides its line, whoever stored it, and undoes no other link.
LEMMA LinkJob ==
    ASSUME JobsSound, RowsTyped, NEW w \in Process, NEW l \in LineId, LinkInvoiceDecision(w, l)
    PROVE  JobsSound' /\ RowsTyped'
  <1>1. PICK j : j = job[w]
    OBVIOUS
  <1>2. /\ j \in Job /\ Fit(j) /\ LinkedFor(j, w, stored, savedBy)
        /\ j.pc = "link" /\ j.document \in Document /\ j.partner \in Partner
    BY <1>1, CurrentJob DEF LinkInvoiceDecision, Doing, Fit
  <1> DEFINE d == j.document
             decision == [text |-> j.reading[l], partner |-> j.partner]
  <1>3. decision \in [text : Text \cup {None}, partner : Partner \cup {None}]
    BY <1>2 DEF Job, Reading
  <1>4. decision # Undecided
    <2>1. decision.partner # None
      BY <1>2, NoneAssumption
    <2> QED BY <2>1 DEF Undecided
  <1>5. /\ stored' = IF stored[d][l].text = None THEN stored
                     ELSE [stored EXCEPT ![d][l].decided = decision]
        /\ Go(w, [j EXCEPT !.todo = j.todo \ {l}])
        /\ UNCHANGED <<documents, begun, savedBy>>
    BY <1>1 DEF LinkInvoiceDecision
  <1> HIDE DEF decision
  <1>6. stored \in [Document -> [LineId -> Line]]
    BY DEF RowsTyped
  <1>7. /\ stored' \in [Document -> [LineId -> Line]]
        /\ \A e \in Document, m \in LineId :
              /\ stored'[e][m].text = stored[e][m].text
              /\ stored'[e][m].decided =
                   IF e = d /\ m = l /\ stored[d][l].text # None THEN decision
                   ELSE stored[e][m].decided
    <2>1. CASE stored[d][l].text = None
      BY <1>5, <1>6, <2>1
    <2>2. CASE stored[d][l].text # None
      <3>1. PICK row : row = [stored[d][l] EXCEPT !.decided = decision]
        OBVIOUS
      <3>2. stored[d][l] \in Line
        BY <1>2, <1>6
      <3>3. row \in Line /\ row.text = stored[d][l].text /\ row.decided = decision
        BY <1>3, <3>1, <3>2 DEF Line
      <3>4. stored' = [stored EXCEPT ![d] = [stored[d] EXCEPT ![l] = row]]
        BY <1>2, <1>5, <1>6, <2>2, <3>1
      <3>5. PICK table : table = [stored[d] EXCEPT ![l] = row]
        OBVIOUS
      <3>6. /\ table \in [LineId -> Line] /\ table[l] = row
            /\ \A m \in LineId \ {l} : table[m] = stored[d][m]
        BY <1>2, <1>6, <3>3, <3>5
      <3>7. /\ stored' \in [Document -> [LineId -> Line]] /\ stored'[d] = table
            /\ \A e \in Document \ {d} : stored'[e] = stored[e]
        BY <1>2, <1>6, <3>4, <3>5, <3>6
      <3> QED BY <2>2, <3>3, <3>6, <3>7
    <2> QED BY <2>1, <2>2
  <1>8. RowsTyped'
    BY <1>5, <1>7 DEF RowsTyped
  <1>9. ASSUME NEW v \in Process PROVE TablesStay(v)
    BY <1>4, <1>5, <1>7 DEF TablesStay
  <1>10. PICK next : next = [j EXCEPT !.todo = j.todo \ {l}]
    OBVIOUS
  <1>11. /\ Fit(next) /\ next.pc = "link" /\ next.document = d /\ next.reading = j.reading
         /\ next.todo = j.todo \ {l}
    BY <1>2, <1>10 DEF Fit, Job
  <1>12. LinkedFor(j, w, stored', savedBy')
    BY <1>2, <1>9, LinksStay
  <1>13. LinkedFor(next, w, stored', savedBy')
    <2>1. stored'[d][l].text # None => stored'[d][l].decided # Undecided
      BY <1>2, <1>4, <1>7
    <2> QED BY <1>2, <1>11, <1>12, <2>1 DEF LinkedFor
  <1> QED BY <1>5, <1>8, <1>9, <1>10, <1>11, <1>13, JobStep

\* Tables that do not change keep their types.
LEMMA SameRows ==
    ASSUME RowsTyped, UNCHANGED <<documents, stored, savedBy>>, begun' \in 0..MaxBegun
    PROVE  RowsTyped'
  BY DEF RowsTyped

\* The initial states satisfy the invariant.
LEMMA IngestionStart == Init => Ingestion
  <1> SUFFICES ASSUME Init PROVE Ingestion
    OBVIOUS
  <1>1. MoneySound
    BY MoneyStart DEF Init
  <1>2. RowsTyped
    BY MaxBegunAssumption DEF Init, RowsTyped, Parser, NoLine, Line, Undecided
  <1>3. JobsSound
    BY RestIsJob DEF Init, JobsSound, Rest, Fit, LinkedFor
  <1> QED BY <1>1, <1>2, <1>3 DEF Ingestion

\* Every step keeps the invariant.
LEMMA IngestionStep == Ingestion /\ [Next]_vars => Ingestion'
  <1> SUFFICES ASSUME Ingestion, [Next]_vars PROVE Ingestion'
    OBVIOUS
  <1>1. MoneySound' /\ JobsSound /\ RowsTyped
    BY MoneyStep DEF Ingestion
  <1>2. ASSUME UNCHANGED <<tables, savedBy, begun>> PROVE RowsTyped'
    BY <1>1, <1>2, SameRows DEF tables, RowsTyped
  <1>3. ASSUME NEW w \in Process, NEW d \in Document, NEW p \in Partner, Begin(w, d, p)
        PROVE  RowsTyped' /\ JobsSound'
    <2>1. begun' \in 0..MaxBegun /\ UNCHANGED <<documents, stored, savedBy>>
      BY <1>1, <1>3, MaxBegunAssumption DEF Begin, RowsTyped, tables
    <2> QED BY <1>1, <1>3, <2>1, SameRows, ReadingJobs
  <1>4. ASSUME NEW w \in Process, Carry(w) PROVE RowsTyped' /\ JobsSound'
    <2>1. CASE ParserSucceeds(w) \/ ParserFails(w) \/ AskForExtraction(w) \/ Extracted(w) \/ ExtractionFails(w)
      <3>1. UNCHANGED <<tables, savedBy, begun>>
        BY <2>1 DEF ParserSucceeds, ParserFails, AskForExtraction, Extracted, ExtractionFails
      <3> QED BY <1>1, <1>2, <2>1, <3>1, ReadingJobs
    <2>2. CASE SaveInvoiceDocument(w)
      BY <1>1, <2>2, SaveJob
    <2>3. ASSUME NEW l \in LineId, LineIsKnown(w, l) \/ LineAsksModel(w, l)
          PROVE  RowsTyped' /\ JobsSound'
      <3>1. UNCHANGED <<tables, savedBy, begun>>
        BY <2>3 DEF LineIsKnown, LineAsksModel
      <3> QED BY <1>1, <1>2, <2>3, <3>1, LineJobs
    <2>4. ASSUME NEW l \in LineId, LinkInvoiceDecision(w, l) PROVE RowsTyped' /\ JobsSound'
      BY <1>1, <2>4, LinkJob
    <2>5. CASE LineIsDecided(w) \/ LineFails(w) \/ AllDecided(w) \/ Finish(w)
      <3>1. UNCHANGED <<tables, savedBy, begun>>
        BY <2>5 DEF LineIsDecided, LineFails, AllDecided, Finish
      <3> QED BY <1>1, <1>2, <2>5, <3>1, LineJobs
    <2>6. ASSUME UNCHANGED <<tables, job, begun, savedBy>> PROVE RowsTyped' /\ JobsSound'
      BY <1>1, <1>2, <2>6 DEF JobsSound, tables, Fit, LinkedFor
    <2> QED BY <1>4, <2>1, <2>2, <2>3, <2>4, <2>5, <2>6 DEF Carry
  <1>5. ASSUME NEW w \in Process, Crash(w) PROVE RowsTyped' /\ JobsSound'
    BY <1>1, <1>2, <1>5, LineJobs DEF Crash
  <1>6. ASSUME UNCHANGED vars PROVE RowsTyped' /\ JobsSound'
    BY <1>1, <1>2, <1>6 DEF vars, JobsSound, tables, Fit, LinkedFor
  <1>7. RowsTyped' /\ JobsSound'
    BY <1>3, <1>4, <1>5, <1>6 DEF Next
  <1> QED BY <1>1, <1>7 DEF Ingestion

\* The invariant holds throughout.
LEMMA IngestionIsSound == Spec => []Ingestion
  <1>1. Init => Ingestion
    BY IngestionStart
  <1>2. Ingestion /\ [Next]_vars => Ingestion'
    BY IngestionStep
  <1> QED BY <1>1, <1>2, PTL DEF Spec

\* Budgets, jobs and tables keep their types for any number of processes.
THEOREM IngestionTypes == Spec => []TypeOK
  <1>1. Ingestion => TypeOK
    BY DEF Ingestion, MoneySound, RowsTyped, JobsSound, TypeOK
  <1> QED BY <1>1, IngestionIsSound, PTL

\* Whatever other processes save and link meanwhile, a process that finishes
\* on its own rows has left none of them undecided.
THEOREM FinishLinks == Spec => []FinishedIsLinked
  <1>1. Ingestion => FinishedIsLinked
    BY DEF Ingestion, JobsSound, LinkedFor, FinishedIsLinked, Doing
  <1> QED BY <1>1, IngestionIsSound, PTL

-----------------------------------------------------------------------------
(* One reading at a time *)

\* What a job is about to save was read in its document by its parser; a model
\* is only asked for a document that the parser cannot read.
ReadingFits(j) ==
    /\ j.pc \in {"extract", "extracting"} => Native[j.document] = Unread
    /\ j.pc = "save" => ReadAs(j.document, j.parser, j.reading)

OneRead == OneReadingStored /\ \A w \in Process : ReadingFits(job[w])

\* The rows of a document keep their texts and partners.
RowsKept ==
    /\ UNCHANGED documents
    /\ \A d \in Document, l \in LineId :
          stored'[d][l].text = stored[d][l].text /\ stored'[d][l].partner = stored[d][l].partner

\* Rows that keep their texts and partners are still those of one reading.
LEMMA KeptStep ==
    ASSUME Ingestion, OneRead, RowsKept, NEW w \in Process, NEW next, Go(w, next), ReadingFits(next)
    PROVE  OneRead'
  <1>1. ASSUME NEW d \in Document
        PROVE  [l \in LineId |-> stored'[d][l].text] = [l \in LineId |-> stored[d][l].text]
    BY DEF RowsKept
  <1>2. ASSUME NEW d \in Document
        PROVE  LET reading == [l \in LineId |-> stored'[d][l].text] IN
               /\ ReadAs(d, documents'[d], reading)
               /\ \A l, m \in LinesOf(reading) : stored'[d][l].partner = stored'[d][m].partner
    <2>1. PICK reading : reading = [l \in LineId |-> stored[d][l].text]
      OBVIOUS
    <2>2. /\ ReadAs(d, documents[d], reading)
          /\ \A l, m \in LinesOf(reading) : stored[d][l].partner = stored[d][m].partner
      BY <2>1 DEF OneRead, OneReadingStored
    <2>3. \A l \in LinesOf(reading) : stored'[d][l].partner = stored[d][l].partner
      BY DEF RowsKept, LinesOf
    <2>4. documents' = documents
      BY DEF RowsKept
    <2> QED BY <1>1, <2>1, <2>2, <2>3, <2>4
  <1>3. OneReadingStored'
    BY <1>2 DEF OneReadingStored, ReadAs
  <1>4. \A v \in Process : ReadingFits(job'[v])
    BY DEF OneRead, Go, Ingestion, JobsSound
  <1> QED BY <1>3, <1>4 DEF OneRead, ReadingFits

\* A step that writes no table keeps the rows.
LEMMA SameTablesKept == ASSUME UNCHANGED tables PROVE RowsKept
  BY DEF tables, RowsKept

\* Saving puts one reading in the place of whatever was stored.
LEMMA OneReadSaved ==
    ASSUME Ingestion, OneRead, NEW w \in Process, SaveInvoiceDocument(w) PROVE OneRead'
  <1>1. PICK j, d : j = job[w] /\ d = j.document
    OBVIOUS
  <1>2. /\ j \in Job /\ j.pc = "save" /\ d \in Document /\ j.reading \in Reading
        /\ ReadAs(d, j.parser, j.reading)
        /\ job \in [Process -> Job]
        /\ documents \in [Document -> Parser]
        /\ stored \in [Document -> [LineId -> Line]]
    BY <1>1 DEF SaveInvoiceDocument, Doing, Ingestion, JobsSound, RowsTyped, Fit, Job, OneRead,
                ReadingFits
  <1>3. PICK fresh : fresh = [l \in LineId |-> IF l \in LinesOf(j.reading) THEN FreshLine(w, l) ELSE NoLine]
    OBVIOUS
  <1>4. /\ documents' = [documents EXCEPT ![d] = j.parser]
        /\ stored' = [stored EXCEPT ![d] = fresh]
        /\ Go(w, [j EXCEPT !.pc = "lines", !.todo = LinesOf(j.reading)])
    BY <1>1, <1>3 DEF SaveInvoiceDocument
  <1>5. \A l \in LineId :
            /\ fresh[l].text = j.reading[l]
            /\ j.reading[l] # None => fresh[l].partner = j.partner
    BY <1>1, <1>3 DEF FreshLine, NoLine, LinesOf
  <1>6. [l \in LineId |-> fresh[l].text] = j.reading
    BY <1>2, <1>5 DEF Reading
  <1>7. ASSUME NEW e \in Document
        PROVE  LET reading == [l \in LineId |-> stored'[e][l].text] IN
               /\ ReadAs(e, documents'[e], reading)
               /\ \A l, m \in LinesOf(reading) : stored'[e][l].partner = stored'[e][m].partner
    <2>1. CASE e = d
      <3>1. stored'[e] = fresh /\ documents'[e] = j.parser
        BY <1>2, <1>4, <2>1
      <3>2. [l \in LineId |-> stored'[e][l].text] = j.reading
        BY <1>6, <3>1
      <3>3. \A l \in LinesOf(j.reading) : fresh[l].partner = j.partner
        BY <1>5 DEF LinesOf
      <3> QED BY <1>2, <2>1, <3>1, <3>2, <3>3
    <2>2. CASE e # d
      <3>1. stored'[e] = stored[e] /\ documents'[e] = documents[e]
        BY <1>2, <1>4, <2>2
      <3> QED BY <3>1 DEF OneRead, OneReadingStored
    <2> QED BY <2>1, <2>2
  <1>8. OneReadingStored'
    BY <1>7 DEF OneReadingStored, ReadAs
  <1>9. PICK next : next = [j EXCEPT !.pc = "lines", !.todo = LinesOf(j.reading)]
    OBVIOUS
  <1>10. ReadingFits(next)
    BY <1>2, <1>9 DEF Job, ReadingFits
  <1>11. \A v \in Process : ReadingFits(job'[v])
    BY <1>2, <1>4, <1>9, <1>10 DEF OneRead, Go
  <1> QED BY <1>8, <1>11 DEF OneRead, ReadingFits

\* A link changes the decision of a row that is there, and inserts none.
LEMMA OneReadLinked ==
    ASSUME Ingestion, OneRead, NEW w \in Process, NEW l \in LineId, LinkInvoiceDecision(w, l)
    PROVE  OneRead'
  <1>1. PICK j, d, decision :
            j = job[w] /\ d = j.document /\ decision = [text |-> j.reading[l], partner |-> j.partner]
    OBVIOUS
  <1>2. /\ j \in Job /\ j.pc = "link" /\ d \in Document
        /\ stored \in [Document -> [LineId -> Line]]
    BY <1>1 DEF LinkInvoiceDecision, Doing, Ingestion, JobsSound, RowsTyped, Fit
  <1>3. stored' = IF stored[d][l].text = None THEN stored
                  ELSE [stored EXCEPT ![d][l].decided = decision]
    BY <1>1 DEF LinkInvoiceDecision
  <1>4. ASSUME NEW e \in Document, NEW m \in LineId
        PROVE  stored'[e][m].text = stored[e][m].text /\ stored'[e][m].partner = stored[e][m].partner
    <2>1. CASE e = d /\ m = l /\ stored[d][l].text # None
      <3>1. PICK row : row = stored[d][l]
        OBVIOUS
      <3>2. row \in Line /\ stored'[e][m] = [row EXCEPT !.decided = decision]
        BY <1>2, <1>3, <2>1, <3>1
      <3> QED BY <2>1, <3>1, <3>2 DEF Line
    <2>2. CASE ~(e = d /\ m = l /\ stored[d][l].text # None)
      <3>1. stored'[e][m] = stored[e][m]
        BY <1>2, <1>3, <2>2
      <3> QED BY <3>1
    <2> QED BY <2>1, <2>2
  <1>5. RowsKept
    BY <1>4 DEF RowsKept, LinkInvoiceDecision
  <1>6. PICK next : next = [j EXCEPT !.todo = j.todo \ {l}]
    OBVIOUS
  <1>7. ReadingFits(next) /\ Go(w, next)
    BY <1>1, <1>2, <1>6 DEF Job, ReadingFits, LinkInvoiceDecision
  <1> QED BY <1>5, <1>7, KeptStep

\* A document is read: by its parser, or by a model when the parser fails.
LEMMA OneReadRead ==
    ASSUME Ingestion, OneRead, NEW w \in Process,
           \/ \E d \in Document, p \in Partner : Begin(w, d, p)
           \/ ParserSucceeds(w) \/ ParserFails(w)
           \/ AskForExtraction(w) \/ Extracted(w) \/ ExtractionFails(w)
    PROVE  OneRead'
  <1>1. PICK j : j = job[w]
    OBVIOUS
  <1>2. j \in Job /\ ReadingFits(j)
    BY <1>1 DEF Ingestion, JobsSound, Fit, OneRead
  <1>3. RowsKept
    BY SameTablesKept DEF Begin, ParserSucceeds, ParserFails, AskForExtraction, Extracted, ExtractionFails
  <1>4. CASE \E d \in Document, p \in Partner : Begin(w, d, p)
    <2>1. PICK d \in Document, p \in Partner : Begin(w, d, p)
      BY <1>4
    <2>2. PICK next : next = [Rest EXCEPT !.pc = "parse", !.document = d, !.partner = p]
      OBVIOUS
    <2>3. ReadingFits(next) /\ Go(w, next)
      BY <2>1, <2>2 DEF Rest, ReadingFits, Begin
    <2> QED BY <1>3, <2>3, KeptStep
  <1>5. ReadingFits([Rest EXCEPT !.pc = "failed"])
    BY DEF Rest, ReadingFits
  <1>6. CASE Fail(w)
    BY <1>3, <1>5, <1>6, KeptStep DEF Fail
  <1>7. CASE ParserSucceeds(w)
    <2>1. PICK next : next = [j EXCEPT !.pc = "save", !.parser = "native", !.reading = Native[j.document]]
      OBVIOUS
    <2>2. ReadingFits(next)
      BY <1>1, <1>2, <1>7, <2>1 DEF Job, ReadingFits, ReadAs, ParserSucceeds
    <2> QED BY <1>1, <1>3, <1>7, <2>1, <2>2, KeptStep DEF ParserSucceeds
  <1>8. CASE ParserFails(w) /\ Go(w, [j EXCEPT !.pc = "extract"])
    <2>1. PICK next : next = [j EXCEPT !.pc = "extract"]
      OBVIOUS
    <2>2. ReadingFits(next)
      BY <1>1, <1>2, <1>8, <2>1 DEF Job, ReadingFits, ParserFails
    <2> QED BY <1>3, <1>8, <2>1, <2>2, KeptStep
  <1>9. CASE AskForExtraction(w)
    <2>1. PICK next : next = [j EXCEPT !.pc = "extracting"]
      OBVIOUS
    <2>2. ReadingFits(next)
      BY <1>1, <1>2, <1>9, <2>1 DEF Job, ReadingFits, AskForExtraction, Doing
    <2> QED BY <1>1, <1>3, <1>9, <2>1, <2>2, KeptStep DEF AskForExtraction
  <1>10. ASSUME NEW r \in Readings, r.sound, Doing(w, "extracting"),
                Go(w, [j EXCEPT !.pc = "save", !.parser = "model", !.reading = r.lines])
         PROVE  OneRead'
    <2>1. PICK next : next = [j EXCEPT !.pc = "save", !.parser = "model", !.reading = r.lines]
      OBVIOUS
    <2>2. [lines |-> r.lines, sound |-> TRUE] = r
      BY <1>10, ReadingsAssumption
    <2>3. ReadingFits(next)
      BY <1>1, <1>2, <1>10, <2>1, <2>2 DEF Job, ReadingFits, ReadAs, Doing
    <2> QED BY <1>3, <1>10, <2>1, <2>3, KeptStep
  <1>11. CASE Extracted(w)
    <2>1. PICK r \in Readings :
            IF r.sound
              THEN Go(w, [j EXCEPT !.pc = "save", !.parser = "model", !.reading = r.lines])
              ELSE Fail(w)
      BY <1>1, <1>11 DEF Extracted
    <2> QED BY <1>6, <1>10, <1>11, <2>1 DEF Extracted
  <1> QED BY <1>1, <1>4, <1>6, <1>7, <1>8, <1>9, <1>11 DEF ParserFails, ExtractionFails

\* Going through the lines, finishing and crashing leave the rows alone.
LEMMA OneReadLines ==
    ASSUME Ingestion, OneRead, NEW w \in Process,
           \/ \E l \in LineId : LineIsKnown(w, l) \/ LineAsksModel(w, l)
           \/ LineIsDecided(w) \/ LineFails(w) \/ AllDecided(w) \/ Finish(w) \/ Crash(w)
    PROVE  OneRead'
  <1>1. PICK j : j = job[w]
    OBVIOUS
  <1>2. j \in Job
    BY <1>1 DEF Ingestion, JobsSound, Fit
  <1>3. RowsKept
    BY SameTablesKept
       DEF LineIsKnown, LineAsksModel, LineIsDecided, LineFails, AllDecided, Finish, Crash
  <1>4. PICK next :
            /\ Go(w, next)
            /\ \/ \E todo : next = [j EXCEPT !.todo = todo] /\ j.pc = "lines"
               \/ \E todo : next = [j EXCEPT !.pc = "asking", !.todo = todo]
               \/ next = [j EXCEPT !.pc = "lines"]
               \/ \E todo : next = [j EXCEPT !.pc = "link", !.todo = todo]
               \/ next = [Rest EXCEPT !.pc = "finished", !.document = j.document]
               \/ next = [Rest EXCEPT !.pc = "failed"]
    BY <1>1 DEF LineIsKnown, LineAsksModel, LineIsDecided, LineFails, AllDecided, Finish, Crash, Fail,
                Doing
  <1>5. next.pc \in {"lines", "asking", "link", "finished", "failed"}
    BY <1>2, <1>4 DEF Job, Rest
  <1>6. ReadingFits(next)
    BY <1>5 DEF ReadingFits
  <1> QED BY <1>3, <1>4, <1>6, KeptStep

\* Every step keeps one reading in every document.
LEMMA OneReadStep == ASSUME Ingestion, OneRead, [Next]_vars PROVE OneRead'
  <1>1. ASSUME UNCHANGED <<tables, job>> PROVE OneRead'
    BY <1>1 DEF tables, OneRead, OneReadingStored, ReadAs, ReadingFits
  <1>2. ASSUME NEW w \in Process, Carry(w) PROVE OneRead'
    BY <1>1, <1>2, OneReadRead, OneReadSaved, OneReadLines, OneReadLinked DEF Carry
  <1>3. ASSUME NEW w \in Process, NEW d \in Document, NEW p \in Partner, Begin(w, d, p) PROVE OneRead'
    BY <1>3, OneReadRead
  <1>4. ASSUME NEW w \in Process, Crash(w) PROVE OneRead'
    BY <1>4, OneReadLines
  <1> QED BY <1>1, <1>2, <1>3, <1>4 DEF Next, vars

\* However many processes read, save and link a document, in whatever order and
\* wherever they die: its header and lines are those of one reading that passed
\* the checks, for one partner.
THEOREM OneReading == Spec => []OneReadingStored
  <1>1. ASSUME Init PROVE OneRead
    <2>1. ASSUME NEW d \in Document
          PROVE  [l \in LineId |-> stored[d][l].text] = Unread /\ documents[d] = "absent"
      BY <1>1 DEF Init, NoLine, Unread
    <2>2. \A d \in Document : LinesOf(Unread) = {}
      BY DEF LinesOf, Unread
    <2>3. OneReadingStored
      BY <2>1, <2>2 DEF OneReadingStored, ReadAs
    <2>4. \A w \in Process : ReadingFits(job[w])
      BY <1>1 DEF Init, Rest, ReadingFits
    <2> QED BY <2>3, <2>4 DEF OneRead
  <1>2. Ingestion /\ OneRead /\ [Next]_vars => OneRead'
    BY OneReadStep
  <1>3. OneRead => OneReadingStored
    BY DEF OneRead
  <1> QED BY <1>1, <1>2, <1>3, IngestionIsSound, PTL DEF Spec

-----------------------------------------------------------------------------
(* One partner, and files that parsers read *)

\* Every reading of a file is the parser's.
ReadByParsers == Fallback => \A d \in Document : Native[d] # Unread

NativeJob(j) ==
    /\ j.pc \notin {"extract", "extracting"}
    /\ j.pc \in {"save", "lines", "asking", "link"} => j.reading = Native[j.document]

NativeRow(row, d, l) ==
    /\ row.text # None => row.text = Native[d][l] /\ row.partner \in Partner
    /\ row.text = None => row.decided = Undecided
    /\ row.decided # Undecided => row.decided = [text |-> row.text, partner |-> row.partner]

NativeOnly ==
    /\ \A w \in Process : NativeJob(job[w])
    /\ \A d \in Document, l \in LineId : NativeRow(stored[d][l], d, l)

\* Every step keeps all readings native and all links fitting.
LEMMA NativeStep ==
    ASSUME ReadByParsers, \A p, q \in Partner : p = q,
           Ingestion, NativeOnly, [Next]_vars
    PROVE  NativeOnly'
  <1>1. /\ job \in [Process -> Job] /\ stored \in [Document -> [LineId -> Line]]
        /\ \A w \in Process : Fit(job[w])
    BY DEF Ingestion, RowsTyped, JobsSound
  <1>2. ASSUME NEW w \in Process, NEW next, Go(w, next), NativeJob(next)
        PROVE  \A v \in Process : NativeJob(job'[v])
    BY <1>1, <1>2 DEF Go, NativeOnly
  <1>3. ASSUME UNCHANGED stored
        PROVE  \A d \in Document, l \in LineId : NativeRow(stored'[d][l], d, l)
    BY <1>3 DEF NativeOnly
  <1>4. NativeJob([Rest EXCEPT !.pc = "failed"])
    BY DEF NativeJob, Rest
  <1>5. ASSUME NEW w \in Process, Fail(w) PROVE \A v \in Process : NativeJob(job'[v])
    BY <1>2, <1>4, <1>5 DEF Fail
  <1>6. ASSUME NEW w \in Process, NEW d \in Document, NEW p \in Partner, Begin(w, d, p)
        PROVE  NativeOnly'
    <2>1. PICK next : next = [Rest EXCEPT !.pc = "parse", !.document = d, !.partner = p]
      OBVIOUS
    <2>2. NativeJob(next)
      BY <2>1 DEF Rest, NativeJob
    <2>3. Go(w, next) /\ UNCHANGED stored
      BY <1>6, <2>1 DEF Begin, tables
    <2> QED BY <1>2, <1>3, <2>2, <2>3 DEF NativeOnly
  <1>7. ASSUME NEW w \in Process, ParserSucceeds(w) PROVE NativeOnly'
    <2>1. PICK next : next = [job[w] EXCEPT !.pc = "save", !.parser = "native",
                                            !.reading = Native[job[w].document]]
      OBVIOUS
    <2>2. NativeJob(next)
      BY <1>1, <2>1 DEF Job, NativeJob
    <2>3. Go(w, next) /\ UNCHANGED stored
      BY <1>7, <2>1 DEF ParserSucceeds, tables
    <2> QED BY <1>2, <1>3, <2>2, <2>3 DEF NativeOnly
  <1>8. ASSUME NEW w \in Process, ParserFails(w) PROVE NativeOnly'
    <2>1. ~Fallback
      BY <1>1, <1>8 DEF ParserFails, Doing, Fit, ReadByParsers
    <2> QED BY <1>3, <1>5, <1>8, <2>1 DEF ParserFails, NativeOnly, tables
  <1>9. ASSUME NEW w \in Process, AskForExtraction(w) \/ Extracted(w) \/ ExtractionFails(w)
        PROVE  FALSE
    BY <1>9 DEF AskForExtraction, Extracted, ExtractionFails, Doing, NativeOnly, NativeJob
  <1>10. ASSUME NEW w \in Process, SaveInvoiceDocument(w) PROVE NativeOnly'
    <2>1. PICK j : j = job[w]
      OBVIOUS
    <2>2. /\ j \in Job /\ j.pc = "save" /\ j.document \in Document /\ j.partner \in Partner
          /\ j.reading = Native[j.document]
      BY <1>1, <1>10, <2>1 DEF SaveInvoiceDocument, Doing, Fit, NativeOnly, NativeJob
    <2>3. PICK next : next = [j EXCEPT !.pc = "lines", !.todo = LinesOf(j.reading)]
      OBVIOUS
    <2>4. NativeJob(next)
      BY <2>2, <2>3 DEF Job, NativeJob
    <2>5. Go(w, next)
      BY <1>10, <2>1, <2>3 DEF SaveInvoiceDocument
    <2> DEFINE fresh == [l \in LineId |-> IF l \in LinesOf(j.reading) THEN FreshLine(w, l) ELSE NoLine]
    <2>6. stored' = [stored EXCEPT ![j.document] = fresh]
      BY <1>10, <2>1 DEF SaveInvoiceDocument
    <2>7. ASSUME NEW l \in LineId PROVE NativeRow(fresh[l], j.document, l)
      BY <2>1, <2>2 DEF NativeRow, FreshLine, NoLine, LinesOf
    <2> HIDE DEF fresh
    <2>8. ASSUME NEW d \in Document, NEW l \in LineId PROVE NativeRow(stored'[d][l], d, l)
      <3>1. stored'[d] = IF d = j.document THEN fresh ELSE stored[d]
        BY <1>1, <2>6
      <3> QED BY <2>7, <3>1 DEF NativeOnly
    <2> QED BY <1>2, <2>4, <2>5, <2>8 DEF NativeOnly
  <1>11. ASSUME NEW w \in Process, NEW next, Go(w, next), UNCHANGED stored,
                job[w].pc \in {"lines", "asking", "link"}, next.pc \in {"lines", "asking", "link"},
                next.document = job[w].document, next.reading = job[w].reading
         PROVE  NativeOnly'
    <2>1. NativeJob(next)
      BY <1>11 DEF NativeOnly, NativeJob
    <2> QED BY <1>2, <1>3, <1>11, <2>1 DEF NativeOnly
  <1>13. ASSUME NEW w \in Process, NEW l \in LineId, LineIsKnown(w, l) \/ LineAsksModel(w, l)
         PROVE  NativeOnly'
    <2>1. job[w].pc = "lines" /\ UNCHANGED stored
      BY <1>13 DEF LineIsKnown, LineAsksModel, Doing, tables
    <2>2. PICK next : /\ Go(w, next)
                      /\ \/ next = [job[w] EXCEPT !.todo = job[w].todo \ {l}]
                         \/ next = [job[w] EXCEPT !.pc = "asking", !.todo = job[w].todo \ {l}]
      BY <1>13 DEF LineIsKnown, LineAsksModel
    <2>3. /\ next.document = job[w].document /\ next.reading = job[w].reading
          /\ next.pc \in {"lines", "asking"}
      BY <1>1, <2>1, <2>2 DEF Job
    <2> QED BY <1>11, <2>1, <2>2, <2>3
  <1>14. ASSUME NEW w \in Process, LineIsDecided(w) PROVE NativeOnly'
    <2>1. job[w].pc = "asking" /\ UNCHANGED stored
      BY <1>14 DEF LineIsDecided, Doing, tables
    <2>2. PICK next : Go(w, next) /\ next = [job[w] EXCEPT !.pc = "lines"]
      BY <1>14 DEF LineIsDecided
    <2>3. next.document = job[w].document /\ next.reading = job[w].reading /\ next.pc = "lines"
      BY <1>1, <2>2 DEF Job
    <2> QED BY <1>11, <2>1, <2>2, <2>3
  <1>15. ASSUME NEW w \in Process, AllDecided(w) PROVE NativeOnly'
    <2>1. job[w].pc = "lines" /\ UNCHANGED stored
      BY <1>15 DEF AllDecided, Doing, tables
    <2>2. PICK next : /\ Go(w, next)
                      /\ next = [job[w] EXCEPT !.pc = "link", !.todo = LinesOf(job[w].reading)]
      BY <1>15 DEF AllDecided
    <2>3. next.document = job[w].document /\ next.reading = job[w].reading /\ next.pc = "link"
      BY <1>1, <2>2 DEF Job
    <2> QED BY <1>11, <2>1, <2>2, <2>3
  <1>16. ASSUME NEW w \in Process, LineFails(w) \/ Crash(w) PROVE NativeOnly'
    <2>1. Fail(w) /\ UNCHANGED stored
      BY <1>16 DEF LineFails, Crash, tables
    <2> QED BY <1>3, <1>5, <2>1 DEF NativeOnly
  <1>17. ASSUME NEW w \in Process, Finish(w) PROVE NativeOnly'
    <2>1. PICK next : next = [Rest EXCEPT !.pc = "finished", !.document = job[w].document]
      OBVIOUS
    <2>2. NativeJob(next)
      BY <2>1 DEF Rest, NativeJob
    <2>3. Go(w, next) /\ UNCHANGED stored
      BY <1>17, <2>1 DEF Finish, tables
    <2> QED BY <1>2, <1>3, <2>2, <2>3 DEF NativeOnly
  <1>18. ASSUME NEW w \in Process, NEW l \in LineId, LinkInvoiceDecision(w, l) PROVE NativeOnly'
    <2>1. PICK j : j = job[w]
      OBVIOUS
    <2>2. /\ j \in Job /\ j.pc = "link" /\ j.document \in Document /\ j.partner \in Partner
          /\ j.reading = Native[j.document]
      BY <1>1, <1>18, <2>1 DEF LinkInvoiceDecision, Doing, Fit, NativeOnly, NativeJob
    <2> DEFINE d == j.document
               decision == [text |-> j.reading[l], partner |-> j.partner]
    <2>3. stored' = IF stored[d][l].text = None THEN stored
                    ELSE [stored EXCEPT ![d][l].decided = decision]
      BY <1>18, <2>1 DEF LinkInvoiceDecision
    <2>4. ASSUME NEW e \in Document, NEW m \in LineId PROVE NativeRow(stored'[e][m], e, m)
      <3>1. NativeRow(stored[e][m], e, m)
        BY DEF NativeOnly
      <3>2. CASE e = d /\ m = l /\ stored[d][l].text # None
        <4>1. PICK row : row = stored[d][l]
          OBVIOUS
        <4>2. row \in Line /\ row.text # None /\ NativeRow(row, d, l)
          BY <1>1, <2>2, <3>1, <3>2, <4>1
        <4>3. stored'[e][m] = [row EXCEPT !.decided = decision]
          BY <1>1, <2>2, <2>3, <3>2, <4>1
        <4>4. decision = [text |-> row.text, partner |-> row.partner]
          BY <2>2, <4>2 DEF NativeRow
        <4> QED BY <3>2, <4>2, <4>3, <4>4 DEF NativeRow, Line
      <3>3. CASE ~(e = d /\ m = l /\ stored[d][l].text # None)
        <4>1. stored'[e][m] = stored[e][m]
          BY <1>1, <2>2, <2>3, <3>3
        <4> QED BY <3>1, <4>1
      <3> QED BY <3>2, <3>3
    <2>5. Go(w, [job[w] EXCEPT !.todo = job[w].todo \ {l}])
      BY <1>18 DEF LinkInvoiceDecision
    <2>6. PICK next : next = [j EXCEPT !.todo = j.todo \ {l}]
      OBVIOUS
    <2>7. NativeJob(next)
      BY <2>2, <2>6 DEF Job, NativeJob
    <2> QED BY <1>2, <2>1, <2>4, <2>5, <2>6, <2>7 DEF NativeOnly
  <1>19. ASSUME UNCHANGED <<tables, job>> PROVE NativeOnly'
    BY <1>19 DEF tables, NativeOnly
  <1>20. ASSUME NEW w \in Process, Carry(w) PROVE NativeOnly'
    BY <1>7, <1>8, <1>9, <1>10, <1>13, <1>14, <1>15, <1>16, <1>17, <1>18, <1>19, <1>20 DEF Carry
  <1> QED BY <1>6, <1>16, <1>19, <1>20 DEF Next, vars

\* For one partner, and files that every process reads alike, a decision is
\* never linked to a line it was not made for, however many processes work on
\* a file at once: only a second partner or a model's reading makes it go wrong.
THEOREM OnePartnerFits ==
    ASSUME ReadByParsers, \A p, q \in Partner : p = q
    PROVE  Spec => []LinkedLineFits
  <1>1. Init => NativeOnly
    BY DEF Init, NativeOnly, NativeJob, NativeRow, Rest, NoLine, Undecided
  <1>2. Ingestion /\ NativeOnly /\ [Next]_vars => NativeOnly'
    BY NativeStep
  <1>3. NativeOnly => LinkedLineFits
    BY DEF NativeOnly, NativeRow, LinkedLineFits
  <1> QED BY <1>1, <1>2, <1>3, IngestionIsSound, PTL DEF Spec

-----------------------------------------------------------------------------
(* Processes that work on different files *)

Busy(w) == job[w].pc \notin {"idle", "finished", "failed"}

\* No file is in the hands of two processes.
Apart ==
    \A v, w \in Process :
        v # w /\ Busy(v) /\ Busy(w) => job[v].document # job[w].document

Saved(j) == j.pc \in {"lines", "asking", "link"}

\* After its save, the rows of a process's file are those that it saved.
OwnRows(j, rows) ==
    Saved(j) => \A l \in LineId :
        /\ rows[j.document][l].text = j.reading[l]
        /\ j.reading[l] # None => rows[j.document][l].partner = j.partner

Own == LinkedLineFits /\ \A w \in Process : OwnRows(job[w], stored)

\* A process that saves touches the rows of no other that has saved.
LEMMA OwnSave ==
    ASSUME Ingestion, Apart, Own, NEW w \in Process, SaveInvoiceDocument(w)
    PROVE  Own'
  <1>1. /\ job \in [Process -> Job] /\ stored \in [Document -> [LineId -> Line]]
        /\ \A v \in Process : Fit(job[v])
    BY DEF Ingestion, RowsTyped, JobsSound
  <1>2. PICK j : j = job[w]
    OBVIOUS
  <1>3. j \in Job /\ j.pc = "save" /\ j.document \in Document /\ Busy(w)
    BY <1>1, <1>2 DEF SaveInvoiceDocument, Doing, Fit, Busy
  <1>4. PICK next : next = [j EXCEPT !.pc = "lines", !.todo = LinesOf(j.reading)]
    OBVIOUS
  <1>5. Go(w, next)
    BY <1>2, <1>4 DEF SaveInvoiceDocument
  <1>6. next.document = j.document /\ next.reading = j.reading /\ next.partner = j.partner
    BY <1>3, <1>4 DEF Job
  <1> DEFINE fresh == [l \in LineId |-> IF l \in LinesOf(j.reading) THEN FreshLine(w, l) ELSE NoLine]
  <1>7. stored' = [stored EXCEPT ![j.document] = fresh]
    BY <1>2 DEF SaveInvoiceDocument
  <1>8. ASSUME NEW l \in LineId
        PROVE  /\ fresh[l].text = j.reading[l] /\ fresh[l].decided = Undecided
               /\ j.reading[l] # None => fresh[l].partner = j.partner
    BY <1>2 DEF FreshLine, NoLine, LinesOf
  <1> HIDE DEF fresh
  <1>9. \A d \in Document : stored'[d] = IF d = j.document THEN fresh ELSE stored[d]
    BY <1>1, <1>7
  <1>10. LinkedLineFits'
    BY <1>8, <1>9 DEF Own, LinkedLineFits
  <1>11. ASSUME NEW v \in Process PROVE OwnRows(job'[v], stored')
    <2>1. CASE v = w
      <3>1. job'[v] = next
        BY <1>1, <1>5, <2>1 DEF Go
      <3> QED BY <1>3, <1>6, <1>8, <1>9, <3>1 DEF OwnRows
    <2>2. CASE v # w /\ Saved(job[v])
      <3>1. job'[v] = job[v] /\ job[v].document \in Document
        BY <1>1, <1>5, <2>2 DEF Go, Fit, Saved
      <3>2. job[v].document # j.document
        BY <1>2, <1>3, <2>2 DEF Apart, Busy, Saved
      <3>3. stored'[job[v].document] = stored[job[v].document]
        BY <1>9, <3>1, <3>2
      <3> QED BY <3>1, <3>3 DEF Own, OwnRows
    <2>3. CASE v # w /\ ~Saved(job[v])
      <3>1. job'[v] = job[v]
        BY <1>1, <1>5, <2>3 DEF Go
      <3> QED BY <2>3, <3>1 DEF OwnRows
    <2> QED BY <2>1, <2>2, <2>3
  <1> QED BY <1>10, <1>11 DEF Own

\* A link is made to a row that the process has saved itself.
LEMMA OwnLink ==
    ASSUME Ingestion, Own, NEW w \in Process, NEW l \in LineId, LinkInvoiceDecision(w, l)
    PROVE  Own'
  <1>1. /\ job \in [Process -> Job] /\ stored \in [Document -> [LineId -> Line]]
        /\ \A v \in Process : Fit(job[v])
    BY DEF Ingestion, RowsTyped, JobsSound
  <1>2. PICK j : j = job[w]
    OBVIOUS
  <1>3. j \in Job /\ j.pc = "link" /\ j.document \in Document /\ OwnRows(j, stored)
    BY <1>1, <1>2 DEF LinkInvoiceDecision, Doing, Fit, Own
  <1> DEFINE d == j.document
             decision == [text |-> j.reading[l], partner |-> j.partner]
  <1>4. stored' = IF stored[d][l].text = None THEN stored
                  ELSE [stored EXCEPT ![d][l].decided = decision]
    BY <1>2 DEF LinkInvoiceDecision
  <1>5. stored[d][l].text # None =>
          decision = [text |-> stored[d][l].text, partner |-> stored[d][l].partner]
    BY <1>3 DEF OwnRows, Saved
  <1> HIDE DEF decision
  <1>6. ASSUME NEW e \in Document, NEW m \in LineId
        PROVE  /\ stored'[e][m].text = stored[e][m].text
               /\ stored'[e][m].partner = stored[e][m].partner
               /\ stored'[e][m].decided =
                    IF e = d /\ m = l /\ stored[d][l].text # None THEN decision
                    ELSE stored[e][m].decided
    <2>1. CASE e = d /\ m = l /\ stored[d][l].text # None
      <3>1. PICK row : row = stored[d][l]
        OBVIOUS
      <3>2. row \in Line
        BY <1>1, <1>3, <3>1
      <3>3. stored'[e][m] = [row EXCEPT !.decided = decision]
        BY <1>1, <1>3, <1>4, <2>1, <3>1
      <3> QED BY <2>1, <3>1, <3>2, <3>3 DEF Line
    <2>2. CASE ~(e = d /\ m = l /\ stored[d][l].text # None)
      <3>1. stored'[e][m] = stored[e][m]
        BY <1>1, <1>3, <1>4, <2>2
      <3> QED BY <2>2, <3>1
    <2> QED BY <2>1, <2>2
  <1>7. LinkedLineFits'
    BY <1>5, <1>6 DEF Own, LinkedLineFits
  <1>8. PICK next : next = [j EXCEPT !.todo = j.todo \ {l}]
    OBVIOUS
  <1>9. /\ Go(w, next) /\ next.document = d /\ next.reading = j.reading
        /\ next.partner = j.partner
    BY <1>2, <1>3, <1>8 DEF LinkInvoiceDecision, Job
  <1>10. ASSUME NEW v \in Process PROVE OwnRows(job'[v], stored')
    <2>1. CASE v = w
      <3>1. job'[v] = next
        BY <1>1, <1>9, <2>1 DEF Go
      <3> QED BY <1>3, <1>6, <1>9, <3>1 DEF OwnRows, Saved
    <2>2. CASE v # w /\ Saved(job[v])
      <3>1. job'[v] = job[v] /\ job[v].document \in Document
        BY <1>1, <1>9, <2>2 DEF Go, Fit, Saved
      <3> QED BY <1>6, <3>1 DEF Own, OwnRows
    <2>3. CASE v # w /\ ~Saved(job[v])
      <3>1. job'[v] = job[v]
        BY <1>1, <1>9, <2>3 DEF Go
      <3> QED BY <2>3, <3>1 DEF OwnRows
    <2> QED BY <2>1, <2>2, <2>3
  <1> QED BY <1>7, <1>10 DEF Own

\* As long as the processes stay apart, every step keeps a saver's rows its own.
LEMMA OwnStep ==
    ASSUME Ingestion, Apart, Own, [Next]_vars PROVE Own'
  <1>1. job \in [Process -> Job]
    BY DEF Ingestion, JobsSound
  <1>2. ASSUME NEW w \in Process, NEW next, Go(w, next), OwnRows(next, stored), UNCHANGED stored
        PROVE  Own'
    BY <1>1, <1>2 DEF Go, Own, LinkedLineFits
  <1>3. ASSUME NEW w \in Process, NEW next, Go(w, next), ~Saved(next), UNCHANGED stored
        PROVE  Own'
    BY <1>2, <1>3 DEF OwnRows
  <1>4. ASSUME NEW w \in Process, Fail(w), UNCHANGED stored PROVE Own'
    <2>1. ~Saved([Rest EXCEPT !.pc = "failed"])
      BY DEF Saved, Rest
    <2> QED BY <1>3, <1>4, <2>1 DEF Fail
  <1>5. ASSUME NEW w \in Process, NEW next, Go(w, next), UNCHANGED stored, Saved(job[w]),
               next.document = job[w].document, next.reading = job[w].reading,
               next.partner = job[w].partner
        PROVE  Own'
    <2>1. OwnRows(next, stored)
      BY <1>5 DEF Own, OwnRows
    <2> QED BY <1>2, <1>5, <2>1
  <1>6. ASSUME NEW w \in Process, NEW d \in Document, NEW p \in Partner, Begin(w, d, p)
        PROVE  Own'
    <2>1. PICK next : next = [Rest EXCEPT !.pc = "parse", !.document = d, !.partner = p]
      OBVIOUS
    <2>2. ~Saved(next)
      BY <2>1 DEF Rest, Saved
    <2> QED BY <1>3, <1>6, <2>1, <2>2 DEF Begin, tables
  <1>7. ASSUME NEW w \in Process,
               \/ ParserSucceeds(w) \/ ParserFails(w) \/ AskForExtraction(w)
               \/ Extracted(w) \/ ExtractionFails(w)
        PROVE  Own'
    <2>1. job[w] \in Job /\ UNCHANGED stored
      BY <1>1, <1>7 DEF ParserSucceeds, ParserFails, AskForExtraction, Extracted,
                        ExtractionFails, tables
    <2>2. ASSUME NEW reading PROVE ~Saved([job[w] EXCEPT !.pc = "save", !.parser = "native", !.reading = reading])
      BY <2>1 DEF Job, Saved
    <2>3. ASSUME NEW reading PROVE ~Saved([job[w] EXCEPT !.pc = "save", !.parser = "model", !.reading = reading])
      BY <2>1 DEF Job, Saved
    <2>4. ~Saved([job[w] EXCEPT !.pc = "extract"]) /\ ~Saved([job[w] EXCEPT !.pc = "extracting"])
      BY <2>1 DEF Job, Saved
    <2>5. CASE ParserSucceeds(w)
      BY <1>3, <2>1, <2>2, <2>5 DEF ParserSucceeds
    <2>6. CASE ParserFails(w)
      BY <1>3, <1>4, <2>1, <2>4, <2>6 DEF ParserFails
    <2>7. CASE AskForExtraction(w)
      BY <1>3, <2>1, <2>4, <2>7 DEF AskForExtraction
    <2>8. CASE Extracted(w)
      BY <1>3, <1>4, <2>1, <2>3, <2>8 DEF Extracted
    <2>9. CASE ExtractionFails(w)
      BY <1>4, <2>1, <2>9 DEF ExtractionFails
    <2> QED BY <1>7, <2>5, <2>6, <2>7, <2>8, <2>9
  <1>8. ASSUME NEW w \in Process, NEW l \in LineId, LineIsKnown(w, l) \/ LineAsksModel(w, l)
        PROVE  Own'
    <2>1. job[w] \in Job /\ Saved(job[w]) /\ UNCHANGED stored
      BY <1>1, <1>8 DEF LineIsKnown, LineAsksModel, Doing, tables, Saved
    <2>2. PICK next : /\ Go(w, next)
                      /\ \/ next = [job[w] EXCEPT !.todo = job[w].todo \ {l}]
                         \/ next = [job[w] EXCEPT !.pc = "asking", !.todo = job[w].todo \ {l}]
      BY <1>8 DEF LineIsKnown, LineAsksModel
    <2>3. /\ next.document = job[w].document /\ next.reading = job[w].reading
          /\ next.partner = job[w].partner
      BY <2>1, <2>2 DEF Job
    <2> QED BY <1>5, <2>1, <2>2, <2>3
  <1>9. ASSUME NEW w \in Process, LineIsDecided(w) \/ AllDecided(w) PROVE Own'
    <2>1. job[w] \in Job /\ Saved(job[w]) /\ UNCHANGED stored
      BY <1>1, <1>9 DEF LineIsDecided, AllDecided, Doing, tables, Saved
    <2>2. PICK next : /\ Go(w, next)
                      /\ \/ next = [job[w] EXCEPT !.pc = "lines"]
                         \/ next = [job[w] EXCEPT !.pc = "link", !.todo = LinesOf(job[w].reading)]
      BY <1>9 DEF LineIsDecided, AllDecided
    <2>3. /\ next.document = job[w].document /\ next.reading = job[w].reading
          /\ next.partner = job[w].partner
      BY <2>1, <2>2 DEF Job
    <2> QED BY <1>5, <2>1, <2>2, <2>3
  <1>10. ASSUME NEW w \in Process, LineFails(w) \/ Crash(w) PROVE Own'
    BY <1>4, <1>10 DEF LineFails, Crash, tables
  <1>11. ASSUME NEW w \in Process, Finish(w) PROVE Own'
    <2>1. PICK next : next = [Rest EXCEPT !.pc = "finished", !.document = job[w].document]
      OBVIOUS
    <2>2. ~Saved(next)
      BY <2>1 DEF Rest, Saved
    <2> QED BY <1>3, <1>11, <2>1, <2>2 DEF Finish, tables
  <1>12. ASSUME UNCHANGED <<tables, job>> PROVE Own'
    BY <1>12 DEF tables, Own, LinkedLineFits
  <1>13. ASSUME NEW w \in Process, Carry(w) PROVE Own'
    BY <1>7, <1>8, <1>9, <1>10, <1>11, <1>12, <1>13, OwnSave, OwnLink DEF Carry
  <1> QED BY <1>6, <1>10, <1>12, <1>13 DEF Next, vars

\* As long as no two processes work on one file at once, every link fits its
\* line: for any partners, whatever a model reads in a file, however often
\* files come back, and wherever a process dies.
THEOREM ApartFits == Spec /\ []Apart => []LinkedLineFits
  <1>1. Init => Own
    BY DEF Init, Own, LinkedLineFits, OwnRows, Saved, Rest, NoLine, Undecided
  <1>2. Ingestion /\ Apart /\ Own /\ [Next]_vars => Own'
    BY OwnStep
  <1>3. Own => LinkedLineFits
    BY DEF Own
  <1> QED BY <1>1, <1>2, <1>3, IngestionIsSound, PTL DEF Spec

\* One process alone, as the command line runs it, never links a decision to a
\* line it was not made for.
THEOREM AloneFits ==
    ASSUME \A v, w \in Process : v = w
    PROVE  Spec => []LinkedLineFits
  <1>1. Apart
    BY DEF Apart
  <1>2. []Apart
    BY <1>1, PTL
  <1> QED BY <1>2, ApartFits, PTL
=============================================================================
