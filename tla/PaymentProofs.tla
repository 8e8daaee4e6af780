--------------------------- MODULE PaymentProofs ---------------------------
(***************************************************************************)
(* Proofs about Payment.  The argument is local: IndInv says of every      *)
(* request what its call implies about its body, its row, the transaction  *)
(* it holds, what the provider did for it and the key it owns.  A step of  *)
(* request r re-establishes the five parts for r, and leaves all that they *)
(* mention of another request s as it was (Same), except that it may claim *)
(* a key nobody owns.                                                      *)
(***************************************************************************)
EXTENDS Payment, TLAPS

Local(r) == BodyFits(r) /\ RowFits(r) /\ HeldFits(r) /\ ProviderFits(r) /\ OwnsKey(r)

\* Nothing that Local(s) mentions has changed.
Same(s) ==
    /\ pc'[s] = pc[s] /\ req'[s] = req[s] /\ tx'[s] = tx[s]
    /\ rows'[s] = rows[s] /\ reply'[s] = reply[s]
    /\ s \in charged' <=> s \in charged
    /\ s \in refunded' <=> s \in refunded
    /\ s \in events' <=> s \in events
    /\ s \in faults' <=> s \in faults
    /\ \A k \in Keys : idem'[k] = s <=> idem[k] = s

\* A request whose state a step leaves alone keeps its invariant.
LEMMA Frame ==
    ASSUME TypeOK, NEW s \in Requests, Local(s), Same(s)
    PROVE  Local(s)'
<1> USE DEF Same
<1>1. BodyFits(s)'
  BY DEF Local, BodyFits
<1>2. RowFits(s)'
  BY DEF Local, RowFits
<1>3. HeldFits(s)'
  BY DEF Local, HeldFits, PendingRow, Insertable
<1>4. ProviderFits(s)'
  BY DEF Local, ProviderFits
<1>5. OwnsKey(s)'
  BY DEF Local, OwnsKey, TypeOK, Charges, Refunds, NotYet
<1> QED
  BY <1>1, <1>2, <1>3, <1>4, <1>5 DEF Local

\* The initial states: no request has arrived and the tables are empty.
LEMMA InitIndInv == Init => IndInv
<1> SUFFICES ASSUME Init PROVE IndInv
  OBVIOUS
<1>1. TypeOK
  BY DEF Init, TypeOK, PCs, Factories, MockFactory, RealFactory, ProviderNames
<1>2. ASSUME NEW r \in Requests PROVE Local(r)
  BY PaymentAssumption
     DEF Init, Local, BodyFits, RowFits, HeldFits, ProviderFits, OwnsKey, NotYet
<1> QED
  BY <1>1, <1>2 DEF IndInv, Local

-----------------------------------------------------------------------------
(* One lemma per action of a request. *)

\* A step of r re-establishes the invariant for r and is invisible to others.
Advances(r) ==
    /\ TypeOK'
    /\ Local(r)'
    /\ \A s \in Requests \ {r} : Same(s)

\* Arrive gives an idle request its body and its first call.
LEMMA ArriveAdvances ==
    ASSUME IndInv, NEW r \in Requests, Arrive(r)
    PROVE  Advances(r)
<1> USE PaymentAssumption, NoRowAssumption
<1> USE DEF IndInv, Arrive, Goto, Performed, Fault, AfterError, tables, outside
<1>1. TypeOK'
  BY DEF TypeOK, Row, Status, PCs, Charges, Refunds, NotYet, BodyFits, HeldFits, ProviderNames
<1>2. Local(r)'
  <2>1. BodyFits(r)'
    BY DEF TypeOK, BodyFits, Charges, Refunds
  <2>2. RowFits(r)'
    BY DEF TypeOK, BodyFits, RowFits, HeldFits, ProviderFits, Row, Status
  <2>3. HeldFits(r)'
    BY DEF TypeOK, BodyFits, RowFits, HeldFits, ProviderFits, Row, Status, PendingRow, Insertable
  <2>4. ProviderFits(r)'
    BY DEF TypeOK, BodyFits, RowFits, HeldFits, ProviderFits, Row, Status
  <2>5. OwnsKey(r)'
    BY DEF TypeOK, BodyFits, ProviderFits, OwnsKey, Charges, Refunds, NotYet
  <2> QED
    BY <2>1, <2>2, <2>3, <2>4, <2>5 DEF Local
<1>3. ASSUME NEW s \in Requests \ {r} PROVE Same(s)
  BY DEF TypeOK, Same, BodyFits, Refunds
<1> QED
  BY <1>1, <1>2, <1>3 DEF Advances

\* CheckAndSave moves r past the check only with the key in its name.
LEMMA CheckAndSaveAdvances ==
    ASSUME IndInv, NEW r \in Requests, CheckAndSave(r)
    PROVE  Advances(r)
<1> USE PaymentAssumption, NoRowAssumption
<1> USE DEF IndInv, CheckAndSave, KeyRowAfter, KeyIsFree, Goto, Finish, Performed, Fault, AfterError, tables, outside
<1>1. TypeOK'
  BY DEF TypeOK, PCs, BodyFits
<1>2. Local(r)'
  <2>1. BodyFits(r)'
    BY DEF TypeOK, BodyFits, Charges, Refunds
  <2>2. RowFits(r)'
    BY DEF TypeOK, BodyFits, RowFits, HeldFits, ProviderFits, Row, Status
  <2>3. HeldFits(r)'
    BY DEF TypeOK, BodyFits, RowFits, HeldFits, ProviderFits, Row, Status, PendingRow, Insertable
  <2>4. ProviderFits(r)'
    BY DEF TypeOK, BodyFits, RowFits, HeldFits, ProviderFits, Row, Status
  <2>5. OwnsKey(r)'
    BY DEF TypeOK, BodyFits, ProviderFits, OwnsKey, Charges, Refunds, NotYet
  <2> QED
    BY <2>1, <2>2, <2>3, <2>4, <2>5 DEF Local
<1>3. ASSUME NEW s \in Requests \ {r} PROVE Same(s)
  BY DEF TypeOK, Same, BodyFits, Refunds
<1> QED
  BY <1>1, <1>2, <1>3 DEF Advances

\* The payment-method lookup touches no table.
LEMMA LoadMethodAdvances ==
    ASSUME IndInv, NEW r \in Requests, LoadMethod(r)
    PROVE  Advances(r)
<1> USE PaymentAssumption, NoRowAssumption
<1> USE DEF IndInv, LoadMethod, Goto, Finish, Performed, Fault, AfterError, tables, outside
<1>1. TypeOK'
  BY DEF TypeOK, Row, Status, PCs, Charges, Refunds, NotYet, BodyFits, HeldFits, ProviderNames
<1>2. Local(r)'
  <2>1. BodyFits(r)'
    BY DEF TypeOK, BodyFits, Charges, Refunds
  <2>2. RowFits(r)'
    BY DEF TypeOK, BodyFits, RowFits, HeldFits, ProviderFits, Row, Status
  <2>3. HeldFits(r)'
    BY DEF TypeOK, BodyFits, RowFits, HeldFits, ProviderFits, Row, Status, PendingRow, Insertable
  <2>4. ProviderFits(r)'
    BY DEF TypeOK, BodyFits, RowFits, HeldFits, ProviderFits, Row, Status
  <2>5. OwnsKey(r)'
    BY DEF TypeOK, BodyFits, ProviderFits, OwnsKey, Charges, Refunds, NotYet
  <2> QED
    BY <2>1, <2>2, <2>3, <2>4, <2>5 DEF Local
<1>3. ASSUME NEW s \in Requests \ {r} PROVE Same(s)
  BY DEF TypeOK, Same, BodyFits, Refunds
<1> QED
  BY <1>1, <1>2, <1>3 DEF Advances

\* The pending row is r's first row and the transaction r holds.
LEMMA CreatePendingAdvances ==
    ASSUME IndInv, NEW r \in Requests, CreatePending(r)
    PROVE  Advances(r)
<1> USE PaymentAssumption, NoRowAssumption
<1> USE DEF IndInv, CreatePending, Insert, Goto, Finish, Performed, Fault, AfterError, tables, outside
<1>0. /\ PendingRow(r) \in Row
      /\ Insertable(PendingRow(r))
      /\ PendingRow(r).status = "pending"
      /\ PendingRow(r).amount = req[r].amount
      /\ (PendingRow(r))' = PendingRow(r)
  BY DEF TypeOK, BodyFits, PendingRow, Insertable, Row, Status, Charges, ProviderNames
<1>1. TypeOK'
  BY <1>0 DEF TypeOK, Row, Status, PCs, Charges, Refunds, NotYet, BodyFits, HeldFits, ProviderNames
<1>2. Local(r)'
  <2>1. BodyFits(r)'
    BY DEF TypeOK, BodyFits, Charges, Refunds
  <2>2. RowFits(r)'
    BY <1>0 DEF TypeOK, BodyFits, RowFits, HeldFits, ProviderFits, Row, Status
  <2>3. HeldFits(r)'
    BY <1>0 DEF TypeOK, BodyFits, RowFits, HeldFits, ProviderFits, Row, Status, PendingRow, Insertable
  <2>4. ProviderFits(r)'
    BY <1>0 DEF TypeOK, BodyFits, RowFits, HeldFits, ProviderFits, Row, Status
  <2>5. OwnsKey(r)'
    BY DEF TypeOK, BodyFits, ProviderFits, OwnsKey, Charges, Refunds, NotYet
  <2> QED
    BY <2>1, <2>2, <2>3, <2>4, <2>5 DEF Local
<1>3. ASSUME NEW s \in Requests \ {r} PROVE Same(s)
  BY DEF TypeOK, Same, BodyFits, Refunds
<1> QED
  BY <1>1, <1>2, <1>3 DEF Advances

\* Whatever a charge answers, r holds a transaction that agrees with the provider
\* or is marked as hit by a failure.
LEMMA ChargeAdvances ==
    ASSUME IndInv, NEW r \in Requests, Charge(r)
    PROVE  Advances(r)
<1> USE PaymentAssumption, NoRowAssumption
<1> USE DEF IndInv, Charge, ChargeRefused, ChargeAnswerLost, ChargeSucceeded, ChargeNotSucceeded,
            Goto, Performed, Fault, AfterError, tables, outside
<1>a. /\ req[r] \in Charges /\ req[r].method \in Methods
      /\ tx[r] = PendingRow(r)
  BY DEF TypeOK, BodyFits, HeldFits
<1>b. /\ ChargeFailed(r) \in Row
      /\ ChargeFailed(r).status = "failed"
      /\ ChargeFailed(r).amount = req[r].amount
  BY <1>a DEF PendingRow, ChargeFailed, Row, Status, Charges, ProviderNames
<1>c. ASSUME NEW st \in {"succeeded", "failed"},
             factory[req[r].method] \in {"mock", "stripe"}
      PROVE  /\ ChargeAnswer(r, st) \in Row
             /\ ChargeAnswer(r, st).status = st
             /\ ChargeAnswer(r, st).amount = req[r].amount
  <2>1. ChargeAnswer(r, st) = [type |-> "charge", status |-> st, amount |-> req[r].amount,
                               provider |-> factory[req[r].method], ptx |-> r,
                               metadata |-> "object"]
    BY <1>a DEF PendingRow, ChargeAnswer
  <2>2. req[r].amount \in Amounts
    BY <1>a DEF Charges
  <2> QED
    BY <1>c, <2>1, <2>2 DEF Row, Status, ProviderNames
<1>0. /\ ChargeFailed(r) \in Row
      /\ ChargeFailed(r).status = "failed"
      /\ ChargeFailed(r).amount = req[r].amount
      /\ \A st \in {"succeeded", "failed"} :
            factory[req[r].method] \in {"mock", "stripe"} =>
                /\ ChargeAnswer(r, st) \in Row
                /\ ChargeAnswer(r, st).status = st
                /\ ChargeAnswer(r, st).amount = req[r].amount
  BY <1>b, <1>c
<1>1. TypeOK'
  BY <1>0 DEF TypeOK, Row, Status, PCs, Charges, Refunds, NotYet, BodyFits, HeldFits, ProviderNames
<1>2. Local(r)'
  <2>1. BodyFits(r)'
    BY DEF TypeOK, BodyFits, Charges, Refunds
  <2>2. RowFits(r)'
    BY <1>0 DEF TypeOK, BodyFits, RowFits, HeldFits, ProviderFits, Row, Status
  <2>3. HeldFits(r)'
    BY <1>0 DEF TypeOK, BodyFits, RowFits, HeldFits, ProviderFits, Row, Status, PendingRow, Insertable
  <2>4. ProviderFits(r)'
    BY <1>0 DEF TypeOK, BodyFits, RowFits, HeldFits, ProviderFits, Row, Status
  <2>5. OwnsKey(r)'
    BY DEF TypeOK, BodyFits, ProviderFits, OwnsKey, Charges, Refunds, NotYet
  <2> QED
    BY <2>1, <2>2, <2>3, <2>4, <2>5 DEF Local
<1>3. ASSUME NEW s \in Requests \ {r} PROVE Same(s)
  BY DEF TypeOK, Same, BodyFits, Refunds
<1> QED
  BY <1>1, <1>2, <1>3 DEF Advances

\* A failed charge is recorded, or r is marked as hit by a failure.
LEMMA RecordFailureAdvances ==
    ASSUME IndInv, NEW r \in Requests, RecordFailure(r)
    PROVE  Advances(r)
<1> USE PaymentAssumption, NoRowAssumption
<1> USE DEF IndInv, RecordFailure, Finish, Performed, Fault, AfterError, tables, outside
<1>1. TypeOK'
  BY DEF TypeOK, Row, Status, PCs, Charges, Refunds, NotYet, BodyFits, HeldFits, ProviderNames
<1>2. Local(r)'
  <2>1. BodyFits(r)'
    BY DEF TypeOK, BodyFits, Charges, Refunds
  <2>2. RowFits(r)'
    BY DEF TypeOK, BodyFits, RowFits, HeldFits, ProviderFits, Row, Status
  <2>3. HeldFits(r)'
    BY DEF TypeOK, BodyFits, RowFits, HeldFits, ProviderFits, Row, Status, PendingRow, Insertable
  <2>4. ProviderFits(r)'
    BY DEF TypeOK, BodyFits, RowFits, HeldFits, ProviderFits, Row, Status
  <2>5. OwnsKey(r)'
    BY DEF TypeOK, BodyFits, ProviderFits, OwnsKey, Charges, Refunds, NotYet
  <2> QED
    BY <2>1, <2>2, <2>3, <2>4, <2>5 DEF Local
<1>3. ASSUME NEW s \in Requests \ {r} PROVE Same(s)
  BY DEF TypeOK, Same, BodyFits, Refunds
<1> QED
  BY <1>1, <1>2, <1>3 DEF Advances

\* The provider's answer is recorded before r goes on to publish.
LEMMA RecordChargeAdvances ==
    ASSUME IndInv, NEW r \in Requests, RecordCharge(r)
    PROVE  Advances(r)
<1> USE PaymentAssumption, NoRowAssumption
<1> USE DEF IndInv, RecordCharge, Goto, Finish, Performed, Fault, AfterError, tables, outside
<1>1. TypeOK'
  BY DEF TypeOK, Row, Status, PCs, Charges, Refunds, NotYet, BodyFits, HeldFits, ProviderNames
<1>2. Local(r)'
  <2>1. BodyFits(r)'
    BY DEF TypeOK, BodyFits, Charges, Refunds
  <2>2. RowFits(r)'
    BY DEF TypeOK, BodyFits, RowFits, HeldFits, ProviderFits, Row, Status
  <2>3. HeldFits(r)'
    BY DEF TypeOK, BodyFits, RowFits, HeldFits, ProviderFits, Row, Status, PendingRow, Insertable
  <2>4. ProviderFits(r)'
    BY DEF TypeOK, BodyFits, RowFits, HeldFits, ProviderFits, Row, Status
  <2>5. OwnsKey(r)'
    BY DEF TypeOK, BodyFits, ProviderFits, OwnsKey, Charges, Refunds, NotYet
  <2> QED
    BY <2>1, <2>2, <2>3, <2>4, <2>5 DEF Local
<1>3. ASSUME NEW s \in Requests \ {r} PROVE Same(s)
  BY DEF TypeOK, Same, BodyFits, Refunds
<1> QED
  BY <1>1, <1>2, <1>3 DEF Advances

\* A refund holds a copy of some stored row.
LEMMA LoadOriginalAdvances ==
    ASSUME IndInv, NEW r \in Requests, LoadOriginal(r)
    PROVE  Advances(r)
<1> USE PaymentAssumption, NoRowAssumption
<1> USE DEF IndInv, LoadOriginal, Goto, Finish, Performed, Fault, AfterError, tables, outside
<1>1. TypeOK'
  BY DEF TypeOK, PCs, BodyFits, Refunds
<1>2. Local(r)'
  <2>1. BodyFits(r)'
    BY DEF TypeOK, BodyFits, Charges, Refunds
  <2>2. RowFits(r)'
    BY DEF TypeOK, BodyFits, RowFits, HeldFits, ProviderFits, Row, Status
  <2>3. HeldFits(r)'
    BY DEF TypeOK, BodyFits, RowFits, HeldFits, ProviderFits, Row, Status, PendingRow, Insertable
  <2>4. ProviderFits(r)'
    BY DEF TypeOK, BodyFits, RowFits, HeldFits, ProviderFits, Row, Status
  <2>5. OwnsKey(r)'
    BY DEF TypeOK, BodyFits, ProviderFits, OwnsKey, Charges, Refunds, NotYet
  <2> QED
    BY <2>1, <2>2, <2>3, <2>4, <2>5 DEF Local
<1>3. ASSUME NEW s \in Requests \ {r} PROVE Same(s)
  BY DEF TypeOK, Same, BodyFits, Refunds
<1> QED
  BY <1>1, <1>2, <1>3 DEF Advances

\* A refund the provider answered holds a row the table will not take.
LEMMA RefundAdvances ==
    ASSUME IndInv, NEW r \in Requests, Refund(r)
    PROVE  Advances(r)
<1> USE PaymentAssumption, NoRowAssumption
<1> USE DEF IndInv, Refund, RefundRefused, RefundAnswerLost, RefundSucceeded, RefundNotSucceeded,
            Goto, Finish, MoneyReturned, Performed, Fault, AfterError, tables, outside
<1>0. factory[tx[r].provider] \in {"mock", "stripe"} =>
        /\ RefundRow(r) \in Row
        /\ ~ Insertable(RefundRow(r))
        /\ RefundRow(r).amount = req[r].amount
  BY DEF TypeOK, BodyFits, RefundRow, Insertable, Row, Status, Refunds, ProviderNames
<1>4. returned' \in [Requests -> Nat]
  <2>1. req[r].amount \in Nat /\ req[r].orig \in Requests
    BY DEF BodyFits, Refunds
  <2> QED
    BY <2>1 DEF TypeOK
<1>1. TypeOK'
  BY <1>0, <1>4 DEF TypeOK, Row, Status, PCs, Charges, Refunds, NotYet, BodyFits, HeldFits, ProviderNames
<1>2. Local(r)'
  <2>1. BodyFits(r)'
    BY DEF TypeOK, BodyFits, Charges, Refunds
  <2>2. RowFits(r)'
    BY <1>0 DEF TypeOK, BodyFits, RowFits, HeldFits, ProviderFits, Row, Status
  <2>3. HeldFits(r)'
    BY <1>0 DEF TypeOK, BodyFits, RowFits, HeldFits, ProviderFits, Row, Status, PendingRow, Insertable
  <2>4. ProviderFits(r)'
    BY <1>0 DEF TypeOK, BodyFits, RowFits, HeldFits, ProviderFits, Row, Status
  <2>5. OwnsKey(r)'
    BY DEF TypeOK, BodyFits, ProviderFits, OwnsKey, Charges, Refunds, NotYet
  <2> QED
    BY <2>1, <2>2, <2>3, <2>4, <2>5 DEF Local
<1>3. ASSUME NEW s \in Requests \ {r} PROVE Same(s)
  BY DEF TypeOK, Same, BodyFits, Refunds
<1> QED
  BY <1>1, <1>2, <1>3 DEF Advances

\* The refund row is refused, so r ends without a row and without an event.
LEMMA StoreRefundAdvances ==
    ASSUME IndInv, NEW r \in Requests, StoreRefund(r)
    PROVE  Advances(r)
<1> USE PaymentAssumption, NoRowAssumption
<1> USE DEF IndInv, StoreRefund, Insert, Goto, Finish, Performed, Fault, AfterError, tables, outside
<1>1. TypeOK'
  BY DEF TypeOK, Row, Status, PCs, Charges, Refunds, NotYet, BodyFits, HeldFits, ProviderNames
<1>2. Local(r)'
  <2>1. BodyFits(r)'
    BY DEF TypeOK, BodyFits, Charges, Refunds
  <2>2. RowFits(r)'
    BY DEF TypeOK, BodyFits, RowFits, HeldFits, ProviderFits, Row, Status
  <2>3. HeldFits(r)'
    BY DEF TypeOK, BodyFits, RowFits, HeldFits, ProviderFits, Row, Status, PendingRow, Insertable
  <2>4. ProviderFits(r)'
    BY DEF TypeOK, BodyFits, RowFits, HeldFits, ProviderFits, Row, Status
  <2>5. OwnsKey(r)'
    BY DEF TypeOK, BodyFits, ProviderFits, OwnsKey, Charges, Refunds, NotYet
  <2> QED
    BY <2>1, <2>2, <2>3, <2>4, <2>5 DEF Local
<1>3. ASSUME NEW s \in Requests \ {r} PROVE Same(s)
  BY DEF TypeOK, Same, BodyFits, Refunds
<1> QED
  BY <1>1, <1>2, <1>3 DEF Advances

\* Only a request whose row is settled publishes and answers 201.
LEMMA PublishAdvances ==
    ASSUME IndInv, NEW r \in Requests, Publish(r)
    PROVE  Advances(r)
<1> USE PaymentAssumption, NoRowAssumption
<1> USE DEF IndInv, Publish, Finish, Performed, Fault, AfterError, tables, outside
<1>1. TypeOK'
  BY DEF TypeOK, Row, Status, PCs, Charges, Refunds, NotYet, BodyFits, HeldFits, ProviderNames
<1>2. Local(r)'
  <2>1. BodyFits(r)'
    BY DEF TypeOK, BodyFits, Charges, Refunds
  <2>2. RowFits(r)'
    BY DEF TypeOK, BodyFits, RowFits, HeldFits, ProviderFits, Row, Status
  <2>3. HeldFits(r)'
    BY DEF TypeOK, BodyFits, RowFits, HeldFits, ProviderFits, Row, Status, PendingRow, Insertable
  <2>4. ProviderFits(r)'
    BY DEF TypeOK, BodyFits, RowFits, HeldFits, ProviderFits, Row, Status
  <2>5. OwnsKey(r)'
    BY DEF TypeOK, BodyFits, ProviderFits, OwnsKey, Charges, Refunds, NotYet
  <2> QED
    BY <2>1, <2>2, <2>3, <2>4, <2>5 DEF Local
<1>3. ASSUME NEW s \in Requests \ {r} PROVE Same(s)
  BY DEF TypeOK, Same, BodyFits, Refunds
<1> QED
  BY <1>1, <1>2, <1>3 DEF Advances

\* A disconnect only marks the request.
LEMMA DisconnectAdvances ==
    ASSUME IndInv, NEW r \in Requests, Disconnect(r)
    PROVE  Advances(r)
<1> USE PaymentAssumption, NoRowAssumption
<1> USE DEF IndInv, Disconnect, InFlight, Performed, Fault, AfterError, tables, outside
<1>1. TypeOK'
  BY DEF TypeOK, Row, Status, PCs, Charges, Refunds, NotYet, BodyFits, HeldFits, ProviderNames
<1>2. Local(r)'
  <2>1. BodyFits(r)'
    BY DEF TypeOK, BodyFits, Charges, Refunds
  <2>2. RowFits(r)'
    BY DEF TypeOK, BodyFits, RowFits, HeldFits, ProviderFits, Row, Status
  <2>3. HeldFits(r)'
    BY DEF TypeOK, BodyFits, RowFits, HeldFits, ProviderFits, Row, Status, PendingRow, Insertable
  <2>4. ProviderFits(r)'
    BY DEF TypeOK, BodyFits, RowFits, HeldFits, ProviderFits, Row, Status
  <2>5. OwnsKey(r)'
    BY DEF TypeOK, BodyFits, ProviderFits, OwnsKey, Charges, Refunds, NotYet
  <2> QED
    BY <2>1, <2>2, <2>3, <2>4, <2>5 DEF Local
<1>3. ASSUME NEW s \in Requests \ {r} PROVE Same(s)
  BY DEF TypeOK, Same, BodyFits, Refunds
<1> QED
  BY <1>1, <1>2, <1>3 DEF Advances

\* A restart ends every request in flight and marks it.
LEMMA CrashKeepsIndInv == IndInv /\ Crash => IndInv'
<1> SUFFICES ASSUME IndInv, Crash PROVE IndInv'
  OBVIOUS
<1> USE DEF IndInv, Crash, InFlight, tables, outside
<1>1. TypeOK'
  BY DEF TypeOK, PCs
<1>2. ASSUME NEW r \in Requests PROVE Local(r)'
  <2>1. BodyFits(r)'
    BY DEF TypeOK, BodyFits
  <2>2. RowFits(r)'
    BY DEF TypeOK, RowFits
  <2>3. HeldFits(r)'
    BY DEF TypeOK, HeldFits
  <2>4. ProviderFits(r)'
    BY DEF TypeOK, ProviderFits
  <2>5. OwnsKey(r)'
    BY DEF TypeOK, OwnsKey
  <2> QED
    BY <2>1, <2>2, <2>3, <2>4, <2>5 DEF Local
<1> QED
  BY <1>1, <1>2 DEF Local

\* IndInv is inductive: one case per action.
LEMMA NextIndInv == IndInv /\ [Next]_vars => IndInv'
<1> SUFFICES ASSUME IndInv, [Next]_vars PROVE IndInv'
  OBVIOUS
<1>1. ASSUME NEW r \in Requests, Advances(r) PROVE IndInv'
  <2>1. ASSUME NEW s \in Requests PROVE Local(s)'
    <3>1. CASE s = r
      BY <1>1, <3>1 DEF Advances
    <3>2. CASE s # r
      BY <1>1, <3>2, Frame DEF Advances, IndInv, Local
    <3> QED
      BY <3>1, <3>2
  <2> QED
    BY <1>1, <2>1 DEF Advances, IndInv, Local
<1>2. ASSUME NEW r \in Requests, Arrive(r) \/ Step(r) \/ Disconnect(r) PROVE Advances(r)
  BY <1>2, ArriveAdvances, CheckAndSaveAdvances, LoadMethodAdvances, CreatePendingAdvances,
     ChargeAdvances, RecordFailureAdvances, RecordChargeAdvances, LoadOriginalAdvances,
     RefundAdvances, StoreRefundAdvances, PublishAdvances, DisconnectAdvances
     DEF Step
<1>3. CASE UNCHANGED vars
  <2>1. TypeOK'
    BY <1>3 DEF vars, IndInv, TypeOK
  <2>2. ASSUME NEW s \in Requests PROVE Local(s)'
    BY <1>3, Frame DEF vars, IndInv, Local, Same
  <2> QED
    BY <2>1, <2>2 DEF IndInv, Local
<1> QED
  BY <1>1, <1>2, <1>3, CrashKeepsIndInv DEF Next, AllDone

-----------------------------------------------------------------------------
(* Theorems *)

\* Every reachable state satisfies the inductive invariant.
THEOREM Invariance == Spec => []IndInv
  BY InitIndInv, NextIndInv, PTL DEF Spec

\* Every table, local and ledger of the payment path keeps its type.
THEOREM TypeCorrect == Spec => []TypeOK
<1>1. IndInv => TypeOK
  BY DEF IndInv
<1> QED
  BY <1>1, Invariance, PTL

\* For any number of requests, keys and restarts, two requests with the same
\* idempotency key are never both charged: each charged request owns its key.
THEOREM ChargeOncePerKey == Spec => []AtMostOneChargePerKey
<1>1. IndInv => AtMostOneChargePerKey
  BY DEF IndInv, TypeOK, OwnsKey, AtMostOneChargePerKey
<1> QED
  BY <1>1, Invariance, PTL

\* A "succeeded" row is always backed by a charge of the same amount.
THEOREM RowsAreBacked == Spec => []SucceededMeansCharged
<1>1. IndInv => SucceededMeansCharged
  BY DEF IndInv, RowFits, SucceededMeansCharged
<1> QED
  BY <1>1, Invariance, PTL

\* A request that met no infrastructure failure ends with its row and the
\* provider's ledger in agreement.
THEOREM CleanRequestsBalance == Spec => []CleanRequestBalances
<1>1. IndInv => CleanRequestBalances
  BY DEF IndInv, ProviderFits, CleanRequestBalances
<1> QED
  BY <1>1, Invariance, PTL

\* Events and 201 answers only ever speak of stored, settled rows.
THEOREM AnnouncementsAreStored == Spec => []AnnouncedMeansStored
<1>1. IndInv => AnnouncedMeansStored
  BY DEF IndInv, ProviderFits, AnnouncedMeansStored
<1> QED
  BY <1>1, Invariance, PTL

\* A row that left "pending" is never written again, by any request or restart.
THEOREM SettledStaysSettled == Spec => SettledRowsAreFinal
<1> DEFINE Keeps == \A r \in Requests : rows[r] # NoRow /\ rows[r].status # "pending"
                                            => rows'[r] = rows[r]
<1>1. ASSUME IndInv, [Next]_vars PROVE Keeps
  <2>1. ASSUME NEW r \in Requests, Arrive(r) \/ Step(r) \/ Disconnect(r) PROVE Keeps
    <3>1. Advances(r)
      BY <1>1, <2>1, ArriveAdvances, CheckAndSaveAdvances, LoadMethodAdvances,
         CreatePendingAdvances, ChargeAdvances, RecordFailureAdvances, RecordChargeAdvances,
         LoadOriginalAdvances, RefundAdvances, StoreRefundAdvances, PublishAdvances,
         DisconnectAdvances DEF Step
    <3>2. rows[r] # NoRow /\ rows[r].status # "pending" =>
            pc[r] \in {"publish", "done"}
      BY <1>1 DEF IndInv, TypeOK, PCs, RowFits
    <3>3. pc[r] \in {"publish", "done"} => rows' = rows
      BY <2>1 DEF Arrive, Step, CheckAndSave, LoadMethod, CreatePending, Insert, Charge, RecordFailure,
                  RecordCharge, LoadOriginal, Refund, StoreRefund, Publish, Disconnect, tables
    <3> QED
      BY <3>1, <3>2, <3>3 DEF Advances, Same
  <2>2. CASE Crash \/ UNCHANGED vars
    BY <2>2 DEF Crash, vars, tables
  <2> QED
    BY <1>1, <2>1, <2>2 DEF Next, AllDone
<1>2. Keeps => [Keeps]_vars
  OBVIOUS
<1> QED
  BY <1>1, Invariance, PTL DEF Spec, SettledRowsAreFinal

\* The code's charge path implements the abstract promise ChargeOnce, with the
\* idempotency_keys table as the owner map.
THEOREM Refinement == Spec => ImplementsPromise
<1>1. Init => Promise!Init
  BY DEF Init, Promise!Init, NotYet
<1>2. ASSUME IndInv, [Next]_vars PROVE [Promise!Next]_(Promise!vars)
  <2>1. ASSUME UNCHANGED <<req, idem, charged>> PROVE UNCHANGED Promise!vars
    BY <2>1 DEF Promise!vars
  <2>2. ASSUME NEW r \in Requests, Arrive(r) PROVE Promise!Submit(r) \/ UNCHANGED Promise!vars
    <3>1. PICK b \in Charges \cup Refunds : req' = [req EXCEPT ![r] = b]
      BY <2>2 DEF Arrive
    <3>2. /\ req[r].key = NoKey
          /\ r \notin charged
          /\ \A k \in Keys : idem[k] # r
          /\ UNCHANGED <<idem, charged>>
          /\ b.key \in Keys \cup {NoKey}
      BY <1>2, <2>2, <3>1
         DEF IndInv, Arrive, BodyFits, ProviderFits, OwnsKey, NotYet, tables, outside, Charges, Refunds
    <3>3. req \in [Requests -> Charges \cup Refunds \cup {NotYet}]
      BY <1>2 DEF IndInv, TypeOK
    <3>4. [s \in Requests |-> req[s].key]' =
             [[s \in Requests |-> req[s].key] EXCEPT ![r] = b.key]
      BY <3>1, <3>3
    <3>5. CASE b.key \in Keys
      BY <3>2, <3>4, <3>5 DEF Promise!Submit
    <3>6. CASE b.key = NoKey
      BY <3>1, <3>2, <3>3, <3>6 DEF Promise!vars
    <3> QED
      BY <3>2, <3>5, <3>6
  <2>3. ASSUME NEW r \in Requests, CheckAndSave(r)
        PROVE  Promise!Claim(r) \/ UNCHANGED Promise!vars
    <3>1. req[r].key \in Keys /\ UNCHANGED <<req, charged>>
      BY <1>2, <2>3 DEF IndInv, BodyFits, CheckAndSave, outside
    <3>2. CASE KeyIsFree(req[r].key) /\ idem' = [idem EXCEPT ![req[r].key] = r]
      BY <3>1, <3>2 DEF Promise!Claim, KeyIsFree
    <3>3. CASE idem' = idem
      BY <3>1, <3>3 DEF Promise!vars
    <3> QED
      BY <2>3, <3>2, <3>3 DEF CheckAndSave, KeyRowAfter, AfterError
  <2>4. ASSUME NEW r \in Requests, Charge(r) PROVE Promise!Charge(r) \/ UNCHANGED Promise!vars
    <3>1. /\ UNCHANGED <<req, idem>>
          /\ charged' = charged \/ charged' = charged \cup {r}
      BY <2>4 DEF Charge, ChargeRefused, ChargeAnswerLost, ChargeSucceeded, ChargeNotSucceeded,
                  tables
    <3>2. r \notin charged /\ (req[r].key = NoKey \/ idem[req[r].key] = r)
      BY <1>2, <2>4 DEF IndInv, ProviderFits, OwnsKey, Charge
    <3> QED
      BY <3>1, <3>2 DEF Promise!Charge, Promise!vars
  <2>5. ASSUME NEW r \in Requests, Step(r), ~ CheckAndSave(r), ~ Charge(r)
        PROVE  UNCHANGED <<req, idem, charged>>
    BY <2>5 DEF Step, LoadMethod, CreatePending, Insert, RecordFailure, RecordCharge,
                LoadOriginal, Refund, StoreRefund, Publish, tables, outside
  <2>6. ASSUME NEW r \in Requests, Disconnect(r) PROVE UNCHANGED <<req, idem, charged>>
    BY <2>6 DEF Disconnect, tables, outside
  <2>7. CASE Crash \/ UNCHANGED vars
    BY <2>1, <2>7 DEF Crash, vars, tables, outside
  <2> QED
    BY <1>2, <2>1, <2>2, <2>3, <2>4, <2>5, <2>6, <2>7 DEF Next, AllDone, Promise!Next
<1> QED
  BY <1>1, <1>2, Invariance, PTL DEF Spec, ImplementsPromise, Promise!Spec
=============================================================================
