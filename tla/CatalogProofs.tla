--------------------------- MODULE CatalogProofs ---------------------------
(***************************************************************************)
(* Proofs about Catalog, for any number of requests and any prices.  What  *)
(* the table holds depends on the copies requests carry from their SELECT  *)
(* to their UPDATE: a copy about to be written fits the table, and after   *)
(* the service's check it has a positive price (RequestFits).              *)
(***************************************************************************)
EXTENDS Catalog, TLAPS

\* A patch holds only what the handler of this table lets through.
PatchFits(p) ==
    /\ table = "merchants" => p.status \in {Absent, "active", "other"}
    /\ table = "provider_configs" => p.status \in {Absent, "degraded", "other"}
    /\ table = "products" => p.status \in {Absent, "active", "archived", "other"}

\* What a request carries.  One that is about to write although the product
\* is archived was overtaken.
RequestFits(rq) ==
    /\ PatchFits(rq.patch)
    /\ rq.at \in {"check", "write"} => born /\ rq.copy \in Rows[table]
    /\ rq.at = "check" => table = "products"
    /\ rq.at = "write" /\ table = "products" => rq.copy.price > 0
    /\ rq.at = "write" /\ Archived => rq.overtaken

IndInv ==
    /\ TypeOK
    /\ PriceIsPositive
    /\ ~ born => row = Absent
    /\ \A r \in Requests : RequestFits(req[r])

-----------------------------------------------------------------------------

\* The five tables and their rows.
LEMMA Tables ==
    /\ DOMAIN Rows = {"merchants", "customers", "payment_methods", "provider_configs", "products"}
    /\ Rows["merchants"] = Merchant /\ Rows["customers"] = Customer
    /\ Rows["payment_methods"] = PaymentMethod /\ Rows["provider_configs"] = ProviderConfig
    /\ Rows["products"] = Product
    /\ NewRows["merchants"] = {NewMerchant} /\ NewRows["customers"] = {NewCustomer}
    /\ NewRows["payment_methods"] = NewPaymentMethods
    /\ NewRows["provider_configs"] = {NewProvider} /\ NewRows["products"] = NewProducts
  BY DEF Rows, NewRows

\* Rows of any table are rows, and Absent is not one, nor a price or a text.
LEMMA RowsAreRows ==
    \A t \in DOMAIN Rows : Rows[t] \subseteq AnyRow /\ Absent \notin Rows[t]
  BY CatalogAssumption DEF AnyRow

\* A created row fits its table, and a created product has a price.
LEMMA NewRowsFit ==
    /\ \A t \in DOMAIN Rows : NewRows[t] \subseteq Rows[t]
    /\ \A p \in NewProducts : p.price > 0
<1>1. NewMerchant \in Merchant /\ NewCustomer \in Customer /\ NewProvider \in ProviderConfig
  BY DEF NewMerchant, Merchant, NewCustomer, Customer, NewProvider, ProviderConfig
<1>2. NewProducts \subseteq Product /\ \A p \in NewProducts : p.price > 0
  BY DEF NewProducts, Product
<1> QED
  BY <1>1, <1>2, Tables DEF NewPaymentMethods

\* A request that has no copy, with a patch that fits, is a request that fits.
LEMMA FreshFits ==
    /\ NoPatch \in Patch /\ PatchFits(NoPatch)
    /\ \A op \in {"none", "create", "get", "list", "update", "delete"},
          at \in {"idle", "done", "insert", "count", "page", "read", "delete"} :
            NewRequest(op, at) \in Request /\ RequestFits(NewRequest(op, at))
    /\ \A rq \in Request, answer \in {"none", "ok", "error"} :
            Answered(rq, answer) \in Request /\ RequestFits(Answered(rq, answer))
<1>1. NoPatch \in Patch /\ PatchFits(NoPatch)
  BY DEF NoPatch, Patch, PatchFits
<1>2. ASSUME NEW op \in {"none", "create", "get", "list", "update", "delete"},
             NEW at \in {"idle", "done", "insert", "count", "page", "read", "delete"}
      PROVE  NewRequest(op, at) \in Request /\ RequestFits(NewRequest(op, at))
  BY <1>1 DEF NewRequest, Request, RequestFits, Busy
<1>3. ASSUME NEW rq \in Request, NEW answer \in {"none", "ok", "error"}
      PROVE  Answered(rq, answer) \in Request /\ RequestFits(Answered(rq, answer))
  BY <1>1 DEF Answered, NewRequest, Request, RequestFits, Busy
<1> QED
  BY <1>1, <1>2, <1>3

\* The initial states: no request is under way.
LEMMA InitIndInv == Init => IndInv
<1> SUFFICES ASSUME Init PROVE IndInv
  OBVIOUS
<1>1. table \in DOMAIN Rows /\ row \in Rows[table] \cup {Absent} /\ PriceIsPositive
  <2>1. [NewMerchant EXCEPT !.slug = "set"] \in Merchant /\ [external_id |-> "set"] \in Customer
    BY DEF NewMerchant, Merchant, Customer
  <2>2. CASE table = "products"
    BY <2>2, Tables, NewRowsFit DEF Init, PriceIsPositive
  <2>3. CASE table = "merchants"
    BY <2>1, <2>3, Tables, NewRowsFit DEF Init, PriceIsPositive
  <2>4. CASE table = "customers"
    BY <2>1, <2>4, Tables, NewRowsFit DEF Init, PriceIsPositive
  <2>5. CASE table \in {"payment_methods", "provider_configs"}
    BY <2>5, Tables, NewRowsFit DEF Init, PriceIsPositive
  <2> QED
    BY <2>2, <2>3, <2>4, <2>5, Tables DEF Init
<1>2. req \in [Requests -> Request] /\ \A r \in Requests : RequestFits(req[r])
  BY FreshFits DEF Init
<1> QED
  BY <1>1, <1>2 DEF Init, IndInv, TypeOK

\* A step of one request that leaves the table alone.
LEMMA OneRequest ==
    ASSUME IndInv, NEW r \in Requests, UNCHANGED <<table, row, born>>,
           \E rq \in Request : RequestFits(rq) /\ req' = [req EXCEPT ![r] = rq]
    PROVE  IndInv'
<1>1. PICK rq \in Request : RequestFits(rq) /\ req' = [req EXCEPT ![r] = rq]
  OBVIOUS
<1>2. req' \in [Requests -> Request]
  BY <1>1 DEF IndInv, TypeOK
<1>3. ASSUME NEW q \in Requests PROVE RequestFits(req[q])'
  <2>1. RequestFits(req'[q])
    BY <1>1 DEF IndInv, TypeOK
  <2> QED
    BY <2>1 DEF RequestFits, PatchFits, Archived
<1> QED
  BY <1>2, <1>3 DEF IndInv, TypeOK, PriceIsPositive

\* A request that is answered and leaves the table alone.
LEMMA AnswerStep ==
    ASSUME IndInv, NEW r \in Requests, UNCHANGED <<table, row, born>>,
           \E answer \in {"ok", "error"} : Answer(r, answer)
    PROVE  IndInv'
<1>1. PICK answer \in {"ok", "error"} : req' = [req EXCEPT ![r] = Answered(req[r], answer)]
  BY DEF Answer
<1>2. req[r] \in Request
  BY DEF IndInv, TypeOK
<1>3. Answered(req[r], answer) \in Request /\ RequestFits(Answered(req[r], answer))
  BY <1>2, FreshFits
<1> QED
  BY <1>1, <1>3, OneRequest

\* A request arrives, or is refused on arrival.
LEMMA ArriveStep ==
    ASSUME IndInv, NEW r \in Requests, NEW t,
           \E rq \in Request : RequestFits(rq) /\ Arrive(r, t, rq)
    PROVE  IndInv'
<1>1. PICK rq \in Request : RequestFits(rq) /\ Arrive(r, t, rq)
  OBVIOUS
<1>2. Answered(rq, "error") \in Request /\ RequestFits(Answered(rq, "error"))
  BY FreshFits
<1> QED
  BY <1>1, <1>2, OneRequest DEF Arrive

\* The handlers, up to their first statement.
Handlers(r) ==
    \/ CreateMerchant(r) \/ ListMerchants(r) \/ GetMerchant(r) \/ UpdateMerchant(r)
    \/ CreateCustomer(r) \/ ListCustomers(r) \/ GetCustomer(r) \/ UpdateCustomer(r)
    \/ CreatePaymentMethod(r) \/ ListPaymentMethods(r) \/ GetPaymentMethod(r)
    \/ DeletePaymentMethod(r)
    \/ CreateProvider(r) \/ ListProviders(r) \/ GetProvider(r) \/ UpdateProvider(r)
    \/ DeleteProvider(r)
    \/ CreateProduct(r) \/ ListProducts(r) \/ GetProduct(r) \/ UpdateProduct(r)
    \/ DeleteProduct(r)

\* A handler's request fits the table it is for.
LEMMA HandlerStep ==
    ASSUME IndInv, NEW r \in Requests, Handlers(r)
    PROVE  IndInv'
<1>1. ASSUME NEW t, \/ Arrive(r, t, NewRequest("create", "insert"))
                    \/ Arrive(r, t, NewRequest("list", "count"))
                    \/ Arrive(r, t, NewRequest("list", "page"))
                    \/ Arrive(r, t, NewRequest("get", "read"))
                    \/ Arrive(r, t, NewRequest("delete", "delete"))
      PROVE  IndInv'
  BY <1>1, FreshFits, ArriveStep
<1>2. ASSUME NEW t, NEW statuses, NEW prices, Update(r, t, statuses, prices),
             statuses \subseteq {"active", "degraded", "archived", "other"}, prices \subseteq Prices,
             t = "merchants" => statuses \subseteq {"active", "other"},
             t = "provider_configs" => statuses \subseteq {"degraded", "other"},
             t = "products" => statuses \subseteq {"active", "archived", "other"}
      PROVE  IndInv'
  <2>1. PICK p \in [status : statuses \cup {Absent}, price : prices \cup {Absent}] :
            Arrive(r, t, [NewRequest("update", "read") EXCEPT !.patch = p])
    BY <1>2 DEF Update
  <2>2. p \in Patch /\ p.status \in statuses \cup {Absent}
    BY <1>2 DEF Patch
  <2>3. PatchFits(p)
    BY <1>2, <2>1, <2>2 DEF PatchFits, Arrive
  <2>4. /\ [NewRequest("update", "read") EXCEPT !.patch = p] \in Request
        /\ RequestFits([NewRequest("update", "read") EXCEPT !.patch = p])
    BY <2>2, <2>3 DEF NewRequest, Request, RequestFits, Busy
  <2> QED
    BY <2>1, <2>4, ArriveStep
<1>3. CASE UpdateMerchant(r)
  BY <1>2, <1>3 DEF UpdateMerchant
<1>4. CASE UpdateCustomer(r)
  BY <1>2, <1>4 DEF UpdateCustomer
<1>5. CASE UpdateProvider(r)
  BY <1>2, <1>5 DEF UpdateProvider
<1>6. CASE UpdateProduct(r)
  BY <1>2, <1>6 DEF UpdateProduct
<1> QED
  BY <1>1, <1>3, <1>4, <1>5, <1>6
     DEF Handlers, CreateMerchant, ListMerchants, GetMerchant, CreateCustomer, ListCustomers,
         GetCustomer, CreatePaymentMethod, ListPaymentMethods, GetPaymentMethod,
         DeletePaymentMethod, CreateProvider, ListProviders, GetProvider, DeleteProvider,
         CreateProduct, ListProducts, GetProduct, DeleteProduct

\* Count and Page change nothing but their request.
LEMMA ListStep ==
    ASSUME IndInv, NEW r \in Requests, Count(r) \/ Page(r)
    PROVE  IndInv'
<1>1. ASSUME Count(r), Goto(r, "page") PROVE IndInv'
  <2>1. /\ [req[r] EXCEPT !.at = "page"] \in Request
        /\ RequestFits([req[r] EXCEPT !.at = "page"])
    BY <1>1 DEF IndInv, TypeOK, Request, RequestFits, Busy
  <2>2. req' = [req EXCEPT ![r] = [req[r] EXCEPT !.at = "page"]]
    BY <1>1 DEF Goto
  <2> QED
    BY <1>1, <2>1, <2>2, OneRequest DEF Count
<1> QED
  BY <1>1, AnswerStep DEF Count, Page

\* The patched copy of a row fits the table.
LEMMA PatchedFits ==
    ASSUME IndInv, row # Absent, NEW p \in Patch, PatchFits(p), ~ EnumRefuses(p)
    PROVE  Patched(p) \in Rows[table]
<1>1. row \in Rows[table] /\ table \in DOMAIN Rows
  BY DEF IndInv, TypeOK
<1>2. CASE table = "merchants"
  <2>1. row \in Merchant /\ p.status \in {Absent, "active"}
    BY <1>1, <1>2, Tables DEF PatchFits, EnumRefuses
  <2>2. Patched(p) = IF p.status # Absent THEN [row EXCEPT !.status = p.status] ELSE row
    BY <1>2 DEF Patched
  <2>3. [row EXCEPT !.status = "active"] \in Merchant
    BY <2>1 DEF Merchant
  <2> QED
    BY <1>2, <2>1, <2>2, <2>3, Tables
<1>3. CASE table = "provider_configs"
  <2>1. row \in ProviderConfig /\ p.status \in {Absent, "degraded"}
    BY <1>1, <1>3, Tables DEF PatchFits, EnumRefuses
  <2>2. Patched(p) = IF p.status # Absent THEN [row EXCEPT !.health_status = p.status] ELSE row
    BY <1>3 DEF Patched
  <2>3. [row EXCEPT !.health_status = "degraded"] \in ProviderConfig
    BY <2>1 DEF ProviderConfig
  <2> QED
    BY <1>3, <2>1, <2>2, <2>3, Tables
<1>4. CASE table = "products"
  <2> DEFINE status == IF p.status # Absent THEN p.status ELSE row.status
             price == IF p.price # Absent THEN p.price ELSE row.price
  <2>1. row \in Product
    BY <1>1, <1>4, Tables
  <2>2. /\ status \in {"active", "inactive", "archived", "other"}
        /\ price \in Prices
    BY <1>4, <2>1 DEF Patch, PatchFits, Product
  <2>3. Patched(p) = [row EXCEPT !.status = status, !.price = price]
    BY <1>4 DEF Patched
  <2> HIDE DEF status, price
  <2>4. [row EXCEPT !.status = status, !.price = price] \in Product
    BY <2>1, <2>2 DEF Product
  <2> QED
    BY <1>4, <2>3, <2>4, Tables
<1>5. CASE table \in {"customers", "payment_methods"}
  BY <1>1, <1>5 DEF Patched
<1> QED
  BY <1>1, <1>2, <1>3, <1>4, <1>5, Tables

\* The SELECT: the copy fits the table.
LEMMA ReadStep ==
    ASSUME IndInv, NEW r \in Requests, Read(r)
    PROVE  IndInv'
<1>1. CASE \E answer \in {"ok", "error"} : Answer(r, answer)
  BY <1>1, AnswerStep DEF Read
<1>2. CASE /\ Live
           /\ req' = [req EXCEPT ![r].at = IF table = "products" THEN "check" ELSE "write",
                                 ![r].copy = IF EnumRefuses(req[r].patch) THEN row
                                             ELSE Patched(req[r].patch)]
  <2> DEFINE at == IF table = "products" THEN "check" ELSE "write"
             copy == IF EnumRefuses(req[r].patch) THEN row ELSE Patched(req[r].patch)
             rq == [req[r] EXCEPT !.at = at, !.copy = copy]
  <2>1. req[r] \in Request /\ RequestFits(req[r]) /\ row # Absent /\ born /\ table \in DOMAIN Rows
    BY <1>2 DEF IndInv, TypeOK, Live
  <2>2. copy \in Rows[table]
    BY <2>1, PatchedFits DEF IndInv, TypeOK, Request, RequestFits
  <2>3. copy \in AnyRow
    BY <2>1, <2>2, RowsAreRows
  <2>4. req' = [req EXCEPT ![r] = rq]
    BY <1>2
  <2> HIDE DEF copy
  <2>5. rq \in Request /\ RequestFits(rq)
    BY <2>1, <2>2, <2>3 DEF Request, RequestFits, Busy, Archived
  <2> QED
    BY <2>4, <2>5, OneRequest DEF Read
<1> QED
  BY <1>1, <1>2 DEF Read

\* The service's check: the copy gets a positive price, and the product is
\* not archived.
LEMMA CheckStep ==
    ASSUME IndInv, NEW r \in Requests, Check(r)
    PROVE  IndInv'
<1>1. CASE Answer(r, "error")
  BY <1>1, AnswerStep DEF Check
<1>2. CASE /\ Live /\ ~ Refused(req[r].copy)
           /\ req' = [req EXCEPT ![r].at = "write",
                                 ![r].copy = [@ EXCEPT !.price = Priced(req[r].copy)]]
  <2> DEFINE copy == [req[r].copy EXCEPT !.price = Priced(req[r].copy)]
             rq == [req[r] EXCEPT !.at = "write", !.copy = copy]
  <2>1. /\ req[r] \in Request /\ RequestFits(req[r]) /\ table = "products" /\ born
        /\ req[r].copy \in Product /\ row \in Product /\ row.price > 0
        /\ row.status # "archived"
    BY <1>2, Tables DEF Check, IndInv, TypeOK, RequestFits, Live, PriceIsPositive, Refused
  <2>2. Priced(req[r].copy) \in Prices /\ Priced(req[r].copy) > 0
    <3>1. req[r].copy.price \in Prices /\ row.price \in Prices
      BY <2>1 DEF Product
    <3>2. req[r].copy.price \in Int /\ row.price \in Int
      BY <3>1, CatalogAssumption
    <3> QED
      BY <2>1, <3>1, <3>2 DEF Priced
  <2>3. copy \in Product /\ copy.price > 0
    BY <2>1, <2>2 DEF Product
  <2>4. copy \in AnyRow /\ copy \in Rows[table]
    BY <2>1, <2>3, Tables, RowsAreRows
  <2>5. req' = [req EXCEPT ![r] = rq]
    BY <1>2
  <2> HIDE DEF copy
  <2>6. rq \in Request /\ RequestFits(rq)
    BY <2>1, <2>3, <2>4 DEF Request, RequestFits, Busy, Archived
  <2> QED
    BY <2>5, <2>6, OneRequest DEF Check
<1> QED
  BY <1>1, <1>2 DEF Check

\* An INSERT puts a row where there never was one: no copy of it is around.
LEMMA InsertStep ==
    ASSUME IndInv, NEW r \in Requests, Insert(r)
    PROVE  IndInv'
<1>1. PICK answer \in {"ok", "error"} : Answer(r, answer)
  BY DEF Insert
<1>2. CASE UNCHANGED <<row, born>>
  BY <1>1, <1>2, AnswerStep DEF Insert
<1>3. CASE ~ born /\ row' \in NewRows[table] /\ born' = TRUE /\ table' = table
  <2>1. req[r] \in Request /\ req' = [req EXCEPT ![r] = Answered(req[r], answer)]
    BY <1>1 DEF Answer, IndInv, TypeOK
  <2>2. Answered(req[r], answer) \in Request /\ RequestFits(Answered(req[r], answer))
    BY <2>1, FreshFits
  <2>3. req' \in [Requests -> Request]
    BY <2>1, <2>2 DEF IndInv, TypeOK
  <2>4. row' \in Rows[table] /\ (table = "products" => row'.price > 0)
    BY <1>3, Tables, NewRowsFit DEF IndInv, TypeOK
  <2>5. \A q \in Requests : RequestFits(req'[q]) /\ req'[q].at \notin {"check", "write"}
    BY <1>3, <2>1, <2>2 DEF IndInv, TypeOK, RequestFits, Answered, NewRequest
  <2>6. ASSUME NEW q \in Requests PROVE RequestFits(req[q])'
    BY <1>3, <2>5 DEF RequestFits, PatchFits
  <2> QED
    BY <1>3, <2>3, <2>4, <2>6 DEF IndInv, TypeOK, PriceIsPositive
<1> QED
  BY <1>2, <1>3 DEF Insert

\* The UPDATE writes a copy that fits, and marks who is overtaken by it.
LEMMA WriteStep ==
    ASSUME IndInv, NEW r \in Requests, Write(r)
    PROVE  IndInv'
<1>1. CASE Answer(r, "error") /\ UNCHANGED row
  BY <1>1, AnswerStep DEF Write
<1>2. ASSUME NEW answer \in {"ok", "error"}, Done(r, answer), row' = Written(req[r].copy)
      PROVE  IndInv'
  <2>1. /\ req[r] \in Request /\ RequestFits(req[r]) /\ req[r].at = "write"
        /\ UNCHANGED <<table, born>> /\ born /\ table \in DOMAIN Rows
        /\ req[r].copy \in Rows[table]
    BY DEF Write, IndInv, TypeOK, RequestFits
  <2>2. row' \in Rows[table] \cup {Absent} /\ PriceIsPositive'
    BY <1>2, <2>1, Tables DEF Written, IndInv, TypeOK, RequestFits, PriceIsPositive
  <2>3. Answered(req[r], answer) \in Request /\ RequestFits(Answered(req[r], answer))
    BY <2>1, FreshFits
  <2>4. ASSUME NEW q \in Requests PROVE req'[q] \in Request /\ RequestFits(req[q])'
    <3>1. CASE q = r
      <4>1. req'[q] = Answered(req[r], answer) /\ req'[q].at = "done"
        BY <1>2, <3>1 DEF Done, Answered, NewRequest
      <4> QED
        BY <2>1, <2>3, <4>1 DEF RequestFits, PatchFits
    <3>2. CASE q # r
      <4>1. req[q] \in Request /\ RequestFits(req[q])
        BY DEF IndInv, TypeOK
      <4>2. req'[q] = [req[q] EXCEPT !.overtaken =
                         req[q].overtaken \/ (~ Archived /\ Archived' /\ req[q].at = "write")]
        BY <1>2, <3>2 DEF Done
      <4>3. /\ req'[q] \in Request /\ req'[q].at = req[q].at /\ req'[q].copy = req[q].copy
            /\ req'[q].patch = req[q].patch
            /\ req[q].at = "write" /\ Archived' => req'[q].overtaken
        <5>1. (req[q].overtaken \/ (~ Archived /\ Archived' /\ req[q].at = "write")) \in BOOLEAN
          OBVIOUS
        <5>2. req[q].overtaken \in BOOLEAN
          BY <4>1 DEF Request
        <5>3. req[q].at = "write" /\ Archived' =>
                (req[q].overtaken \/ (~ Archived /\ Archived' /\ req[q].at = "write"))
          BY <4>1 DEF RequestFits
        <5> QED
          BY <4>1, <4>2, <5>1, <5>2, <5>3 DEF Request
      <4> QED
        BY <2>1, <4>1, <4>3 DEF RequestFits, PatchFits
    <3> QED
      BY <3>1, <3>2
  <2>5. req' \in [Requests -> Request]
    BY <1>2, <2>4 DEF Done
  <2> QED
    BY <2>1, <2>2, <2>4, <2>5 DEF IndInv, TypeOK
<1> QED
  BY <1>1, <1>2 DEF Write

\* The DELETE leaves a product's price and status as they are.
LEMMA DeleteStep ==
    ASSUME IndInv, NEW r \in Requests, Delete(r)
    PROVE  IndInv'
<1>1. CASE Answer(r, "error") /\ UNCHANGED row
  BY <1>1, AnswerStep DEF Delete
<1>2. ASSUME NEW answer \in {"ok", "error"}, Answer(r, answer), Live,
             row' = IF table = "products" THEN [row EXCEPT !.deleted_at = TRUE] ELSE Absent
      PROVE  IndInv'
  <2>1. /\ req[r] \in Request /\ req' = [req EXCEPT ![r] = Answered(req[r], answer)]
        /\ UNCHANGED <<table, born>> /\ born /\ row \in Rows[table] /\ row # Absent
    BY <1>2 DEF Delete, Answer, IndInv, TypeOK, Live
  <2>2. Answered(req[r], answer) \in Request /\ RequestFits(Answered(req[r], answer))
    BY <2>1, FreshFits
  <2>3. req' \in [Requests -> Request] /\ \A q \in Requests : RequestFits(req'[q])
    BY <2>1, <2>2 DEF IndInv, TypeOK
  <2>4. table = "products" =>
            row' \in Product /\ row'.price = row.price /\ row'.status = row.status
    <3>1. table = "products" => row \in Product /\ row' = [row EXCEPT !.deleted_at = TRUE]
      BY <1>2, <2>1, Tables
    <3> QED
      BY <3>1 DEF Product
  <2>5. row' \in Rows[table] \cup {Absent} /\ PriceIsPositive' /\ (Archived' => Archived)
    BY <1>2, <2>1, <2>4, Tables DEF IndInv, PriceIsPositive, Archived
  <2>6. ASSUME NEW q \in Requests PROVE RequestFits(req[q])'
    BY <2>1, <2>3, <2>5 DEF RequestFits, PatchFits
  <2> QED
    BY <2>1, <2>3, <2>5, <2>6 DEF IndInv, TypeOK
<1> QED
  BY <1>1, <1>2 DEF Delete

\* A restart ends the requests.
LEMMA CrashStep ==
    ASSUME IndInv, Crash
    PROVE  IndInv'
<1>1. ASSUME NEW q \in Requests PROVE req'[q] \in Request /\ RequestFits(req'[q])
  BY FreshFits DEF Crash, IndInv, TypeOK
<1>2. req' \in [Requests -> Request]
  BY <1>1 DEF Crash
<1>3. ASSUME NEW q \in Requests PROVE RequestFits(req[q])'
  BY <1>1 DEF Crash, RequestFits, PatchFits, Archived
<1> QED
  BY <1>2, <1>3 DEF Crash, IndInv, TypeOK, PriceIsPositive

\* Next, with the handlers taken together.
LEMMA Steps ==
    ASSUME [Next]_vars
    PROVE  \/ \E r \in Requests :
                \/ Handlers(r) \/ Insert(r) \/ Count(r) \/ Page(r) \/ Read(r) \/ Check(r)
                \/ Write(r) \/ Delete(r)
           \/ Crash
           \/ UNCHANGED vars
  BY DEF Next, Handlers

\* Every step keeps the invariant.
LEMMA NextIndInv == IndInv /\ [Next]_vars => IndInv'
<1> SUFFICES ASSUME IndInv, [Next]_vars PROVE IndInv'
  OBVIOUS
<1>1. CASE UNCHANGED vars
  BY <1>1 DEF vars, IndInv, TypeOK, PriceIsPositive, RequestFits, PatchFits, Archived
<1> QED
  BY <1>1, Steps, HandlerStep, ListStep, ReadStep, CheckStep, InsertStep, WriteStep, DeleteStep,
     CrashStep

-----------------------------------------------------------------------------

\* The row and the copies of it that requests carry always fit together.
THEOREM Invariance == Spec => []IndInv
  BY InitIndInv, NextIndInv, PTL DEF Spec

\* TypeOK holds in every reachable state: no patch puts into a column what
\* its table does not hold.
THEOREM TypeCorrect == Spec => []TypeOK
<1>1. IndInv => TypeOK
  BY DEF IndInv
<1> QED
  BY <1>1, Invariance, PTL

\* However the reads, checks and writes of UpdateProduct interleave, the
\* stored price is positive.
THEOREM PricesStayPositive == Spec => []PriceIsPositive
<1>1. IndInv => PriceIsPositive
  BY DEF IndInv
<1> QED
  BY <1>1, Invariance, PTL

\* An archived product leaves the archive only by the write of an update that
\* had passed the service's check before the product was archived.
THEOREM UnarchivedByRaces == Spec => OnlyRacesUnarchive
<1>1. IndInv /\ [Next]_vars =>
        [Archived /\ ~ Archived' =>
            \E r \in Requests : req[r].at = "write" /\ req'[r].at = "done" /\ req[r].overtaken]_vars
  <2> SUFFICES ASSUME IndInv, [Next]_vars, Archived, ~ Archived'
               PROVE  \E r \in Requests :
                         req[r].at = "write" /\ req'[r].at = "done" /\ req[r].overtaken
    OBVIOUS
  <2>1. table = "products" /\ row \in Product /\ row # Absent /\ row.status = "archived" /\ born
    BY Tables DEF IndInv, TypeOK, Archived
  <2>2. ~ UNCHANGED <<table, row>>
    BY <2>1 DEF Archived
  <2>3. ASSUME NEW r \in Requests, Handlers(r) PROVE UNCHANGED <<table, row>>
    BY <2>3 DEF Handlers, CreateMerchant, ListMerchants, GetMerchant, UpdateMerchant,
         CreateCustomer, ListCustomers, GetCustomer, UpdateCustomer, CreatePaymentMethod,
         ListPaymentMethods, GetPaymentMethod, DeletePaymentMethod, CreateProvider,
         ListProviders, GetProvider, UpdateProvider, DeleteProvider, CreateProduct,
         ListProducts, GetProduct, UpdateProduct, DeleteProduct, Update, Arrive
  <2>4. ASSUME NEW r \in Requests, Insert(r) \/ Count(r) \/ Page(r) \/ Read(r) \/ Check(r)
        PROVE  UNCHANGED <<table, row>>
    BY <2>1, <2>4 DEF Insert, Count, Page, Read, Check
  <2>5. ASSUME NEW r \in Requests, Delete(r) PROVE FALSE
    <3>1. row' = [row EXCEPT !.deleted_at = TRUE] /\ table' = table
      BY <2>1, <2>2, <2>5 DEF Delete
    <3>2. row' \in Product /\ row'.status = "archived"
      BY <2>1, <3>1 DEF Product
    <3>3. row' # Absent
      BY <3>2, CatalogAssumption, Tables DEF AnyRow
    <3> QED
      BY <2>1, <3>1, <3>2, <3>3 DEF Archived
  <2>6. Crash \/ UNCHANGED vars => UNCHANGED <<table, row>>
    BY DEF Crash, vars
  <2>7. PICK r \in Requests : Write(r)
    BY <2>2, <2>3, <2>4, <2>5, <2>6, Steps
  <2>8. req'[r].at = "done"
    <3>1. \A answer : Answered(req[r], answer).at = "done"
      BY DEF Answered, NewRequest
    <3>2. \/ \E answer \in {"ok", "error"} : Done(r, answer)
          \/ Answer(r, "error")
      BY <2>7 DEF Write
    <3>3. \E answer : req'[r] = Answered(req[r], answer)
      BY <3>2 DEF Done, Answer, IndInv, TypeOK
    <3> QED
      BY <3>1, <3>3
  <2> QED
    BY <2>7, <2>8 DEF Write, IndInv, RequestFits
<1> QED
  BY <1>1, Invariance, PTL DEF Spec, OnlyRacesUnarchive

\* No statement changes or revives a row that has been deleted.
THEOREM DeletedStays == Spec => DeletedIsFinal
<1>1. [Next]_vars => [born /\ ~ Live => row' = row]_vars
  <2> SUFFICES ASSUME [Next]_vars, born, ~ Live PROVE row' = row
    OBVIOUS
  <2>1. ASSUME NEW r \in Requests, Handlers(r) PROVE row' = row
    BY <2>1 DEF Handlers, CreateMerchant, ListMerchants, GetMerchant, UpdateMerchant,
         CreateCustomer, ListCustomers, GetCustomer, UpdateCustomer, CreatePaymentMethod,
         ListPaymentMethods, GetPaymentMethod, DeletePaymentMethod, CreateProvider,
         ListProviders, GetProvider, UpdateProvider, DeleteProvider, CreateProduct,
         ListProducts, GetProduct, UpdateProduct, DeleteProduct, Update, Arrive
  <2>2. ASSUME NEW r \in Requests, Insert(r) \/ Count(r) \/ Page(r) \/ Read(r) \/ Check(r)
        PROVE  row' = row
    BY <2>2 DEF Insert, Count, Page, Read, Check
  <2>3. ASSUME NEW r \in Requests, Write(r) \/ Delete(r) PROVE row' = row
    BY <2>3 DEF Write, Written, Delete
  <2>4. Crash \/ UNCHANGED vars => row' = row
    BY DEF Crash, vars
  <2> QED
    BY <2>1, <2>2, <2>3, <2>4, Steps
<1> QED
  BY <1>1, PTL DEF Spec, DeletedIsFinal
=============================================================================
