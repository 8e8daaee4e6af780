------------------------------ MODULE Catalog ------------------------------
(***************************************************************************)
(* Merchants, customers, payment methods, provider configurations and      *)
(* products: the handlers that create, read, list, update and delete their *)
(* rows, and the statements behind them.                                   *)
(*                                                                         *)
(* An update reads the row, patches the copy and writes it back, without a *)
(* transaction; a product is read a second time, by the service, before it *)
(* is written.  Other requests step between the statements, any statement  *)
(* may fail with or without effect, and a restart loses the requests.      *)
(*                                                                         *)
(* A behaviour is about one row of one table, chosen in Init.  Columns no  *)
(* operation looks at (names, addresses, texts, configuration) are left    *)
(* out.                                                                    *)
(***************************************************************************)
EXTENDS Integers

CONSTANTS Requests,  \* requests at work at the same time
          Prices,    \* prices a request may carry, nil excepted
          Absent     \* no row; a request that holds no copy or names no value

\* What other systems give a merchant or customer is "set".
Merchant == [slug : {"", "set"}, status : {"active", "suspended", "pending_verification", "pending"}]
Customer == [external_id : {"null", "set"}]
PaymentMethod == [type : {"card", "bank_account", "wallet"}]
ProviderConfig == [health_status : {"healthy", "degraded", "unhealthy"}]
Product == [status : {"active", "inactive", "archived", "other"}, price : Prices,
            deleted_at : BOOLEAN]

Rows == [merchants |-> Merchant, customers |-> Customer, payment_methods |-> PaymentMethod,
         provider_configs |-> ProviderConfig, products |-> Product]

AnyRow == UNION {Rows[t] : t \in DOMAIN Rows}

ASSUME CatalogAssumption ==
    /\ Prices \subseteq Int
    /\ \E p \in Prices : p > 0
    /\ Absent \notin AnyRow \cup Int \cup STRING

VARIABLES table,  \* the table this behaviour is about
          row,    \* its row, or Absent
          born,   \* the row has been in the table
          req     \* where each request stands

vars == <<table, row, born, req>>

\* What an update asks for: a new status, a new price.
Patch == [status : {Absent, "active", "degraded", "archived", "other"}, price : Prices \cup {Absent}]
NoPatch == [status |-> Absent, price |-> Absent]

Busy == {"insert", "count", "page", "read", "check", "write", "delete"}

Request == [at : Busy \cup {"idle", "done"},
            op : {"none", "create", "get", "list", "update", "delete"},
            patch : Patch,
            copy : AnyRow \cup {Absent},
            overtaken : BOOLEAN,              \* history: archived between its check and its write
            answer : {"none", "ok", "error"}]

TypeOK ==
    /\ table \in DOMAIN Rows
    /\ row \in Rows[table] \cup {Absent}
    /\ born \in BOOLEAN
    /\ req \in [Requests -> Request]

NewRequest(op, at) ==
    [at |-> at, op |-> op, patch |-> NoPatch, copy |-> Absent, overtaken |-> FALSE,
     answer |-> "none"]

\* The rows the create handlers build.  A status no product has becomes
\* active; a price must be positive.
NewMerchant == [slug |-> "", status |-> "pending"]
NewCustomer == [external_id |-> "null"]
NewPaymentMethods == PaymentMethod
NewProvider == [health_status |-> "healthy"]
NewProducts == [status : {"active", "inactive", "archived"}, price : {p \in Prices : p > 0},
                deleted_at : {FALSE}]

NewRows == [merchants |-> {NewMerchant}, customers |-> {NewCustomer},
            payment_methods |-> NewPaymentMethods, provider_configs |-> {NewProvider},
            products |-> NewProducts]

\* The row is still to be created, or other systems have put it there.
Init ==
    /\ table \in DOMAIN Rows
    /\ row \in {Absent} \cup NewRows[table] \cup
               (CASE table = "merchants" -> {[NewMerchant EXCEPT !.slug = "set"]}
                  [] table = "customers" -> {[external_id |-> "set"]}
                  [] OTHER -> {})
    /\ born = (row # Absent)
    /\ req = [r \in Requests |-> NewRequest("none", "idle")]

-----------------------------------------------------------------------------
(* How a request moves on and how it ends *)

Goto(r, at) == req' = [req EXCEPT ![r].at = at]

Answered(rq, answer) == [NewRequest(rq.op, "done") EXCEPT !.answer = answer]

Answer(r, answer) == req' = [req EXCEPT ![r] = Answered(@, answer)]

\* A request for table t arrives: malformed ids and bodies are refused,
\* others reach the first statement.
Arrive(r, t, rq) ==
    /\ table = t
    /\ req[r].at \in {"idle", "done"}
    /\ req' \in {[req EXCEPT ![r] = rq],
                 [req EXCEPT ![r] = Answered(rq, "error")]}
    /\ UNCHANGED <<table, row, born>>

Update(r, t, statuses, prices) ==
    \E p \in [status : statuses \cup {Absent}, price : prices \cup {Absent}] :
        Arrive(r, t, [NewRequest("update", "read") EXCEPT !.patch = p])

-----------------------------------------------------------------------------
(* The handlers *)

CreateMerchant(r) == Arrive(r, "merchants", NewRequest("create", "insert"))
ListMerchants(r) == Arrive(r, "merchants", NewRequest("list", "count"))
GetMerchant(r) == Arrive(r, "merchants", NewRequest("get", "read"))
UpdateMerchant(r) == Update(r, "merchants", {"active", "other"}, {})

CreateCustomer(r) == Arrive(r, "customers", NewRequest("create", "insert"))
ListCustomers(r) == Arrive(r, "customers", NewRequest("list", "count"))
GetCustomer(r) == Arrive(r, "customers", NewRequest("get", "read"))
UpdateCustomer(r) == Update(r, "customers", {}, {})

CreatePaymentMethod(r) == Arrive(r, "payment_methods", NewRequest("create", "insert"))
ListPaymentMethods(r) == Arrive(r, "payment_methods", NewRequest("list", "page"))
GetPaymentMethod(r) == Arrive(r, "payment_methods", NewRequest("get", "read"))
DeletePaymentMethod(r) == Arrive(r, "payment_methods", NewRequest("delete", "delete"))

CreateProvider(r) == Arrive(r, "provider_configs", NewRequest("create", "insert"))
ListProviders(r) == Arrive(r, "provider_configs", NewRequest("list", "page"))
GetProvider(r) == Arrive(r, "provider_configs", NewRequest("get", "read"))
UpdateProvider(r) == Update(r, "provider_configs", {"degraded", "other"}, {})
DeleteProvider(r) == Arrive(r, "provider_configs", NewRequest("delete", "delete"))

CreateProduct(r) == Arrive(r, "products", NewRequest("create", "insert"))
ListProducts(r) == Arrive(r, "products", NewRequest("list", "count"))
GetProduct(r) == Arrive(r, "products", NewRequest("get", "read"))
UpdateProduct(r) == Update(r, "products", {"active", "archived", "other"}, Prices)
DeleteProduct(r) == Arrive(r, "products", NewRequest("delete", "delete"))

-----------------------------------------------------------------------------
(* Statements *)

\* What the tables refuse: a merchant whose slug, always "", another one has,
\* and every provider configuration, whose Metadata the driver sends as NULL.
InsertRefused ==
    \/ table = "merchants" /\ row # Absent /\ row.slug = ""
    \/ table = "provider_configs"

\* INSERT: of this row, or of another once this one has been there.
Insert(r) ==
    /\ req[r].at = "insert"
    /\ \/ /\ ~ InsertRefused
          /\ IF born THEN UNCHANGED <<row, born>> ELSE row' \in NewRows[table] /\ born' = TRUE
          /\ \E answer \in {"ok", "error"} : Answer(r, answer)
       \/ Answer(r, "error") /\ UNCHANGED <<row, born>>
    /\ UNCHANGED table

\* SELECT COUNT(*); the page is a second statement.
Count(r) ==
    /\ req[r].at = "count"
    /\ Goto(r, "page") \/ Answer(r, "error")
    /\ UNCHANGED <<table, row, born>>

\* Scan cannot put the NULL of external_id into a string.
Readable == table = "customers" => row.external_id # "null"

\* What a SELECT of products, and their UPDATE, finds.
Live == row # Absent /\ (table = "products" => ~ row.deleted_at)

\* A list without the row is a good answer, one with a row that cannot be
\* scanned is not.
Page(r) ==
    /\ req[r].at = "page"
    /\ \/ (Live => Readable) /\ Answer(r, "ok")
       \/ Answer(r, "error")
    /\ UNCHANGED <<table, row, born>>

\* Mutant: what the request leaves out is blanked.
Patched_Blank(p) == IF table = "products" THEN [row EXCEPT !.status = p.status] ELSE row

\* The copy with what the request asks for.
Patched(p) ==
    CASE table = "merchants" /\ p.status # Absent -> [row EXCEPT !.status = p.status]
      [] table = "provider_configs" /\ p.status # Absent -> [row EXCEPT !.health_status = p.status]
      [] table = "products" ->
            [row EXCEPT !.status = IF p.status # Absent THEN p.status ELSE @,
                        !.price = IF p.price # Absent THEN p.price ELSE @]
      [] OTHER -> row

\* The value an enum column does not have.
EnumRefuses(p) == table # "products" /\ p.status = "other"

\* SELECT by id.  UpdateMerchant turns down a country or currency only now.
Read(r) ==
    /\ req[r].at = "read"
    /\ \/ /\ Live /\ Readable
          /\ IF req[r].op = "get" THEN Answer(r, "ok")
             ELSE req' = [req EXCEPT ![r].at = IF table = "products" THEN "check" ELSE "write",
                                     ![r].copy = IF EnumRefuses(req[r].patch) THEN row
                                                 ELSE Patched(req[r].patch)]
       \/ Answer(r, "error")
    /\ UNCHANGED <<table, row, born>>

\* Mutant: the status is looked at in the patched copy.
Refused_Copy(copy) == copy.status = "archived"

\* The service's rule for an update.
Refused(copy) == row.status = "archived"

\* Mutant: the price is stored as it came.
Priced_Zero(copy) == copy.price

\* A price that is not positive falls back to the one just read.
Priced(copy) == IF copy.price <= 0 THEN row.price ELSE copy.price

\* UpdateProduct in the service: the second SELECT and the checks.
Check(r) ==
    /\ req[r].at = "check"
    /\ \/ /\ Live /\ ~ Refused(req[r].copy)
          /\ req' = [req EXCEPT ![r].at = "write", ![r].copy = [@ EXCEPT !.price = Priced(req[r].copy)]]
       \/ Answer(r, "error")
    /\ UNCHANGED <<table, row, born>>

\* Mutant: the UPDATE names the row by its id alone.
Written_Deleted(copy) ==
    IF row = Absent THEN row
    ELSE IF table = "products" THEN [copy EXCEPT !.deleted_at = row.deleted_at] ELSE copy

\* The columns of the UPDATE; no row is changed that is not there.
Written(copy) == IF Live THEN copy ELSE row

Archived == table = "products" /\ row # Absent /\ row.status = "archived"

\* r is answered; requests about to write may have been overtaken.
Done(r, answer) ==
    req' = [q \in Requests |->
              IF q = r THEN Answered(req[q], answer)
              ELSE [req[q] EXCEPT !.overtaken = @ \/ (~ Archived /\ Archived' /\ req[q].at = "write")]]

\* UPDATE.
Write(r) ==
    /\ req[r].at = "write"
    /\ UNCHANGED <<table, born>>
    /\ \/ /\ ~ EnumRefuses(req[r].patch)
          /\ row' = Written(req[r].copy)
          /\ \E answer \in {"ok", "error"} : (answer = "ok" => Live) /\ Done(r, answer)
       \/ Answer(r, "error") /\ UNCHANGED row

\* DELETE, or for a product the UPDATE of deleted_at.
Delete(r) ==
    /\ req[r].at = "delete"
    /\ \/ /\ Live
          /\ row' = IF table = "products" THEN [row EXCEPT !.deleted_at = TRUE] ELSE Absent
          /\ \E answer \in {"ok", "error"} : Answer(r, answer)
       \/ Answer(r, "error") /\ UNCHANGED row
    /\ UNCHANGED <<table, born>>

\* The server restarts and the requests are lost.
Crash ==
    /\ \E r \in Requests : req[r].at \in Busy
    /\ req' = [r \in Requests |->
                 IF req[r].at \in Busy THEN Answered(req[r], "none") ELSE req[r]]
    /\ UNCHANGED <<table, row, born>>

Next ==
    \/ \E r \in Requests :
        \/ CreateMerchant(r) \/ ListMerchants(r) \/ GetMerchant(r) \/ UpdateMerchant(r)
        \/ CreateCustomer(r) \/ ListCustomers(r) \/ GetCustomer(r) \/ UpdateCustomer(r)
        \/ CreatePaymentMethod(r) \/ ListPaymentMethods(r) \/ GetPaymentMethod(r)
        \/ DeletePaymentMethod(r)
        \/ CreateProvider(r) \/ ListProviders(r) \/ GetProvider(r) \/ UpdateProvider(r)
        \/ DeleteProvider(r)
        \/ CreateProduct(r) \/ ListProducts(r) \/ GetProduct(r) \/ UpdateProduct(r)
        \/ DeleteProduct(r)
        \/ Insert(r) \/ Count(r) \/ Page(r) \/ Read(r) \/ Check(r) \/ Write(r) \/ Delete(r)
    \/ Crash

Spec == Init /\ [][Next]_vars

-----------------------------------------------------------------------------
(* Properties *)

\* Archiving is final but for one race: a product leaves the archive only by
\* the write of an update that had passed the service's check before the
\* product was archived.  The handler's own, earlier read never matters.
OnlyRacesUnarchive ==
    [][Archived /\ ~ Archived' =>
          \E r \in Requests : req[r].at = "write" /\ req'[r].at = "done" /\ req[r].overtaken]_vars

\* No sequence of patches, not even of updates that read each other's prices
\* half-way, stores a price that is not positive.
PriceIsPositive == table = "products" /\ row # Absent => row.price > 0

\* What is deleted stays as it was: no update that was under way changes or
\* revives the row, and its id is never used again.
DeletedIsFinal == [][born /\ ~ Live => row' = row]_vars
=============================================================================
