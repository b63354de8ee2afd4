----------------------------- MODULE RestClient -----------------------------
(***************************************************************************)
(* execution::okx::OkxRestClient (src/execution/okx_rest_client.cpp): what *)
(* its calls make of the venue's replies.  A reply is                      *)
(*   http  what curl reports: "none" without an answer, 2xx, 451, other    *)
(*   code  the envelope's code, "absent" when the body has none            *)
(*   item  sCode of the first entry of data, "absent" when there is no     *)
(*         entry, "unset" when the entry has none                          *)
(* and, for a query, the list it carries when its body can be read.        *)
(* Signing, rounding to contracts and the request bodies are left out, and *)
(* so is amend_order, which nothing calls.                                 *)
(***************************************************************************)

OK == [http |-> "2xx", code |-> "0", item |-> "0"]

(* An entry that names the order and no sCode, for a call that was done. *)
Terse == [http |-> "2xx", code |-> "0", item |-> "unset"]

(* The venue refuses an order: in the item, under either envelope. *)
Refusals(sCode) == [http : {"2xx"}, code : {"0", "1"}, item : {sCode}]
Gone == [http |-> "2xx", code |-> "1", item |-> "51400"]
Blocked == [http : {"451"}, code : {"absent"}, item : {"absent"}]
             \cup [http : {"2xx"}, code : {"50114"}, item : {"absent"}]

(* A 2xx whose body is not the venue's JSON, as a proxy may send. *)
Garbled == [http |-> "2xx", code |-> "absent", item |-> "absent"]
NoReply == [http : {"none", "other"}, code : {"absent"}, item : {"absent"}]

-----------------------------------------------------------------------------
(* process_status *)

StatusOk(r) == r.http = "2xx" /\ r.code \in {"absent", "0"}

(* exchange_code_out: the item's reason before the envelope's. *)
EnvelopeCode(r) == IF r.http = "2xx" THEN r.code ELSE "0"
StatusCode(r) ==
  IF r.http = "2xx" /\ r.code = "1" /\ r.item \notin {"absent", "unset", "0"} THEN r.item
  ELSE EnvelopeCode(r)

-----------------------------------------------------------------------------
(* parse_data_first, and the acks of place_order, place_market_order and    *)
(* cancel_order: an entry without sCode counts as done.                     *)

ItemUnread(r) == TRUE
ItemOk(r) == r.item \in {"0", "unset"}

Acked(r) == StatusOk(r) /\ ItemOk(r)
AckCode(r) == IF StatusOk(r) THEN r.item ELSE StatusCode(r)

(* query_open_orders and query_positions: a body without data is an empty   *)
(* list, and the query has succeeded.                                       *)
Queried(r) == StatusOk(r)
Listed(r, list, empty) == IF r.code = "0" THEN list ELSE empty

=============================================================================
