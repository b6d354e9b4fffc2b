-------------------------- MODULE LightningLabsRfq --------------------------
(***************************************************************************)
(* The Lightning Labs RFQ messages of                                      *)
(* src/crates/tap-ldk-core/src/lightning_labs_rfq.rs and the checks of a   *)
(* request and an accept against a quote-bound invoice.                    *)
(*                                                                         *)
(* An invoice carries the terms of its quote (peer, asset, amount, msat,   *)
(* context), the quote's expiry and its own.  A rate is the integer the    *)
(* code builds, with scale 0.                                              *)
(***************************************************************************)
EXTENDS Integers, FiniteSets

CONSTANTS
  Btc,          \* Bytes32::ZERO, the asset id that stands for bitcoin
  Absent,       \* Option::None, and an empty oracle_metadata
  MsatPerBtc,   \* msat in one bitcoin
  U64Max        \* the largest rate and the largest amount

ASSUME LightningLabsAssumption == MsatPerBtc \in Nat \ {0} /\ U64Max \in Nat

(* The two directions of an asset payment and their wire transfer types. *)
Directions == {"outgoing", "incoming"}
TransferType(dir) == IF dir = "outgoing" THEN "PayInvoice" ELSE "ReceivePayment"

------------------------------------------------------------------------------
(* asset_units_per_btc_rate *)

RateExact(inv) ==
  LET numerator == inv.amount * MsatPerBtc
  IN  /\ numerator >= inv.msat
      /\ numerator % inv.msat = 0
      /\ numerator \div inv.msat <= U64Max
Rate(inv) == (inv.amount * MsatPerBtc) \div inv.msat

Earlier(t, u) == IF t < u THEN t ELSE u

(* lightning_labs_sell_request_from_invoice and                            *)
(* lightning_labs_buy_request_from_invoice                                 *)
RequestFor(inv, id, dir) ==
  LET out == dir = "outgoing"
  IN  [version |-> 1, id |-> id, type |-> TransferType(dir),
       expiry |-> Earlier(inv.expiry, inv.quoteExpiry),
       inAsset |-> IF out THEN Btc ELSE inv.asset, inGroup |-> Absent,
       outAsset |-> IF out THEN inv.asset ELSE Btc, outGroup |-> Absent,
       maxIn |-> IF out THEN inv.msat ELSE inv.amount,
       inRate |-> IF out THEN Absent ELSE Rate(inv),
       outRate |-> IF out THEN Rate(inv) ELSE Absent,
       minIn |-> IF out THEN Absent ELSE inv.amount,
       minOut |-> IF out THEN inv.msat ELSE Absent,
       metadata |-> inv.context, limit |-> Rate(inv), policy |-> "FillOrKill"]

(* lightning_labs_accept_from_invoice and                                  *)
(* lightning_labs_buy_accept_from_invoice: the accept takes the expiry of  *)
(* the quote, the request the earlier of quote and invoice.                *)
AcceptWithinInvoice(inv, id, dir) ==
  LET out == dir = "outgoing"
  IN  [version |-> 1, id |-> id, expiry |-> Earlier(inv.expiry, inv.quoteExpiry),
       signature |-> 64, inRate |-> IF out THEN MsatPerBtc ELSE Rate(inv),
       outRate |-> IF out THEN Rate(inv) ELSE MsatPerBtc,
       maxIn |-> IF out THEN inv.msat ELSE inv.amount]
AcceptFor(inv, id, dir) ==
  LET out == dir = "outgoing"
  IN  [version |-> 1, id |-> id, expiry |-> inv.quoteExpiry,
       signature |-> 64, inRate |-> IF out THEN MsatPerBtc ELSE Rate(inv),
       outRate |-> IF out THEN Rate(inv) ELSE MsatPerBtc,
       maxIn |-> IF out THEN inv.msat ELSE inv.amount]

------------------------------------------------------------------------------
(* The wire *)

RequestRequired == {"version", "id", "type", "expiry", "maxIn"}
RequestOptional == {"inAsset", "inGroup", "outAsset", "outGroup", "inRate",
                    "outRate", "minIn", "minOut", "metadata", "limit", "policy"}
AcceptRequired == {"version", "id", "expiry", "signature", "inRate", "outRate"}

(* encode: one record per field that is there. *)
Encode(m) ==
  LET present == {f \in DOMAIN m : m[f] # Absent}
  IN  [f \in present |-> m[f]]

(* validate_asset_specifier *)
OneSpecifier(asset, group) == (asset = Absent) # (group = Absent)

(* LightningLabsRfqRequest::validate_shape *)
RequestShape(r) ==
  /\ r.version = 1
  /\ r.maxIn # 0
  /\ OneSpecifier(r.inAsset, r.inGroup)
  /\ OneSpecifier(r.outAsset, r.outGroup)
  /\ (r.inAsset = Btc) # (r.outAsset = Btc)
  /\ 0 \notin {r.inRate, r.outRate, r.limit}

(* LightningLabsRfqAccept::validate_shape *)
AcceptShape(a) ==
  a.version = 1 /\ a.signature = 64 /\ a.inRate # 0 /\ a.outRate # 0

(* LightningLabsRfqRequest::decode, LightningLabsRfqAccept::decode: a      *)
(* maximum of 0 in an accept reads as none.                                *)
ReadRequest(stream) ==
  [f \in RequestRequired \cup RequestOptional |->
     IF f \in DOMAIN stream THEN stream[f] ELSE Absent]
ReadAccept(stream) ==
  [f \in AcceptRequired \cup {"maxIn"} |->
     IF f \notin DOMAIN stream \/ (f = "maxIn" /\ stream[f] = 0) THEN Absent
     ELSE stream[f]]
RequestDecodes(stream) ==
  RequestRequired \subseteq DOMAIN stream /\ RequestShape(ReadRequest(stream))
AcceptDecodes(stream) ==
  AcceptRequired \subseteq DOMAIN stream /\ AcceptShape(ReadAccept(stream))

------------------------------------------------------------------------------
(* Checks against an invoice *)

(* validate_at: a request is over at its expiry. *)
ValidAt(r, now) == RequestShape(r) /\ r.expiry > now

(* validate_against_invoice and validate_receive_against_invoice *)
ValidAnyAmount(r, peer, inv, dir, now) ==
  LET out == dir = "outgoing"
  IN  /\ ValidAt(r, now)
      /\ peer = inv.peer
      /\ r.type = TransferType(dir)
      /\ r.inAsset = IF out THEN Btc ELSE inv.asset
      /\ r.outAsset = IF out THEN inv.asset ELSE Btc
      /\ inv.expiry <= r.expiry /\ r.expiry <= inv.quoteExpiry
      /\ r.metadata = inv.context
      /\ RateExact(inv)
      /\ (IF out THEN r.outRate ELSE r.inRate) = Rate(inv)
ValidAgainst(r, peer, inv, dir, now) ==
  LET out == dir = "outgoing"
      least == IF out THEN r.minOut ELSE r.minIn
      most == IF out THEN inv.msat ELSE inv.amount
  IN  /\ ValidAt(r, now)
      /\ peer = inv.peer
      /\ r.type = TransferType(dir)
      /\ r.inAsset = IF out THEN Btc ELSE inv.asset
      /\ r.outAsset = IF out THEN inv.asset ELSE Btc
      /\ r.maxIn = most
      /\ least = Absent \/ least <= most
      /\ inv.expiry <= r.expiry /\ r.expiry <= inv.quoteExpiry
      /\ r.metadata = inv.context
      /\ RateExact(inv)
      /\ (IF out THEN r.outRate ELSE r.inRate) = Rate(inv)

(* LightningLabsRfqAccept::validate_for_request: the rates of the accept   *)
(* are not compared with those of the request.                             *)
AcceptStrictlyWithin(a, r, now) ==
  /\ AcceptShape(a)
  /\ a.expiry > now
  /\ a.id = r.id
  /\ a.expiry < r.expiry
  /\ a.maxIn = Absent \/ a.maxIn <= r.maxIn
AcceptValidFor(a, r, now) ==
  /\ AcceptShape(a)
  /\ a.expiry > now
  /\ a.id = r.id
  /\ a.expiry <= r.expiry
  /\ a.maxIn = Absent \/ a.maxIn <= r.maxIn

(* The exchange of build_outgoing_payment_state, its incoming twin and     *)
(* run_lightning_labs_rfq_invoice_compat_smoke: request and accept are     *)
(* built, encoded, decoded and checked.                                    *)
Handshake(inv, peer, id, dir, now) ==
  LET request == Encode(RequestFor(inv, id, dir))
      accept == Encode(AcceptFor(inv, id, dir))
  IN  /\ RateExact(inv)
      /\ RequestDecodes(request)
      /\ ValidAgainst(ReadRequest(request), peer, inv, dir, now)
      /\ AcceptDecodes(accept)
      /\ AcceptValidFor(ReadAccept(accept), ReadRequest(request), now)

==============================================================================
