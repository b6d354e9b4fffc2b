--------------------------- MODULE RfqQuoteStore ---------------------------
(***************************************************************************)
(* One process that holds an RfqQuoteStore in memory, calls its operations *)
(* in any order, saves it from time to time and may restart from the file. *)
(*                                                                         *)
(* Operations are not transactional: after an Err from the validation at   *)
(* their end the change stays in memory, and the process goes on with it.  *)
(***************************************************************************)
EXTENDS RfqQuotes

VARIABLES mem, disk

vars == <<mem, disk>>

Init == mem = EmptyStore /\ disk = EmptyStore

RegisterRealLocalScid(scid) ==
  /\ RegisterAllowed(mem, scid)
  /\ mem' = Registered(mem, scid)
  /\ UNCHANGED disk

RequestQuote(deal, expiry, domain, now) ==
  /\ RequestAllowed(mem, deal, expiry, domain, now)
  /\ mem' = Requested(mem, deal, expiry, domain)
  /\ UNCHANGED disk

AcceptQuote(q, now) ==
  /\ AcceptAllowed(mem, q, now)
  /\ mem' = Accepted(mem, q)
  /\ UNCHANGED disk

RejectQuote(q) ==
  /\ RejectAllowed(mem, q)
  /\ mem' = Terminated(mem, q, "Rejected")
  /\ UNCHANGED disk

ExpireQuote(q, now) ==
  /\ ExpireAllowed(mem, q, now)
  /\ mem' = Terminated(mem, q, "Expired")
  /\ UNCHANGED disk

AuthorizeAssetHtlc(q, now) ==
  /\ AuthorizeAllowed(mem, q, now)
  /\ mem' = Authorized(mem, q)
  /\ UNCHANGED disk

(* save_atomic validates, writes a temporary file and renames it. *)
Save ==
  /\ Valid(mem)
  /\ disk' = mem
  /\ UNCHANGED mem

(* load validates what it reads. *)
Restart ==
  /\ Valid(disk)
  /\ mem' = disk
  /\ UNCHANGED disk

Next ==
  \/ \E scid \in Scids : RegisterRealLocalScid(scid)
  \/ \E deal \in Deals, expiry \in Expiries, domain \in Domains, now \in Times :
       RequestQuote(deal, expiry, domain, now)
  \/ \E q \in DOMAIN mem.quotes :
       \/ \E now \in Times :
            AcceptQuote(q, now) \/ ExpireQuote(q, now) \/ AuthorizeAssetHtlc(q, now)
       \/ RejectQuote(q)
  \/ Save
  \/ Restart

Spec == Init /\ [][Next]_vars

------------------------------------------------------------------------------
(* Properties *)

(* Both stores are well-formed and every alias is one allocate_scid_alias  *)
(* or a channel could have.                                                *)
TypeOK == IsQuoteStore(mem) /\ IsQuoteStore(disk)

(* The indexes agree with the quotes' statuses after every sequence of     *)
(* calls, those that returned Err after changing the store and the reuse   *)
(* of a rejected quote's id, alias and domain included.                    *)
IndexesExact == LiveIndexed(mem) /\ UsedIndexed(mem)

(* A live quote's alias is never a real channel's SCID, even in a store    *)
(* whose validation has started to fail.                                   *)
LiveAliasNeverReal == DOMAIN mem.live \cap mem.real = {}

(* Using a quote closes its replay domain for good: no other quote of the  *)
(* domain is ever live again, and the quote itself stays used.             *)
UsedIsFinal ==
  [][\A d \in DOMAIN disk.used :
       /\ d \in DOMAIN disk'.used /\ disk'.used[d] = disk.used[d]
       /\ \A q \in LiveQuotes(disk') : q.domain # d]_disk

(* Terminal quotes release their alias: in a valid store, an SCID no live  *)
(* quote holds can be registered as a real one, and the store stays one    *)
(* that can be saved.                                                      *)
ReleasedAliasRegistrable ==
  \A scid \in Scids :
    Valid(mem) /\ RegisterAllowed(mem, scid) => Valid(Registered(mem, scid))

==============================================================================
