-------------------------------- MODULE RfqCli --------------------------------
(***************************************************************************)
(* The RFQ commands of src/crates/tap-ldk-cli/src/main.rs.  Each command   *)
(* is a process of its own: it loads the store file, calls one operation   *)
(* on its copy, saves the copy and prints the answer; an error at any step *)
(* ends it with exit code 1.  Nothing locks the file, and save_atomic      *)
(* gives every process the same temporary file: it truncates it, fills it  *)
(* and renames it over the store.  A command may be killed at any point.   *)
(*                                                                         *)
(* A path is the inode it names: a process keeps writing to the inode it   *)
(* opened, whatever is renamed meanwhile.                                  *)
(***************************************************************************)
EXTENDS RfqQuotes

CONSTANTS
  Procs,          \* commands that may run at the same time
  NoInode,        \* a path that names nothing
  Torn,           \* contents that are not one whole store
  ReinitAllowed,  \* the operator may run rfq-store-init on a store in use
  MaxGrants       \* bound: authorizations printed for one quote

ASSUME CliAssumption ==
  ReinitAllowed \in BOOLEAN /\ MaxGrants \in Nat /\ IsFiniteSet(Procs)

Inodes == 1 .. Cardinality(Procs) + 2

ASSUME InodeAssumption == NoInode \notin Inodes

VARIABLES
  pc,       \* where each process is
  copy,     \* the store a process has loaded and changed
  answer,   \* the quote its authorization is for, as a set
  handle,   \* the inode fs::write has opened
  data,     \* contents of the inodes
  file,     \* the store path
  temp,     \* the temporary path
  granted   \* authorizations printed so far, per quote

cliVars == <<pc, copy, answer, handle, data, file, temp, granted>>

CliInit ==
  /\ pc = [p \in Procs |-> "idle"]
  /\ copy = [p \in Procs |-> EmptyStore]
  /\ answer = [p \in Procs |-> {}]
  /\ handle = [p \in Procs |-> NoInode]
  /\ data = [i \in Inodes |-> Torn]
  /\ file = NoInode
  /\ temp = NoInode
  /\ granted = [q \in {} |-> 0]

Goto(p, label) == pc' = [pc EXCEPT ![p] = label]

(* The process is gone; what it left in the files stays. *)
Leave(p) ==
  /\ Goto(p, "idle")
  /\ copy' = [copy EXCEPT ![p] = EmptyStore]
  /\ answer' = [answer EXCEPT ![p] = {}]
  /\ handle' = [handle EXCEPT ![p] = NoInode]

------------------------------------------------------------------------------
(* Loading and changing the copy *)

Loadable(i) == i # NoInode /\ data[i] # Torn /\ Valid(data[i])

(* rfq-store-init loads nothing and saves an empty store. *)
CommandInit(p) ==
  /\ pc[p] = "idle"
  /\ file = NoInode \/ ReinitAllowed
  /\ Goto(p, "changed")
  /\ UNCHANGED <<copy, answer, handle, data, file, temp, granted>>

(* load_or_default takes a missing file for an empty store, and the load   *)
(* of the other commands fails on it just as they fail on an empty store.  *)
Load(p) ==
  /\ pc[p] = "idle"
  /\ file = NoInode \/ Loadable(file)
  /\ copy' = [copy EXCEPT ![p] = IF file = NoInode THEN EmptyStore ELSE data[file]]
  /\ Goto(p, "loaded")
  /\ UNCHANGED <<answer, handle, data, file, temp, granted>>

(* An operation that returns Ok has left the copy valid. *)
Change(p, s, authorized) ==
  /\ pc[p] = "loaded"
  /\ Valid(s)
  /\ copy' = [copy EXCEPT ![p] = s]
  /\ answer' = [answer EXCEPT ![p] = authorized]
  /\ Goto(p, "changed")
  /\ UNCHANGED <<handle, data, file, temp, granted>>

CommandRegister(p, scid) ==
  RegisterAllowed(copy[p], scid) /\ Change(p, Registered(copy[p], scid), {})

CommandRequest(p, deal, expiry, domain, now) ==
  /\ RequestAllowed(copy[p], deal, expiry, domain, now)
  /\ Change(p, Requested(copy[p], deal, expiry, domain), {})

CommandAccept(p, q, now) ==
  AcceptAllowed(copy[p], q, now) /\ Change(p, Accepted(copy[p], q), {})

CommandReject(p, q) ==
  RejectAllowed(copy[p], q) /\ Change(p, Terminated(copy[p], q, "Rejected"), {})

CommandExpire(p, q, now) ==
  /\ ExpireAllowed(copy[p], q, now)
  /\ Change(p, Terminated(copy[p], q, "Expired"), {})

Grants(q) == IF q \in DOMAIN granted THEN granted[q] ELSE 0

CommandAuthorize(p, q, now) ==
  /\ AuthorizeAllowed(copy[p], q, now)
  /\ Grants(q) < MaxGrants
  /\ Change(p, Authorized(copy[p], q), {q})

------------------------------------------------------------------------------
(* save_atomic and the answer *)

FreshInode == CHOOSE i \in Inodes : i \notin {file, temp} \cup {handle[p] : p \in Procs}

(* fs::write opens the path it is to write: the file there is truncated,   *)
(* or a new one is made.                                                   *)
SaveOpen(p) ==
  LET i == IF temp = NoInode THEN FreshInode ELSE temp
  IN  /\ pc[p] = "changed"
      /\ temp' = i
      /\ handle' = [handle EXCEPT ![p] = i]
      /\ data' = [data EXCEPT ![i] = Torn]
      /\ Goto(p, "writing")
      /\ UNCHANGED <<copy, answer, file, granted>>

(* ... and writes the store to it from the start.  Over the longer store   *)
(* of another process this leaves the tail of that one.                    *)
SaveWrite(p) ==
  /\ pc[p] = "writing"
  /\ \E written \in {copy[p]} \cup (IF data[handle[p]] = Torn THEN {} ELSE {Torn}) :
       data' = [data EXCEPT ![handle[p]] = written]
  /\ Goto(p, "written")
  /\ UNCHANGED <<copy, answer, handle, file, temp, granted>>

(* fs::rename; it fails, and the process exits, when another process has   *)
(* already renamed the temporary file.                                     *)
SaveRename(p) ==
  /\ pc[p] = "written"
  /\ temp # NoInode
  /\ file' = temp
  /\ temp' = NoInode
  /\ Goto(p, "saved")
  /\ UNCHANGED <<copy, answer, handle, data, granted>>

AnswerableUnsaved(p) == pc[p] \in {"changed", "saved"}
AnswerableUnrenamed(p) == pc[p] \in {"written", "saved"}
Answerable(p) == pc[p] = "saved"

(* print_json_or_exit, and the process ends. *)
Answer(p) ==
  /\ Answerable(p)
  /\ granted' = [q \in DOMAIN granted \cup answer[p] |->
                   Grants(q) + (IF q \in answer[p] THEN 1 ELSE 0)]
  /\ Leave(p)
  /\ UNCHANGED <<data, file, temp>>

(* The process exits with an error, or is killed. *)
Exit(p) ==
  /\ pc[p] # "idle"
  /\ Leave(p)
  /\ UNCHANGED <<data, file, temp, granted>>

------------------------------------------------------------------------------

RunOperation(p) ==
  \/ \E scid \in Scids : CommandRegister(p, scid)
  \/ \E deal \in Deals, expiry \in Expiries, domain \in Domains, now \in Times :
       CommandRequest(p, deal, expiry, domain, now)
  \/ \E q \in DOMAIN copy[p].quotes :
       \/ \E now \in Times :
            \/ CommandAccept(p, q, now)
            \/ CommandExpire(p, q, now)
            \/ CommandAuthorize(p, q, now)
       \/ CommandReject(p, q)

CliNext ==
  \E p \in Procs :
    \/ CommandInit(p) \/ Load(p) \/ RunOperation(p)
    \/ SaveOpen(p) \/ SaveWrite(p) \/ SaveRename(p)
    \/ Answer(p) \/ Exit(p)

CliSpec == CliInit /\ [][CliNext]_cliVars

------------------------------------------------------------------------------
(* Properties *)

(* Every path names an inode with contents, every writer has one open. *)
CliTypeOK ==
  /\ pc \in [Procs -> {"idle", "loaded", "changed", "writing", "written", "saved"}]
  /\ \A p \in Procs : IsQuoteStore(copy[p]) /\ answer[p] \subseteq QuoteId
  /\ \A p \in Procs : pc[p] \in {"writing", "written", "saved"} => handle[p] \in Inodes
  /\ \A i \in Inodes : data[i] # Torn => IsQuoteStore(data[i])
  /\ {file, temp} \subseteq Inodes \cup {NoInode}
  /\ DOMAIN granted \subseteq QuoteId
  /\ \A q \in DOMAIN granted : granted[q] \in 1 .. MaxGrants

(* A quote-derived HTLC authorization is consumed once: no sequence of     *)
(* commands, killed ones and retried ones included, prints two for it.     *)
AuthorizedOnce == \A q \in DOMAIN granted : granted[q] <= 1

(* An authorization is only printed when it is in the file for good, and   *)
(* the file stays one that loads whatever command is killed while it       *)
(* writes, so that no later command can grant the replay domain again.     *)
AnswersDurable ==
  \A q \in DOMAIN granted :
    /\ Loadable(file)
    /\ data[file].quotes[q] = "Used"
    /\ data[file].used[q.domain] = q

==============================================================================
