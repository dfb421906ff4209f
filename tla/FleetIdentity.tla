---------------------------- MODULE FleetIdentity ----------------------------
(***************************************************************************)
(* Who is who in the fleet of one tenant: the device rows and the MAC      *)
(* aliases of axe_fleet/registry.py.  A MAC identifies a miner, an address *)
(* only says where it was seen.  The routes look before they write, and    *)
(* everything may change in between, so a request is two transactions or   *)
(* more; what a request has seen of the network may be old or wrong.       *)
(***************************************************************************)
EXTENDS Integers, FiniteSets

CONSTANTS
    Ids,          \* uuids of rows
    Macs, Ips,
    Requests,     \* threads that serve a request or poll a device
    MaxWorkers,   \* max_workers of the plan
    NoMac, NoIp, NoRow

VARIABLES
    rows,         \* axe_devices
    alias,        \* axe_device_identity_aliases: MAC -> row
    samples,      \* axe_telemetry: of which row, and which miner was measured
    req,          \* what every request has looked up so far
    banned        \* history: miners the operator removed and has not restored

identityVars == <<rows, alias, samples, req, banned>>

IdentityAssumptions ==
    /\ NoMac \notin Macs /\ NoIp \notin Ips /\ NoRow \notin Ids
    /\ MaxWorkers \in Nat
    /\ IsFiniteSet(Ids)

UnusedRow == [state |-> "unused", mac |-> NoMac, ip |-> NoIp]
NoRequest == [pc |-> "none", ip |-> NoIp, mac |-> NoMac, id |-> NoRow]

DeviceRow == [state : {"unused", "active", "removed", "purged"}, mac : Macs \cup {NoMac}, ip : Ips \cup {NoIp}]
Request == [pc : {"none", "probe", "write", "save"}, ip : Ips \cup {NoIp},
            mac : Macs \cup {NoMac}, id : Ids \cup {NoRow}]

IdentityTypeOK ==
    /\ rows \in [Ids -> DeviceRow]
    /\ alias \in [Macs -> Ids \cup {NoRow}]
    /\ samples \subseteq [of : Ids, from : Macs]
    /\ req \in [Requests -> Request]
    /\ banned \subseteq Macs

(* Rows older than the aliases: some without a MAC, some that contradict each *)
(* other.                                                                     *)
IdentityInit ==
    /\ rows \in [Ids -> {UnusedRow} \cup [state : {"active"}, mac : Macs \cup {NoMac}, ip : Ips]]
    /\ alias = [m \in Macs |-> NoRow]
    /\ samples = {}
    /\ req = [r \in Requests |-> NoRequest]
    /\ banned = {}

-----------------------------------------------------------------------------
(***************************************************************************)
(* Resolving an identity: _identity_device_tx                              *)
(***************************************************************************)
InUse(i) == rows[i].state \in {"active", "removed"}
RowsOf(mac) == {i \in Ids : InUse(i) /\ rows[i].mac = mac}
RowsAt(ip) == {i \in Ids : InUse(i) /\ rows[i].ip = ip}
Active == {i \in Ids : rows[i].state = "active"}

Known(mac) == RowsOf(mac) \cup ({alias[mac]} \ {NoRow})

AgreesByMac(ip, mac) ==  \* mutant: whoever holds the address is not asked
    /\ mac # NoMac
    /\ Known(mac) \subseteq RowsOf(mac)
    /\ Cardinality(Known(mac)) <= 1

(* Rows, alias and address name one row or none; else the request is refused. *)
Agrees(ip, mac) ==
    /\ mac # NoMac
    /\ Known(mac) \subseteq RowsOf(mac)
    /\ Cardinality(Known(mac)) <= 1
    /\ RowsAt(ip) \subseteq Known(mac)

(* can_add_worker *)
CanAddWorker == Cardinality(Active) < MaxWorkers

-----------------------------------------------------------------------------
(***************************************************************************)
(* Registering: POST /devices (by hand) and POST /agent/register           *)
(***************************************************************************)
BeginRequest(r, pc, ip, mac, id) ==
    /\ req[r].pc = "none"
    /\ req' = [req EXCEPT ![r] = [pc |-> pc, ip |-> ip, mac |-> mac, id |-> id]]
    /\ UNCHANGED <<rows, alias, samples, banned>>

AddByHand(r, ip) ==
    /\ RowsAt(ip) = {}
    /\ CanAddWorker
    /\ BeginRequest(r, "probe", ip, NoMac, NoRow)

(* registry.add_device, up to its transaction.  A miner that does not answer *)
(* has no MAC.                                                                *)
Probe(r, mac) ==
    /\ req[r].pc = "probe"
    /\ req' = [req EXCEPT ![r] =
         IF mac = NoMac \/ \E i \in RowsAt(req[r].ip) : rows[i].state = "removed"
         THEN NoRequest
         ELSE [@ EXCEPT !.pc = "write", !.mac = mac]]
    /\ UNCHANGED <<rows, alias, samples, banned>>

FindToRegister(r, ip, mac) ==
    /\ Agrees(ip, mac)
    /\ Known(mac) \subseteq Active
    /\ Known(mac) = {} => CanAddWorker
    /\ BeginRequest(r, "write", ip, mac, NoRow)

InsertRow(i, ip, mac) ==
    /\ rows[i].state = "unused"
    /\ rows' = [rows EXCEPT ![i] = [state |-> "active", mac |-> mac, ip |-> ip]]
    /\ alias' = [alias EXCEPT ![mac] = i]

MoveOrReviveRow(i, ip, mac) ==  \* mutant: an upsert takes the tombstone away
    /\ InUse(i)
    /\ rows' = [rows EXCEPT ![i].ip = ip, ![i].state = "active"]
    /\ alias' = [alias EXCEPT ![mac] = i]

MoveRow(i, ip, mac) ==
    /\ rows[i].state = "active"
    /\ rows' = [rows EXCEPT ![i].ip = ip, ![i].mac = mac]
    /\ alias' = [alias EXCEPT ![mac] = i]

(* _persist_registered_device and upsert_agent_device *)
WriteByAddress(r) ==  \* mutant: an address in use is taken for its miner
    /\ req[r].pc = "write"
    /\ \/ RowsAt(req[r].ip) = {} /\ \E i \in Ids : InsertRow(i, req[r].ip, req[r].mac)
       \/ \E i \in RowsAt(req[r].ip) : MoveRow(i, req[r].ip, req[r].mac)
    /\ req' = [req EXCEPT ![r] = NoRequest]
    /\ UNCHANGED <<samples, banned>>

Write(r) ==
    /\ req[r].pc = "write"
    /\ Agrees(req[r].ip, req[r].mac)
    /\ \/ Known(req[r].mac) = {} /\ \E i \in Ids : InsertRow(i, req[r].ip, req[r].mac)
       \/ \E i \in Known(req[r].mac) : MoveRow(i, req[r].ip, req[r].mac)
    /\ req' = [req EXCEPT ![r] = NoRequest]
    /\ UNCHANGED <<samples, banned>>

-----------------------------------------------------------------------------
(***************************************************************************)
(* Telemetry: POST /agent/telemetry and poll_device                        *)
(***************************************************************************)
FindToSave(r, ip, mac) ==
    /\ Agrees(ip, mac)
    /\ \E i \in Known(mac) :
         /\ i \in Active
         /\ rows[i].ip = ip
         /\ BeginRequest(r, "save", ip, mac, i)

(* The row is read, and the miner at its address answers with the same MAC. *)
Poll(r, i) ==
    /\ i \in Active
    /\ rows[i].mac # NoMac
    /\ BeginRequest(r, "save", rows[i].ip, rows[i].mac, i)

SaveFound(r) ==  \* mutant: the identity is not resolved again in the transaction
    /\ req[r].pc = "save"
    /\ samples' = samples \cup {[of |-> req[r].id, from |-> req[r].mac]}
    /\ req' = [req EXCEPT ![r] = NoRequest]
    /\ UNCHANGED <<rows, alias, banned>>

(* _persist_live_telemetry with _assert_live_identity_tx *)
Save(r) ==
    /\ req[r].pc = "save"
    /\ req[r].id \in Active
    /\ Agrees(req[r].ip, req[r].mac)
    /\ Known(req[r].mac) = {req[r].id}
    /\ rows[req[r].id].ip = req[r].ip
    /\ samples' = samples \cup {[of |-> req[r].id, from |-> req[r].mac]}
    /\ req' = [req EXCEPT ![r] = NoRequest]
    /\ UNCHANGED <<rows, alias, banned>>

(* A refusal, an error, a lost request: the transaction is rolled back. *)
GiveUpRequest(r) ==
    /\ req[r].pc # "none"
    /\ req' = [req EXCEPT ![r] = NoRequest]
    /\ UNCHANGED <<rows, alias, samples, banned>>

-----------------------------------------------------------------------------
(***************************************************************************)
(* Removing, restoring and the collection of tombstones at boot            *)
(***************************************************************************)
RemoveRow(i) ==
    /\ i \in Active
    /\ rows' = [rows EXCEPT ![i].state = "removed"]
    /\ banned' = banned \cup ({rows[i].mac} \ {NoMac})
    /\ UNCHANGED <<alias, samples, req>>

(* clear_tombstone *)
Restore(ip, mac) ==
    /\ \E i \in Ids :
         /\ {j \in RowsAt(ip) : rows[j].state = "removed"} = {i}
         /\ rows[i].mac = mac
         /\ rows' = [rows EXCEPT ![i].state = "active"]
    /\ banned' = banned \ {mac}
    /\ UNCHANGED <<alias, samples, req>>

(* gc_tombstones, of the tombstones that are old enough.  The requests died *)
(* with the process.                                                        *)
CollectKeepingAliases(old) ==  \* mutant: the aliases of purged rows stay
    /\ rows' = [i \in Ids |-> IF i \in old THEN [UnusedRow EXCEPT !.state = "purged"] ELSE rows[i]]
    /\ samples' = {s \in samples : s.of \notin old}
    /\ req' = [r \in Requests |-> NoRequest]
    /\ banned' = banned \ {rows[i].mac : i \in old}
    /\ UNCHANGED alias

CollectTombstones(old) ==
    /\ rows' = [i \in Ids |-> IF i \in old THEN [UnusedRow EXCEPT !.state = "purged"] ELSE rows[i]]
    /\ alias' = [m \in Macs |-> IF alias[m] \in old THEN NoRow ELSE alias[m]]
    /\ samples' = {s \in samples : s.of \notin old}
    /\ req' = [r \in Requests |-> NoRequest]
    /\ banned' = banned \ {rows[i].mac : i \in old}

-----------------------------------------------------------------------------
RequestStep(r) ==
    \/ \E ip \in Ips : AddByHand(r, ip)
    \/ \E mac \in Macs \cup {NoMac} : Probe(r, mac)
    \/ \E ip \in Ips, mac \in Macs : FindToRegister(r, ip, mac) \/ FindToSave(r, ip, mac)
    \/ \E i \in Ids : Poll(r, i)
    \/ Write(r)
    \/ Save(r)
    \/ GiveUpRequest(r)

IdentityNext ==
    \/ \E r \in Requests : RequestStep(r)
    \/ \E i \in Ids : RemoveRow(i)
    \/ \E ip \in Ips, mac \in Macs : Restore(ip, mac)
    \/ \E old \in SUBSET {i \in Ids : rows[i].state = "removed"} : CollectTombstones(old)

IdentitySpec == IdentityInit /\ [][IdentityNext]_identityVars

-----------------------------------------------------------------------------
(***************************************************************************)
(* Properties                                                              *)
(***************************************************************************)

(* An alias names the only row of its MAC. *)
AliasesAreTrue ==
    \A m \in Macs : alias[m] # NoRow => RowsOf(m) = {alias[m]}

(* The samples of a row are of one miner, the row's own, wherever that miner  *)
(* was and whoever took its address meanwhile.                                *)
SamplesAreAttributed ==
    \A s \in samples : InUse(s.of) /\ rows[s.of].mac = s.from

(* A miner that the operator removed does not come back on its own.  (Of rows *)
(* older than the aliases, a second one of the same MAC may still be there.)  *)
NoResurrection ==
    \A m \in banned : Cardinality(RowsOf(m)) = 1 => RowsOf(m) \cap Active = {}

(* No operation makes a second row for a miner or gives an address to two;  *)
(* what contradicts itself is left alone.                                   *)
NoNewAmbiguity ==
    /\ \A m \in Macs : RowsOf(m)' \subseteq RowsOf(m) \/ Cardinality(RowsOf(m)') = 1
    /\ \A ip \in Ips : RowsAt(ip)' \subseteq RowsAt(ip) \/ Cardinality(RowsAt(ip)') = 1

(* "DHCP with the same MAC keeps ID, telemetry and commands": a miner keeps   *)
(* its row until it is purged, and a removed row takes no sample.             *)
RowsAreKept ==
    \A i \in Ids :
        /\ rows[i].state = "active" => rows'[i].state \in {"active", "removed"} /\ rows'[i].mac = rows[i].mac
        /\ {s \in samples' \ samples : s.of = i} # {} => rows[i].state = "active"

(* A row, its alias and its samples are of one miner, a removed one stays    *)
(* removed, and no operation gives a miner a second row or its row to another. *)
IdentitiesAreTrue ==
    /\ [](IdentityTypeOK /\ AliasesAreTrue /\ SamplesAreAttributed /\ NoResurrection)
    /\ [][NoNewAmbiguity /\ RowsAreKept]_identityVars
=============================================================================
