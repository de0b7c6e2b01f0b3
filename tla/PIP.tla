-------------------------------- MODULE PIP --------------------------------
(***************************************************************************)
(* The policy information point (pip/main.go): a table of clients, kept in *)
(* a database that outlives the process, filled at every start from a seed *)
(* file that the container image brings, and looked up by the PDP over     *)
(* HTTP.                                                                   *)
(*                                                                         *)
(* A client's key is base64 text; of its characters only "/" matters, as   *)
(* the key is the tail of the request's path.  Service names hold no comma.*)
(***************************************************************************)
EXTENDS Naturals, Sequences, SequencesExt

CONSTANTS
    ClientKeys,     \* static public keys, as sequences of characters
    Seeds,          \* seed files: sequences of [key, psk, services, revoked]
    NoRow,
    MaxStarts       \* bound: how often the PIP is started

ASSUME PIPAssumption ==
    Seeds \subseteq Seq([key : ClientKeys, psk : STRING, services : Seq(STRING), revoked : BOOLEAN])

VARIABLES
    db,             \* table clients: key -> row, or NoRow
    file,           \* the seed file of this start
    pos,            \* next entry of it to insert; 0 when the process is down
    loaded,         \* history: seed files used so far
    starts

pipVars == <<db, file, pos, loaded, starts>>

PIPInit ==
    /\ db = [k \in ClientKeys |-> NoRow]
    /\ file = <<>> /\ pos = 0
    /\ loaded = {} /\ starts = 0

(* main: initDB keeps an existing table; a missing seed file is an empty one. *)
StartPIP(f) ==
    /\ pos = 0 /\ starts < MaxStarts
    /\ starts' = starts + 1
    /\ file' = f /\ pos' = 1 /\ loaded' = loaded \cup {f}
    /\ UNCHANGED db

(* seedClients stores the services joined by commas and getClient splits   *)
(* them again, which turns no service into one with an empty name.         *)
StoredServices(services) == IF services = <<>> THEN <<"">> ELSE services

Row(e) == [psk |-> e.psk, services |-> StoredServices(e.services), revoked |-> e.revoked]

(* Mutant: INSERT OR IGNORE. *)
BugKeepsOldRow(e) == IF db[e.key] = NoRow THEN [db EXCEPT ![e.key] = Row(e)] ELSE db

Upsert(e) == [db EXCEPT ![e.key] = Row(e)]

(* seedClients, one INSERT OR REPLACE, committed by itself. *)
SeedRow ==
    /\ pos \in 1..Len(file)
    /\ db' = Upsert(file[pos])
    /\ pos' = pos + 1
    /\ UNCHANGED <<file, loaded, starts>>

Serving == pos > Len(file) /\ pos # 0

(* The process ends at any time, also between two rows. *)
StopPIP ==
    /\ pos # 0
    /\ pos' = 0
    /\ UNCHANGED <<db, file, loaded, starts>>

(* net/http.ServeMux redirects a path with an empty element to the cleaned *)
(* path, and http.Get follows: of "/clients/" and the key, the slashes at  *)
(* the key's front and all but one of adjacent slashes are lost.           *)
cleanPath(key) ==
    LET path == <<"/">> \o key
        kept == SelectSeq([n \in DOMAIN path |-> n],
                          LAMBDA n : n > 1 /\ ~(path[n] = "/" /\ path[n - 1] = "/"))
    IN  [n \in DOMAIN kept |-> path[kept[n]]]

(* The row under which the handler of /clients/ finds the key (getClient). *)
getClient(key) == IF cleanPath(key) \in ClientKeys THEN db[cleanPath(key)] ELSE NoRow

PIPNext == (\E f \in Seeds : StartPIP(f)) \/ SeedRow \/ StopPIP

-----------------------------------------------------------------------------
(* PROPERTY.  Once the PIP serves, the table holds for every client of its *)
(* seed file what the file's last entry for it says, whatever earlier      *)
(* starts, interrupted ones too, have left in the database: a revocation   *)
(* or a new PSK takes effect with the start that brings it (seedClients).  *)
LastFor(n, end) == \A m \in (n + 1)..end : file[m].key # file[n].key

ServesSeed ==
    Serving => \A n \in DOMAIN file : LastFor(n, Len(file)) => db[file[n].key] = Row(file[n])
=============================================================================
