----------------------------- MODULE Collectors -----------------------------
(***************************************************************************)
(* The two appliance collectors (src/tools/unifi, src/tools/openwrt): a    *)
(* refresh thread that asks an appliance in a series of calls, and the     *)
(* HTTP handlers that serve the last snapshot to the monitors meanwhile.   *)
(* The appliance goes on changing between the calls of one refresh.        *)
(***************************************************************************)
EXTENDS Integers, Sequences, FiniteSets

CONSTANTS
    Kinds,       \* the collectors looked at: "openwrt", "unifi" or both
    Appliances,  \* the conditions an appliance may begin with
    Volatile     \* the conditions that may change

Conditions(kind) ==
    IF kind = "openwrt" THEN {"up", "address", "route", "bssid", "associated"} ELSE {"online"}

ASSUME CollectorsAssumption ==
    /\ Kinds \subseteq {"openwrt", "unifi"}
    /\ \A a \in Appliances : a \subseteq UNION {Conditions(k) : k \in Kinds}

VARIABLES
    collector,  \* which of the two collectors this is
    appliance,  \* the conditions that hold at present
    call,       \* the call of build_snapshot under way; 0 between refreshes
    seen,       \* the conditions its answers have shown so far
    worker,     \* the refresh thread: "running", "stalled" or "ended"
    stop,       \* the event that ends the thread
    document,   \* SnapshotStore._document: the conditions of a snapshot, optional
    error,      \* SnapshotStore._error: "none" is None
    held,       \* history: the conditions that held at some time in this refresh
    heldThen    \* history: held, at the end of the refresh that made the document

vars == <<collector, appliance, call, seen, worker, stop, document, error, held, heldThen>>

storeVars == <<document, error, heldThen>>

\* The calls of build_snapshot and the conditions each answer shows.  The list of
\* the radios comes before what they say of themselves.
Calls(kind) ==
    IF kind = "openwrt"
    THEN <<[name |-> "login", shows |-> {}], [name |-> "board", shows |-> {}],
           [name |-> "info", shows |-> {}],
           [name |-> "dump", shows |-> {"up", "address", "route"}],
           [name |-> "devices", shows |-> {}],
           [name |-> "iwinfo info", shows |-> {"bssid"}],
           [name |-> "assoclist", shows |-> {"associated"}],
           [name |-> "status", shows |-> {}]>>
    ELSE <<[name |-> "info", shows |-> {}], [name |-> "sites", shows |-> {}],
           [name |-> "devices", shows |-> {}], [name |-> "details", shows |-> {"online"}],
           [name |-> "statistics", shows |-> {}], [name |-> "wans", shows |-> {}]>>

Init ==
    /\ collector \in Kinds
    /\ appliance \in {a \cap Conditions(collector) : a \in Appliances}
    /\ call = 0
    /\ seen = {}
    /\ worker = "running"
    /\ stop = FALSE
    /\ document = {}
    /\ error = "not completed"
    /\ held = {}
    /\ heldThen = {}

-----------------------------------------------------------------------------
\* Faulty: what the refresh before has shown is kept.
BeginRefreshWithOld ==
    /\ worker = "running"
    /\ call = 0
    /\ ~stop
    /\ call' = 1
    /\ held' = appliance
    /\ UNCHANGED <<collector, appliance, seen, worker, stop, storeVars>>

\* The loop begins a refresh unless it has been stopped.
BeginRefresh ==
    /\ worker = "running"
    /\ call = 0
    /\ ~stop
    /\ call' = 1
    /\ seen' = {}
    /\ held' = appliance
    /\ UNCHANGED <<collector, appliance, worker, stop, storeVars>>

EndThread ==
    /\ worker = "running"
    /\ call = 0
    /\ stop
    /\ worker' = "ended"
    /\ UNCHANGED <<collector, appliance, call, seen, stop, held, storeVars>>

Asking == worker = "running" /\ call \in DOMAIN Calls(collector)
Present == Calls(collector)[call]

\* An answer of the expected shape.  Without a radio in station mode the calls
\* about it are left out; so is the last call when the uplink names no device.
Answered ==
    /\ Asking
    /\ seen' = seen \cup (Present.shows \cap appliance)
    /\ \/ call' = call + 1
       \/ Present.name = "devices" /\ collector = "openwrt" /\ call' = call + 3
       \/ Present.name = "assoclist" /\ call' = call + 2
    /\ UNCHANGED <<collector, appliance, worker, stop, held, storeVars>>

\* SnapshotStore.update_success with what build_snapshot returns.
Succeed ==
    /\ worker = "running"
    /\ call > Len(Calls(collector))
    /\ document' = {seen}
    /\ error' = "none"
    /\ heldThen' = held
    /\ call' = 0
    /\ UNCHANGED <<collector, appliance, seen, worker, stop, held>>

\* Faulty: an error text is noted only as long as there is no snapshot.
NoteFirstError ==
    /\ error' = IF document = {} THEN "refresh failed" ELSE error
    /\ UNCHANGED <<document, heldThen>>

\* SnapshotStore.update_error.
NoteError ==
    /\ error' = "refresh failed"
    /\ UNCHANGED <<document, heldThen>>

\* The appliance cannot be reached, shows another certificate, refuses, or answers
\* with something unexpected: a UnifiError or OpenWrtError, caught by refresh_once.
Fail ==
    /\ Asking
    /\ NoteError
    /\ call' = 0
    /\ UNCHANGED <<collector, appliance, seen, worker, stop, held>>

\* Any other exception, such as that of a number too large to be converted, ends
\* the thread; a peer that sends byte after byte keeps it, as the timeout is one of
\* every socket operation.  Neither touches the store.
Lost ==
    /\ Asking
    /\ worker' \in {"ended", "stalled"}
    /\ UNCHANGED <<collector, appliance, call, seen, stop, held, storeVars>>

Refresh == BeginRefresh \/ EndThread \/ Answered \/ Succeed \/ Fail

\* The appliance changes.
Change ==
    /\ \E c \in Volatile \cap Conditions(collector) :
          appliance' = IF c \in appliance THEN appliance \ {c} ELSE appliance \cup {c}
    /\ held' = held \cup appliance'
    /\ UNCHANGED <<collector, call, seen, worker, stop, storeVars>>

\* serve is interrupted.
Interrupt ==
    /\ ~stop
    /\ stop' = TRUE
    /\ UNCHANGED <<collector, appliance, call, seen, worker, held, storeVars>>

Next == Refresh \/ Lost \/ Change \/ Interrupt

Spec == Init /\ [][Next]_vars

\* The thread runs, and calls that are not lost come to an end.
FairSpec == Spec /\ WF_vars(Refresh)

-----------------------------------------------------------------------------
PathReady(c) == {"up", "address", "route"} \subseteq c

BridgeReady(c) == PathReady(c) /\ {"bssid", "associated"} \cap c # {}

Parts(kind) == IF kind = "openwrt" THEN {"monitor", "bridge", "starlink"} ELSE {"monitor"}

\* The statuses build_snapshot derives from what the answers have shown.
StatusOf(part, c) ==
    CASE collector = "unifi" -> IF "online" \in c THEN "ok" ELSE "fail"
      [] part = "starlink"   -> IF PathReady(c) THEN "ok" ELSE "fail"
      [] part = "bridge"     -> IF BridgeReady(c) THEN "ok"
                                ELSE IF PathReady(c) THEN "warn" ELSE "fail"
      [] OTHER               -> IF BridgeReady(c) THEN "ok" ELSE "fail"

\* SnapshotStore.response, as one request finds it: the statuses of its parts.
Served(part) ==
    IF error # "none" \/ document = {} THEN "communication_failure"
    ELSE CHOOSE s \in {StatusOf(part, c) : c \in document} : TRUE

\* A served "ok" is never made up: each condition it stands for held at some time
\* of one and the same refresh, the last one that was completed, however the
\* appliance changed during it.
OkWasTrue ==
    /\ collector = "openwrt" =>
        /\ Served("starlink") = "ok" => PathReady(heldThen)
        /\ Served("bridge") = "ok"
             => PathReady(heldThen) /\ {"bssid", "associated"} \cap heldThen # {}
        /\ Served("bridge") = "warn" => PathReady(heldThen)
        /\ Served("monitor") = "ok" <=> Served("bridge") = "ok"
    /\ collector = "unifi" /\ Served("monitor") = "ok" => "online" \in heldThen

Essential(kind) == IF kind = "openwrt" THEN {"up", "address", "route"} ELSE {"online"}

\* What has changed for good shows: once the path (or the gateway) stays away, no
\* part that depends on it is served as "ok" or "warn" for ever, as long as the
\* refresh thread is there, has not been stopped, and its calls come to an end.
ChangesShow ==
    (<>[](worker = "running" /\ ~stop /\ ~(Essential(collector) \subseteq appliance)))
    => <>[](\A part \in Parts(collector) : Served(part) \notin {"ok", "warn"})
=============================================================================
