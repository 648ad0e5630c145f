---------------------------- MODULE NodeLocation ----------------------------
(***************************************************************************)
(* Where a node is: what it finds out, reports and the controller keeps    *)
(*   internal/nodecore/location/locator.go        Locate, resolve          *)
(*   cmd/corelink-node/main.go                    the reporting goroutine  *)
(*   cmd/corelink-controller/main.go              loading after a restart  *)
(*   internal/controller/ingress/receiver.go      ReportNodeGeo, LoadGeo   *)
(* Four pages are asked at once; two decide, Cloudflare's meta and         *)
(* my.ip.cn, the others are for display and left out.  Places stand for    *)
(* coordinates: home is where the node is, edge is where Cloudflare        *)
(* believes a node in China to be, nowhere is 0, 0.                        *)
(***************************************************************************)
EXTENDS Integers

CONSTANTS FirstTries,     \* reports tried quickly after the start
          MaxLocFaults    \* bound: pages that change, restarts, writes that fail

ASSUME LocAssumption == FirstTries \in Nat /\ MaxLocFaults \in Nat

VARIABLES abroad,     \* the node is outside China
          knownCity,  \* my.ip.cn names a city of the table (china_cities.go)
          pages,      \* the pages that answer
          reporter,   \* where the reporting goroutine is
          tries,      \* quick tries made; all of them once one succeeded
          found,      \* what Locate returned
          geoFlush,   \* the channel of capacity one
          master,     \* the controller: "up", "down", or "back" until the node has noticed
          nodeGeo,    \* Receiver.nodeGeo, <<>> for none
          row,        \* the columns of the node's row, <<>> for none
          persisting, \* goroutines about to write the row
          locFaults   \* of MaxLocFaults

locVars == <<abroad, knownCity, pages, reporter, tries, found, geoFlush, master, nodeGeo, row, persisting, locFaults>>

\* meta may answer and name no coordinates, which is "bare".
Page == {"meta", "bare", "ipcn"}
Answers == {p \in SUBSET Page : ~({"meta", "bare"} \subseteq p)}
BothPages == {"meta", "ipcn"}
Geo == [at : {"home", "edge", "nowhere"}, acc : {"high", "low", "none"}]
Nowhere == [at |-> "nowhere", acc |-> "none"]
MaybeKnown == {<<>>} \cup {<<g>> : g \in Geo}

LocTypeOK ==
    /\ abroad \in BOOLEAN /\ knownCity \in BOOLEAN /\ pages \subseteq Page
    /\ reporter \in {"locate", "pause", "report", "wait"} /\ tries \in 0 .. FirstTries
    /\ found \in Geo /\ geoFlush \in BOOLEAN /\ master \in {"up", "down", "back"}
    /\ nodeGeo \in MaybeKnown /\ row \in MaybeKnown /\ persisting \subseteq Geo /\ locFaults \in 0 .. MaxLocFaults

LocInit ==
    /\ abroad \in BOOLEAN /\ knownCity \in BOOLEAN /\ pages \in Answers
    /\ reporter = "locate" /\ tries = 0 /\ found = Nowhere /\ geoFlush = FALSE
    /\ master = "up" /\ nodeGeo = <<>> /\ row = <<>> /\ persisting = {} /\ locFaults = 0

-----------------------------------------------------------------------------
(* The node.                                                               *)

(* resolve: in China the city my.ip.cn names, where the table has it; else *)
(* Cloudflare's place, which is poor for China, where meta names one; else *)
(* nowhere, and no error.                                                  *)
ByCloudflareAlone == [at |-> IF abroad THEN "home" ELSE "edge", acc |-> "high"]
ByCloudflare == [at |-> IF abroad THEN "home" ELSE "edge", acc |-> IF abroad THEN "high" ELSE "low"]
Resolve(answered) ==
    IF "ipcn" \in answered /\ answered # {"ipcn"} /\ ~abroad /\ knownCity THEN [at |-> "home", acc |-> "high"]
    ELSE IF "meta" \in answered THEN ByCloudflare
    ELSE Nowhere

(* A failed report is tried again quickly at first, then left to the timer. *)
ReportFails ==
    /\ reporter' = IF tries < FirstTries THEN "pause" ELSE "wait"
    /\ tries' = IF tries < FirstTries THEN tries + 1 ELSE tries

Locate ==
    /\ reporter = "locate"
    /\ IF pages = {} THEN ReportFails /\ UNCHANGED found
       ELSE found' = Resolve(pages) /\ reporter' = "report" /\ UNCHANGED tries
    /\ UNCHANGED <<abroad, knownCity, pages, geoFlush, master, nodeGeo, row, persisting, locFaults>>

(* ReportNodeGeo stores the report and has a goroutine write it.           *)
ReportNodeGeo ==
    /\ reporter = "report"
    /\ IF master = "down" THEN ReportFails /\ UNCHANGED <<nodeGeo, persisting>>
       ELSE /\ reporter' = "wait" /\ tries' = FirstTries
            /\ nodeGeo' = <<found>> /\ persisting' = persisting \cup {found}
    /\ UNCHANGED <<abroad, knownCity, pages, found, geoFlush, master, row, locFaults>>

Unpause ==
    /\ reporter = "pause" /\ reporter' = IF tries < FirstTries THEN "locate" ELSE "wait"
    /\ UNCHANGED <<abroad, knownCity, pages, tries, found, geoFlush, master, nodeGeo, row, persisting, locFaults>>

TakeFlush ==
    /\ reporter = "wait" /\ geoFlush
    /\ geoFlush' = FALSE /\ reporter' = "locate"
    /\ UNCHANGED <<abroad, knownCity, pages, tries, found, master, nodeGeo, row, persisting, locFaults>>

HalfHour ==
    /\ reporter = "wait" /\ reporter' = "locate"
    /\ UNCHANGED <<abroad, knownCity, pages, tries, found, geoFlush, master, nodeGeo, row, persisting, locFaults>>

(* The stream to the controller is there again (OnReconnect).              *)
FlushIfWaiting == geoFlush \/ reporter = "wait"
Flushed == TRUE
OnReconnect ==
    /\ master = "back" /\ master' = "up"
    /\ geoFlush' = Flushed
    /\ UNCHANGED <<abroad, knownCity, pages, reporter, tries, found, nodeGeo, row, persisting, locFaults>>

-----------------------------------------------------------------------------
(* The controller.                                                         *)

(* The goroutines of persistGeo write in any order.                        *)
PersistGeo(g) ==
    /\ g \in persisting /\ persisting' = persisting \ {g}
    /\ row' = <<g>>
    /\ UNCHANGED <<abroad, knownCity, pages, reporter, tries, found, geoFlush, master, nodeGeo, locFaults>>

LocFault == locFaults < MaxLocFaults /\ locFaults' = locFaults + 1

PersistFails(g) ==
    /\ LocFault /\ g \in persisting /\ persisting' = persisting \ {g}
    /\ UNCHANGED <<abroad, knownCity, pages, reporter, tries, found, geoFlush, master, nodeGeo, row>>

MasterStops ==
    /\ LocFault /\ master = "up"
    /\ master' = "down" /\ nodeGeo' = <<>> /\ persisting' = {}
    /\ UNCHANGED <<abroad, knownCity, pages, reporter, tries, found, geoFlush, row>>

(* LoadGeo takes over what is somewhere.                                   *)
MasterStarts ==
    /\ master = "down" /\ master' = "back"
    /\ nodeGeo' = IF row # <<>> /\ row[1].at # "nowhere" THEN row ELSE <<>>
    /\ UNCHANGED <<abroad, knownCity, pages, reporter, tries, found, geoFlush, row, persisting, locFaults>>

PagesChange ==
    /\ LocFault /\ pages' \in Answers
    /\ UNCHANGED <<abroad, knownCity, reporter, tries, found, geoFlush, master, nodeGeo, row, persisting>>

ReporterStep == Locate \/ ReportNodeGeo \/ Unpause \/ TakeFlush
MasterStep == MasterStarts \/ OnReconnect

LocNext ==
    \/ ReporterStep \/ MasterStep \/ HalfHour \/ MasterStops \/ PagesChange
    \/ \E g \in persisting : PersistGeo(g) \/ PersistFails(g)

-----------------------------------------------------------------------------
(* Properties.                                                             *)

\* A position held as exact is where the node is: in China, Cloudflare's guess alone is
\* never taken for exact, whichever page failed (resolve).
ExactIsTrue == \A k \in {nodeGeo, row} \ {<<>>} : k[1].acc = "high" => k[1].at = "home"

\* A controller that was down holds the node's position again without the timer's help,
\* whatever the reporter was doing when the stream came back (geoFlush, the quick tries).
PositionComesBack ==
    [](master = "down" /\ [](pages = BothPages) => <>[](nodeGeo = <<Resolve(BothPages)>>))
=============================================================================
