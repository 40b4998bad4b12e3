----------------------------- MODULE ECHUpdate -----------------------------
(***************************************************************************)
(* cloudflare.UpdateECH (src/proxy/internal/cloudflare/cloudflare.go): for *)
(* each Target, fetch the zone's HTTPS records once (getZoneData: zone id,  *)
(* then the dns_records pages), then for each of the target's names        *)
(* replace the ech= parameter of the record's value with the new ECH       *)
(* config list and PATCH it (updateRecord).                                *)
(*                                                                         *)
(* The provider is the environment: every request may fail (network,      *)
(* token, API error), and records may be deleted between requests.  A      *)
(* record's value is abstracted to its ech parameter, Old or New; the      *)
(* regexp replacement sets it to New and leaves the rest alone.  Log lines *)
(* are kept as <<kind, zone, name>> because the properties are about what  *)
(* the updater reports.                                                    *)
(***************************************************************************)
EXTENDS Integers, Sequences, SequencesExt, FiniteSets, Functions

CONSTANTS
  Zones,      \* zone names
  Names,      \* DNS names
  NoName,     \* name field of a log line about a whole zone
  RecIds,     \* record ids at the provider
  RecZone,    \* RecIds -> Zones
  RecName,    \* RecIds -> Names
  RecOrder,   \* the provider's listing order: a sequence of all RecIds
  Targets,    \* the records argument: a sequence of [zone, names]
  PerPage     \* per_page of the dns_records listing

ASSUME /\ Range(RecOrder) = RecIds /\ Len(RecOrder) = Cardinality(RecIds)
       /\ PerPage \in Nat \ {0}

VARIABLES
  ech,     \* the provider: RecIds -> {"old", "new"}
  live,    \* the provider: records that still exist
  pc,      \* where UpdateECH is
  ti,      \* index of the current Target
  ni,      \* index of the current name of the Target
  page,    \* the dns_records page getZoneData asks for next
  zones,   \* the zones map: zones whose lookup was started
  data,    \* the data map: <<zone, name>> -> [id, ech] as fetched
  log      \* the lines logged so far

vars == <<ech, live, pc, ti, ni, page, zones, data, log>>

Zone == Targets[ti].zone
TNames == Targets[ti].names

LogLines == [kind : {"zoneErr"}, zone : Zones, name : {NoName}]
            \cup [kind : {"notexist", "updErr", "updated"}, zone : Zones, name : Names]
Log(k, z, n) == [kind |-> k, zone |-> z, name |-> n]

\* The provider's answer to a listing of zone z: its live HTTPS records.
ZoneList(z) == SelectSeq(RecOrder, LAMBDA r : r \in live /\ RecZone[r] = z)

\* updateRecord: a PATCH of a deleted record fails; any request may fail.
UpdateRecord(id) == IF id \in live THEN BOOLEAN ELSE {FALSE}

TypeOK ==
  /\ ech \in [RecIds -> {"old", "new"}]
  /\ live \subseteq RecIds
  /\ pc \in {"target", "zone", "page", "names", "done"}
  /\ ti \in 1..Len(Targets) + 1
  /\ page \in Nat \ {0}
  /\ zones \subseteq Zones
  /\ DOMAIN data \subseteq Zones \X Names
  /\ \A k \in DOMAIN data : data[k].id \in RecIds /\ data[k].ech \in {"old", "new"}
  /\ log \subseteq LogLines
  /\ pc = "names" => ni \in 1..Len(TNames) + 1

Init ==
  /\ ech \in [RecIds -> {"old", "new"}]
  /\ live = RecIds
  /\ pc = "target"
  /\ ti = 1
  /\ ni = 1
  /\ page = 1
  /\ zones = {}
  /\ data = [k \in {} |-> [id |-> CHOOSE r \in RecIds : TRUE, ech |-> "old"]]
  /\ log = {}

-----------------------------------------------------------------------------
\* Mutant: the loop over the names does not start at the first one.
StartNamesNoReset == pc' = "names" /\ UNCHANGED ni

\* for _, name := range r.Names: from the first name.
StartNames == pc' = "names" /\ ni' = 1

(* Top of the loop over records: a zone not seen yet is marked seen, then  *)
(* looked up; a seen zone goes straight to the names.                      *)
NextTarget ==
  /\ pc = "target"
  /\ ti <= Len(Targets)
  /\ IF Zone \notin zones
       THEN /\ zones' = zones \cup {Zone}
            /\ pc' = "zone"
            /\ UNCHANGED ni
       ELSE StartNames /\ UNCHANGED zones
  /\ UNCHANGED <<ech, live, ti, page, data, log>>

Finish ==
  /\ pc = "target"
  /\ ti > Len(Targets)
  /\ pc' = "done"
  /\ UNCHANGED <<ech, live, ti, ni, page, zones, data, log>>

\* Mutant: the error of getZoneData is not logged.
ZoneFailedNoLog ==
  /\ UNCHANGED log
  /\ ti' = ti + 1
  /\ pc' = "target"

\* getZoneData returned an error: log it and continue with the next target.
ZoneFailed ==
  /\ log' = log \cup {Log("zoneErr", Zone, NoName)}
  /\ ti' = ti + 1
  /\ pc' = "target"

\* The zones lookup answers with the zone id: ask for the first page.
ZoneLookup ==
  /\ pc = "zone"
  /\ pc' = "page"
  /\ page' = 1
  /\ UNCHANGED <<ech, live, ti, ni, zones, data, log>>

\* A failed request of getZoneData: the lookup or a page.
GetZoneDataFailed ==
  /\ pc \in {"zone", "page"}
  /\ ZoneFailed
  /\ UNCHANGED <<ech, live, ni, page, zones, data>>

\* The records of a listed page, stored into data; a later one wins.
Store(d, z, recs) ==
  FoldLeft(LAMBDA acc, r : (<<z, RecName[r]>> :> [id |-> r, ech |-> ech[r]]) @@ acc,
           d, recs)

\* Page p of a listing of per_page records: the (p-1)*per_page+1-th on.
PageOf(all, p) ==
  SubSeq(all, (p - 1) * PerPage + 1, IF p * PerPage > Len(all) THEN Len(all) ELSE p * PerPage)

\* Mutant: the page number is never advanced.
NextPageNoAdvance == page

\* The page loop's post statement: page++.
NextPage == page + 1

(* One page of dns_records answered: its records go into data (an error   *)
(* is GetZoneDataFailed), and the loop stops on an empty page or when      *)
(* page * per_page reaches the count the provider reports.                 *)
FetchPage ==
  LET all  == ZoneList(Zone)
      recs == PageOf(all, page)
  IN
  /\ pc = "page"
  /\ data' = Store(data, Zone, recs)
  /\ IF recs = <<>> \/ page * PerPage >= Len(all)
       THEN StartNames /\ UNCHANGED page
       ELSE page' = NextPage /\ UNCHANGED <<pc, ni>>
  /\ UNCHANGED <<ech, live, ti, zones, log>>

\* Mutant: a failed PATCH logs only the "updated" line.
UpdateLogNoErr(k, ok) == {Log("updated", k[1], k[2])}

\* The lines logged after updateRecord: its error, if any, then "updated".
UpdateLog(k, ok) ==
  {Log("updated", k[1], k[2])} \cup (IF ok THEN {} ELSE {Log("updErr", k[1], k[2])})

(* One name of the target: a name missing from data is logged and skipped; *)
(* a value that already carries the new ech is left alone; otherwise the   *)
(* record is PATCHed, an error is logged, and "updated" is logged in       *)
(* either case.  The copy v is changed, data is not.                       *)
UpdateName ==
  LET k == <<Zone, TNames[ni]>>
  IN
  /\ pc = "names"
  /\ ni <= Len(TNames)
  /\ ni' = ni + 1
  /\ \/ /\ k \notin DOMAIN data
        /\ log' = log \cup {Log("notexist", k[1], k[2])}
        /\ UNCHANGED ech
     \/ /\ k \in DOMAIN data
        /\ data[k].ech = "new"
        /\ UNCHANGED <<ech, log>>
     \/ /\ k \in DOMAIN data
        /\ data[k].ech # "new"
        /\ \E ok \in UpdateRecord(data[k].id) :
             /\ ech' = IF ok THEN [ech EXCEPT ![data[k].id] = "new"] ELSE ech
             /\ log' = log \cup UpdateLog(k, ok)
  /\ UNCHANGED <<live, pc, ti, page, zones, data>>

NamesDone ==
  /\ pc = "names"
  /\ ni > Len(TNames)
  /\ ti' = ti + 1
  /\ pc' = "target"
  /\ UNCHANGED <<ech, live, ni, page, zones, data, log>>

\* The environment: someone deletes an HTTPS record at the provider.
DeleteRecord ==
  /\ pc # "done"
  /\ \E r \in live : live' = live \ {r}
  /\ UNCHANGED <<ech, pc, ti, ni, page, zones, data, log>>

Next ==
  \/ NextTarget \/ Finish \/ ZoneLookup \/ FetchPage \/ UpdateName \/ NamesDone
  \/ GetZoneDataFailed \/ DeleteRecord

(* UpdateECH is one sequential goroutine and every request is answered     *)
(* (retryablehttp and the context bound it), so each of its steps is       *)
(* taken; whether an answer is an error is the provider's choice, so the   *)
(* failures and the deletions get no fairness.                             *)
Fairness ==
  /\ WF_vars(NextTarget) /\ WF_vars(Finish) /\ WF_vars(ZoneLookup)
  /\ WF_vars(FetchPage) /\ WF_vars(UpdateName) /\ WF_vars(NamesDone)

Spec == Init /\ [][Next]_vars /\ Fairness

-----------------------------------------------------------------------------
(* Properties *)

RequestedBy(t) == {<<t.zone, n>> : n \in Range(t.names)}
Reported(z, n) ==
  \E l \in log : l.zone = z /\ l.name \in {n, NoName} /\ l.kind # "updated"

\* When UpdateECH returns, every live record under a requested name carries
\* the new ECH config, or an error was logged for its name or its zone: the
\* zone-once map, the pagination and the data map lose no record silently.
NoSilentMiss ==
  pc = "done" =>
    \A t \in Range(Targets) : \A k \in RequestedBy(t) :
      \A r \in live : <<RecZone[r], RecName[r]>> = k =>
        ech[r] = "new" \/ Reported(k[1], k[2])

\* A name is logged as not existing only when no record of that name exists
\* at the provider: the zones map and the paging must not hide one.
NotExistOnlyIfAbsent ==
  [][\A l \in log' \ log :
       l.kind = "notexist" =>
         ~\E r \in live : <<RecZone[r], RecName[r]>> = <<l.zone, l.name>>]_vars

\* Line 111 logs "updated" after a failed PATCH as well, right after the
\* error line: read together, an "updated" line for a name with no error
\* line for it means every live record under that name carries the new
\* ECH config.
UpdatedLineTruthful ==
  \A l \in log :
    l.kind = "updated" /\ Log("updErr", l.zone, l.name) \notin log =>
      \A r \in live : <<RecZone[r], RecName[r]>> = <<l.zone, l.name>> => ech[r] = "new"

\* UpdateECH returns: the page loop and the target loop end.
UpdaterTerminates == <>(pc = "done")

=============================================================================
