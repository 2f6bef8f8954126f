---------------------------- MODULE ScheduleLoader ----------------------------
(***************************************************************************)
(* The checks an artifact passes between the compiler and the router       *)
(* (lib/domain/scheduled-routing/artifact.ts): the feed's license metadata *)
(* as the compiler resolves it, and the structure that writing and loading *)
(* validate.  ArtifactRotation has when a loader reads which files; here   *)
(* is what it refuses in a file that is whole.                             *)
(***************************************************************************)
EXTENDS ScheduleCompiler

-----------------------------------------------------------------------------
(* License metadata.  A license is [name, url]; "none" stands for an absent  *)
(* field, "default" is the url of CC BY 4.0.                                 *)

Urls == {"none", "default", "https", "http"}
Names == {"none", "CC BY 4.0", "CC BY", "other"}
Publishers == {"MVV", "other"}

IsHttps(url) == url \in {"default", "https"}
IsCcBy(name) == name \in {"CC BY 4.0", "CC BY"}

FeedInfos == [publisher : Publishers, name : Names, url : Urls]

\* attributions.txt, which may be absent.
Row == [organization : Publishers, name : Names \ {"none"}, url : Urls \ {"default"}]
Attributions ==
    [present : {TRUE}, rows : UNION {[1 .. n -> Row] : n \in 0 .. 2}]
      \cup {[present |-> FALSE, rows |-> <<>>]}

\* parseFeedProvidedOfficialMetadata: the license feed_info.txt names, if any,
\* and whether it is well formed.
FeedLicenses(info) ==
    IF info.name = "none" /\ info.url = "none" THEN {} ELSE {[name |-> info.name, url |-> info.url]}
IsWellFormed(info) ==
    FeedLicenses(info) # {} => info.publisher = "MVV" /\ IsCcBy(info.name) /\ IsHttps(info.url)

\* The license a row of the official publisher names.
RowLicense(row) ==
    [name |-> row.name, url |-> IF row.url = "none" THEN "default" ELSE row.url]


RowLicenses(rows) ==
    {RowLicense(rows[i]) : i \in {j \in DOMAIN rows : rows[j].organization = "MVV"}}
IsOfficial(licenses) ==
    Cardinality(licenses) = 1 /\ \A l \in licenses : IsCcBy(l.name) /\ IsHttps(l.url)

OfFeed(licenses) == [license |-> CHOOSE l \in licenses : TRUE, source |-> "feed", policy |-> FALSE]
OfPolicy == [license |-> [name |-> "CC BY 4.0", url |-> "default"],
             source |-> "meeet-policy", policy |-> TRUE]

\* Mutant of parseOfficialAttribution: where attributions.txt names a license
\* the one of feed_info.txt is not looked at.
OfficialRowsAlone(info, file) ==
    CASE file.present /\ IsOfficial(RowLicenses(file.rows)) -> OfFeed(RowLicenses(file.rows))
      [] ~file.present /\ IsWellFormed(info) /\ FeedLicenses(info) # {} -> OfFeed(FeedLicenses(info))
      [] ~file.present /\ FeedLicenses(info) = {} -> OfPolicy
      [] OTHER -> Rejected

\* Without attributions.txt the license is the one of feed_info.txt or, if that
\* names none, the project's policy.  With it, all official rows and
\* feed_info.txt must name one license.
parseOfficialAttribution(info, file) ==
    LET named == FeedLicenses(info) \cup RowLicenses(file.rows)
    IN  CASE ~IsWellFormed(info) -> Rejected
          [] ~file.present /\ IsWellFormed(info) /\ named = {} -> OfPolicy
          [] ~file.present /\ IsWellFormed(info) /\ named # {} -> OfFeed(named)
          [] /\ file.present /\ IsWellFormed(info)
             /\ RowLicenses(file.rows) # {} /\ IsOfficial(named) -> OfFeed(named)
          [] OTHER -> Rejected

\* compileScheduledArtifact: the metadata first, then the schedule.
compileScheduledArtifact(feed) ==
    LET official == parseOfficialAttribution(feed.info, feed.attributions)
    IN  IF official = Rejected THEN Rejected ELSE ImportSchedule(feed, official)

-----------------------------------------------------------------------------
(* Writing and loading. *)

\* The end of validateArtifactStructure.
OfficialIsValid(official) ==
    /\ IsCcBy(official.license.name)
    /\ IsHttps(official.license.url)
    /\ official.source \in {"feed", "meeet-policy"}
    /\ official.policy <=> official.source = "meeet-policy"

\* isScheduledRoutingArtifact
BoundsAreValid(a) ==
    /\ a.maximumTime >= 0
    /\ a.firstDate <= a.lastDate
    /\ a.earliest <= a.latest

ServicesAreKnown(a) ==
    \A t \in Trips : \/ a.service[t] \in DOMAIN a.calendars
                     \/ \E x \in DOMAIN a.exceptions : x[1] = a.service[t]

CalendarsAreValid(a) ==
    \A s \in DOMAIN a.calendars : a.calendars[s].from <= a.calendars[s].until

ConnectionIsValid(a, c) ==
    /\ c.trip \in Trips
    /\ c.service = a.service[c.trip]
    /\ c.departure >= 0
    /\ c.departure <= c.arrival

\* validateArtifactStructure
StructureIsValid(a) ==
    LET rows == a.connections
        times == {rows[i].departure : i \in DOMAIN rows} \cup {rows[i].arrival : i \in DOMAIN rows}
    IN  /\ ServicesAreKnown(a)
        /\ CalendarsAreValid(a)
        /\ \A i \in DOMAIN rows : ConnectionIsValid(a, rows[i])
        /\ \A i, j \in DOMAIN rows :
              rows[i].trip = rows[j].trip /\ rows[i].visit = rows[j].visit => i = j
        /\ \A i \in 2 .. Len(rows) : ~Precedes(SortKey(rows[i]), SortKey(rows[i - 1]))
        /\ \A t \in times : t <= a.maximumTime
        /\ a.maximumTime \in times \cup {0}

Loads(a) == BoundsAreValid(a) /\ StructureIsValid(a) /\ OfficialIsValid(a.official)

-----------------------------------------------------------------------------
(* Properties. *)

\* The license an artifact carries is the one that every part of its feed that
\* names one names, and the policy's only if no part does (artifact.ts:652).
AttributionIsAgreed(feed, official) ==
    LET named == FeedLicenses(feed.info) \cup RowLicenses(feed.attributions.rows)
    IN  /\ \A license \in named : license = official.license
        /\ official.source = "meeet-policy" <=> ~feed.attributions.present /\ named = {}
=============================================================================
