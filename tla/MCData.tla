------------------------------- MODULE MCData -------------------------------
(***************************************************************************)
(* A run over lanes, and the parts that make the data it stores: the       *)
(* parsers of the transcripts, the prices, and the hourly refresh of the   *)
(* rates.  "part" is the one that a behaviour is of; the variables of the  *)
(* others are Off, and the run is before its start.                        *)
(***************************************************************************)
EXTENDS MCIngestRun, KimiPart, TLC

CONSTANTS
  NoHost, NoRate, Rates, Thresholds, Horizon, MaxEdits,           \* Pricing
  RowRates, Searches, Floor, Alternation, MaxSecond, MaxMoves,    \* RateRefresh
  Prices, LastSecond,                                             \* PricingRows
  q1, q2, t1, t2, s1, s2,                                         \* Transcript
  Requests, Outputs, Settings, Tools, Snapshots, MaxLines, MaxResumes,
  Usages, MaxWritten, MaxRequests,                                \* Rollout
  AccountRegion, Quantizations, DataRegions, ServiceTiers,        \* Offerings
  MaxListed, MaxHours,
  FirstPrefixes, LaterPrefixes, NoMeter, Contexts, MaxCatalogMoves  \* VendorTable

VARIABLES
  part,
  priced, meter, charged, edits,
  second, truth, published, listing, search, hostRow, fresh, settled, moved,
  lines, walking, clean, resumes,
  rollout, total, last, model, searching, served, parsed, written,
  offered, pin, price, tracks, shifts, outcome, hours,
  doc, prefixes, catalog, recorded, result, followed, catalogMoves,
  sample   \* a history or a row of PricingRows

pricingVars == <<priced, meter, charged, edits>>
refreshVars == <<second, truth, published, listing, search, hostRow, fresh, settled, moved>>
transcriptVars == <<lines, walking, clean, resumes>>
rolloutVars == <<rollout, total, last, model, searching, served, parsed, written>>
offeringVars == <<offered, pin, price, tracks, shifts, outcome, hours>>
tableVars == <<doc, prefixes, catalog, recorded, result, followed, catalogMoves>>

Id(ns, name, tail) == [ns |-> ns, name |-> name, tail |-> tail]
Sent(id, host, ts, window) == [id |-> id, host |-> host, ts |-> ts, window |-> window]
Since(from, rate) == [from |-> from, rate |-> rate, schedule |-> <<>>]
Records ==
  {Sent(Id("", "old", ""), NoHost, 1, 1), Sent(Id("", "old", "-date"), "G", 2, 2),
   Sent(Id("v", "new", ":tier"), "G", 1, 1), Sent(Id("v", "new", ":tier"), "G", 2, 1),
   Sent(Id("", "new", ""), "G", 3, 2), Sent(Id("", "new", ""), NoHost, 2, 1),
   Sent(Id("", "new", ""), "H", 0, 2), Sent(Id("", "new", "-date"), NoHost, 1, 1),
   Sent(Id("us", "opus", ""), "A", 2, 1), Sent(Id("us", "opus", ""), NoHost, 1, 1),
   Sent(Id("us", "opus", "-fast"), NoHost, 3, 1), Sent(Id("stealth", "opus", ""), "A", 1, 1)}
ModelKeys == {Id("", "old", "")}
Tracked == {Id("v", "new", ""), Id("", "opus", ""), Id("w", "new", "-mmdd")}
VendorHost == [t \in Tracked |-> IF t.name = "opus" THEN "A" ELSE IF t.ns = "v" THEN "H" ELSE NoHost]
Rows == {<<Id("v", "new", ""), "H">>, <<Id("v", "new", ""), "G">>, <<Id("", "opus", ""), "A">>}
VendorPrefixes == {"v"}
Claude == {"opus"}
Families == <<[says |-> {"opus", "old"}, members |-> <<"opus">>]>>
DefaultName == "opus"
Schedules == {<<[days |-> {0, 1}, start |-> 0, end |-> 1, rate |-> 3]>>}
First == {<<>>, <<Since(3, 2)>>, <<Since(0, 1), Since(2, 2)>>}

SaidToClaude ==
  {[kind |-> "user", says |-> "prompt"], [kind |-> "user", says |-> "interrupt"],
   [kind |-> "result", tool |-> t1, error |-> TRUE], [kind |-> "system", subtype |-> "api_error"],
   [kind |-> "snapshot", digest |-> 1], [kind |-> "snapshot", digest |-> 2],
   [kind |-> "failed", limit |-> "hit"], [kind |-> "failed", limit |-> "transient"],
   [kind |-> "assistant", request |-> q1, output |-> 2, setting |-> s1, tool |-> t1],
   [kind |-> "assistant", request |-> q1, output |-> 1, setting |-> s1, tool |-> Nothing],
   [kind |-> "assistant", request |-> q2, output |-> 1, setting |-> s2, tool |-> t1]}
SaidToCodex ==
  {[kind |-> k] : k \in {"user", "apply_patch"}} \cup {[kind |-> "patch", turn |-> 1]}

Tag(ns, tail) == [ns |-> ns, tail |-> tail]
Site(tag, limits, rates, windows) ==
  [tag : {tag}, limits : limits, rate : rates, window : windows]
Sites == UNION {
  Site(Tag("n", <<>>), {1}, {1, 2}, {"none"}),
  Site(Tag("n", <<"fast">>), {1}, {2, 3}, {"none"}),
  Site(Tag("n", <<"fp8">>), {1, 2}, {1, 2, 3}, {"none"}),
  Site(Tag("n", <<"fp8", "us">>), {1}, {1}, {"none"}),
  Site(Tag("n", <<"global">>), {1}, {2}, {"none"}),
  Site(Tag("n", <<"fast", "global">>), {1}, {3}, {"none"}),
  Site(Tag("n", <<"odd">>), {1}, {1, 3}, {"none", "shut", "open"}),
  Site(Tag("m", <<"fp4">>), {1}, {2}, {"none"})}
AnyTag == Tag("", <<>>)
Pins ==
  {[tag |-> AnyTag, select |-> "cheapest", ignore |-> i] : i \in BOOLEAN} \cup
  {[tag |-> Tag("n", <<"fp8">>), select |-> "none", ignore |-> FALSE]}

\* Documents with a namespaced key, a bare one of another namespace, both, and
\* two bare or namespaced ones; with meters, also of the models table, or none.
EntryOf(ns, name) == [id |-> <<ns, name>>, context |-> 1]
TableOf(entries, metered) ==
  [tracked |-> entries, rows |-> [k \in DOMAIN entries |-> entries[k].id],
   pins |-> [k \in DOMAIN entries |-> entries[k].id],
   meters |-> [k \in metered |-> [threshold |-> 1, factor |-> 1]]]
Documents ==
  LET tables == {<<"w", "x">> :> EntryOf("w", "x"), <<"x">> :> EntryOf("w", "x"),
                 (<<"x">> :> EntryOf("v", "x")) @@ (<<"w", "x">> :> EntryOf("w", "x")),
                 (<<"x">> :> EntryOf("w", "x")) @@ (<<"v", "y">> :> EntryOf("v", "y"))}
  IN  {TableOf(t, {}) : t \in tables} \cup
      {TableOf(t, DOMAIN t \cup {<<"m">>}) : t \in tables}
InCatalog == << <<"v", "m">>, <<"v", "x">>, <<"v", "y">>, <<"w", "x">> >>
TableMeters == [threshold : {1}, factor : {1}]
TableModelKeys == {<<"m">>}

P == INSTANCE Pricing WITH history <- priced
R == INSTANCE RateRefresh WITH fetched <- fresh
D == INSTANCE PricingRows
T == INSTANCE Transcript WITH walk <- walking, Spoken <- SaidToClaude
X == INSTANCE Rollout WITH Spoken <- SaidToCodex
F == INSTANCE Offerings
W == INSTANCE VendorTable WITH CatalogIds <- InCatalog, FirstDocuments <- Documents,
       ModelKeys <- TableModelKeys, Meters <- TableMeters

Off == 0

\* Before the first run, of release 1, with both transcripts in the bucket.
NoRun == Init /\ release = 1 /\ \A f \in Files : bucket[f].live

DataInit ==
  /\ part \in {"run", "pricing", "refresh", "rows", "claude", "codex", "kimi", "offerings",
               "vendor"}
  /\ IF part = "run" THEN Init ELSE NoRun
  /\ IF part = "pricing" THEN P!PricingInit
     ELSE priced = Off /\ meter = Off /\ charged = Off /\ edits = Off
  /\ IF part = "refresh" THEN R!RefreshInit
     ELSE second = Off /\ truth = Off /\ published = Off /\ listing = Off /\ search = Off /\
          hostRow = Off /\ fresh = Off /\ settled = Off /\ moved = Off
  /\ IF part = "claude" THEN T!TranscriptInit
     ELSE lines = Off /\ walking = Off /\ clean = Off /\ resumes = Off
  /\ IF part = "codex" THEN X!RolloutInit
     ELSE rollout = Off /\ total = Off /\ last = Off /\ model = Off /\ searching = Off /\
          served = Off /\ parsed = Off /\ written = Off
  /\ IF part = "kimi" THEN K!WireInit
     ELSE dialect = Off /\ wire = Off /\ line = Off /\ step = Off /\ queued = Off /\
          heard = Off /\ replying = Off /\ requests = Off /\ calls = Off /\ failedAt = Off
  /\ IF part = "offerings" THEN F!OfferingInit
     ELSE offered = Off /\ pin = Off /\ price = Off /\ tracks = Off /\ shifts = Off /\
          outcome = Off /\ hours = Off
  /\ IF part = "vendor" THEN W!TableInit
     ELSE doc = Off /\ prefixes = Off /\ catalog = Off /\ recorded = Off /\ result = Off /\
          followed = Off /\ catalogMoves = Off
  /\ IF part = "rows" THEN sample \in D!Histories \cup D!RowSets ELSE sample = Off

\* One part steps, the others stay.  PricingRows has no steps.
DataNext ==
  /\ UNCHANGED <<part, sample>>
  /\ \/ part = "run" /\ Next
     \/ part # "run" /\ UNCHANGED vars
  /\ \/ part = "pricing" /\ P!PricingNext
     \/ part # "pricing" /\ UNCHANGED pricingVars
  /\ \/ part = "refresh" /\ R!RefreshNext
     \/ part # "refresh" /\ UNCHANGED refreshVars
  /\ \/ part = "claude" /\ T!TranscriptNext
     \/ part # "claude" /\ UNCHANGED transcriptVars
  /\ \/ part = "codex" /\ X!RolloutNext
     \/ part # "codex" /\ UNCHANGED rolloutVars
  /\ \/ part = "kimi" /\ K!WireNext
     \/ part # "kimi" /\ UNCHANGED wireVars
  /\ \/ part = "offerings" /\ F!OfferingNext
     \/ part # "offerings" /\ UNCHANGED offeringVars
  /\ \/ part = "vendor" /\ W!TableNext
     \/ part # "vendor" /\ UNCHANGED tableVars

DataSpec ==
  DataInit /\ [][DataNext]_<<part, sample, vars, pricingVars, refreshVars, transcriptVars,
    rolloutVars, wireVars, offeringVars, tableVars>>

(***************************************************************************)
(* The properties of the parts.                                            *)
(***************************************************************************)
\* The type invariant of every part.
DataTypeOK ==
  /\ TypeOK
  /\ part = "pricing" => P!PricingTypeOK
  /\ part = "refresh" => R!RefreshTypeOK
  /\ part = "claude" => T!TranscriptTypeOK
  /\ part = "codex" => X!RolloutTypeOK
  /\ part = "kimi" => K!WireTypeOK
  /\ part = "offerings" => F!OfferingTypeOK
  /\ part = "vendor" => W!TableTypeOK

\* Pricing: summed tokens priced per epoch give the stored costs, and an equal
\* fingerprint means an equal price (BucketsReconcile and FingerprintTells of
\* Pricing).
PricesHold == part = "pricing" => P!BucketsReconcile /\ P!FingerprintTells

\* RateRefresh, PricingRows: every run's document loads and a run with nothing
\* new writes nothing; what is stored comes back, and is stored in one way only
\* (RefreshLoads and QuietRunsWriteNothing of RateRefresh, HistoryComesBack and
\* RowIsCanonical of PricingRows).
DocumentHolds ==
  /\ part = "refresh" => R!RefreshLoads /\ R!QuietRunsWriteNothing
  /\ part = "rows" =>
       /\ sample \in D!Histories => D!HistoryComesBack(sample)
       /\ sample \in D!RowSets => D!RowIsCanonical(sample)

\* The parsers: a request is booked once, with its own tokens, model, flags and
\* tool calls, whatever the transcript repeats; a repeated rate limit alone is
\* booked again (ReplaysOnlyForget and FlagsLand of Transcript, RequestsOnce of
\* Rollout, StepsOwnTheirRows of Wire).
RequestsKeepTheirRows ==
  /\ part = "claude" => T!ReplaysOnlyForget /\ T!FlagsLand
  /\ part = "codex" => X!RequestsOnce
  /\ part = "kimi" => K!StepsOwnTheirRows

\* The parsers: no generation time spans a failed attempt or part of another
\* request's (TimesUnbroken of Transcript, RolloutWindowsApart of Rollout,
\* WireTimesUnbroken of Wire).
TimesUnbroken ==
  /\ part = "claude" => T!TimesUnbroken
  /\ part = "codex" => X!RolloutWindowsApart
  /\ part = "kimi" => K!WireTimesUnbroken

\* Offerings, VendorTable: a host's row silently stays with the endpoint it
\* tracks and never moves to one that only service tiers price so; a model's
\* entry, row, pin and meter move together, the table says what the catalog
\* lists, and nothing moves twice (SilentRunsStay and TiersStayAside of
\* Offerings, TablesFollow, QuietOnceFollowed and ModelsKeepTheirs of
\* VendorTable).
RowsStayWithTheirs ==
  /\ [][part = "offerings" => F!SilentRunsStay /\ F!TiersStayAside]_offeringVars
  /\ [](part = "vendor" => W!TablesFollow)
  /\ [][part = "vendor" => W!QuietOnceFollowed /\ W!ModelsKeepTheirs]_tableVars
=============================================================================
