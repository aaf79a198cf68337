----------------------------- MODULE MCServices -----------------------------
(***************************************************************************)
(* The parts of claudit that share no state with a run or its data, each   *)
(* on a small instance of its own: what answers requests, and the gates of *)
(* master.  "part" is the one that a behaviour is of; the variables of the *)
(* others are Off, the response cache is in Init.                          *)
(***************************************************************************)
EXTENDS MCResponseCache, ServerParts, MasterParts, ReadParts

VARIABLE part

Off == 0

ServicesInit ==
  /\ Init
  /\ part \in {"cache", "login", "export", "metrics", "bytes", "dashboard", "gates", "freshness",
               "ratchet", "boot", "vacuum", "listing", "workers"}
  /\ IF part = "login" THEN L!LoginInit
     ELSE failures = Off /\ tracked = Off /\ inflight = Off /\ attempt = Off /\ stored = Off /\
          cached = Off /\ references = Off /\ known = Off /\ rows = Off /\ token = Off /\
          revoked = Off /\ upsets = Off
  /\ IF part = "export" THEN E!ExportInit
     ELSE server = Off /\ live = Off /\ handler = Off /\ child = Off /\ file = Off /\
          clock = Off /\ kills = Off
  /\ IF part = "metrics" THEN M!MetricsInit
     ELSE now = Off /\ opened = Off /\ raw = Off /\ rollup = Off /\ sent = Off /\ late = Off /\
          lastFold = Off /\ maxGap = Off
  /\ IF part = "bytes" THEN O!BytesInit
     ELSE bucket = Off /\ row = Off /\ disk = Off /\ fetcher = Off /\ reader = Off /\
          lru = Off /\ since = Off /\ changes = Off
  /\ IF part = "dashboard" THEN V!DashboardInit
     ELSE span = Off /\ store = Off /\ rollups = Off /\ run = Off /\ answers = Off /\
          reading = Off /\ entry = Off /\ commits = Off
  /\ IF part = "gates" THEN G!GateInit ELSE master = Off /\ gate = Off /\ bot = Off
  /\ IF part = "freshness" THEN N!FreshInit
     ELSE defining = Off /\ head = Off /\ verdict = Off /\ publisher = Off /\ red = Off /\
          overtaken = Off
  /\ IF part = "ratchet" THEN Q!RatchetInit ELSE branch = Off /\ landed = Off /\ push = Off
  /\ IF part = "boot" THEN S!BootInit
     ELSE stamp = Off /\ catalog = Off /\ lock = Off /\ boot = Off /\ longTxn = Off /\
          auth = Off /\ starts = Off /\ edits = Off
  /\ IF part = "vacuum" THEN U!VacuumInit
     ELSE counters = Off /\ batch = Off /\ walk = Off /\ named = Off /\ failing = Off /\
          tries = Off /\ vacuumRuns = Off
  /\ IF part = "listing" THEN I!ListInit
     ELSE mode = Off /\ objects = Off /\ away = Off /\ phase = Off /\ unit = Off /\
          found = Off /\ todo = Off /\ fetched = Off /\ files = Off /\ gone = Off /\
          lost = Off /\ events = Off /\ newest = Off
  /\ IF part = "workers" THEN W!WorkersInit
     ELSE service = Off /\ forker = Off /\ poolServer = Off /\ worker = Off /\ broken = Off

\* One part steps, the others stay.
ServicesNext ==
  /\ UNCHANGED part
  /\ \/ part = "cache" /\ Next
     \/ part # "cache" /\ UNCHANGED vars
  /\ \/ part = "login" /\ L!LoginNext
     \/ part # "login" /\ UNCHANGED loginVars
  /\ \/ part = "export" /\ E!ExportNext
     \/ part # "export" /\ UNCHANGED exportVars
  /\ \/ part = "metrics" /\ M!MetricsNext
     \/ part # "metrics" /\ UNCHANGED metricsVars
  /\ \/ part = "bytes" /\ O!BytesNext
     \/ part # "bytes" /\ UNCHANGED bytesVars
  /\ \/ part = "dashboard" /\ V!DashboardNext
     \/ part # "dashboard" /\ UNCHANGED dashboardVars
  /\ \/ part = "gates" /\ G!GateNext
     \/ part # "gates" /\ UNCHANGED gateVars
  /\ \/ part = "freshness" /\ N!FreshNext
     \/ part # "freshness" /\ UNCHANGED freshVars
  /\ \/ part = "ratchet" /\ Q!RatchetNext
     \/ part # "ratchet" /\ UNCHANGED ratchetVars
  /\ \/ part = "boot" /\ S!BootNext
     \/ part # "boot" /\ UNCHANGED bootVars
  /\ \/ part = "vacuum" /\ U!VacuumNext
     \/ part # "vacuum" /\ UNCHANGED vacuumVars
  /\ \/ part = "listing" /\ I!ListNext
     \/ part # "listing" /\ UNCHANGED listVars
  /\ \/ part = "workers" /\ W!WorkersNext
     \/ part # "workers" /\ UNCHANGED workerVars

servicesVars ==
  <<part, vars, loginVars, exportVars, metricsVars, bytesVars, dashboardVars, gateVars, freshVars,
    ratchetVars, bootVars, vacuumVars, listVars, workerVars>>

ServicesSpec == ServicesInit /\ [][ServicesNext]_servicesVars

(***************************************************************************)
(* The properties of the parts.                                            *)
(***************************************************************************)
\* The type invariant of every part.
ServicesTypeOK ==
  /\ part = "cache" => TypeOK
  /\ part = "login" => L!LoginTypeOK
  /\ part = "export" => E!ExportTypeOK
  /\ part = "metrics" => M!MetricsTypeOK
  /\ part = "bytes" => O!BytesTypeOK
  /\ part = "dashboard" => V!DashboardTypeOK
  /\ part = "gates" => G!GateTypeOK
  /\ part = "freshness" => N!FreshTypeOK
  /\ part = "ratchet" => Q!RatchetTypeOK
  /\ part = "boot" => S!BootTypeOK
  /\ part = "vacuum" => U!VacuumTypeOK
  /\ part = "listing" => I!ListTypeOK
  /\ part = "workers" => W!WorkersTypeOK

\* Login: no pair of address and user, no address and no user gets more
\* attempts than its limit; and refusals cost the same work, but for the first
\* ones that need a reference hash, for hashes above the write count and for
\* workers that raise (LimitsHeld and FailuresCostAlike of Login).
SignInsBounded == part = "login" => L!LimitsHeld /\ L!FailuresCostAlike

\* Login: the session a sign-in gives resolves at once, and a revoked one never
\* again (NewSessionResolves and RevokedStaysOut of Login).
SessionsHold ==
  /\ [][part = "login" => L!NewSessionResolves]_loginVars
  /\ [](part = "login" => L!RevokedStaysOut)

\* Export, Boot, Vacuum, Workers: a render has its file as long as it runs and no longer
\* (RenderKeepsItsFile and NothingLeftBehind); the schema stamp tells the truth
\* and a migration runs once, when due (StampTellsCatalog, MigratesOnceWhenDue
\* and RefusalsLeadOut); a run vacuums what it rewrote, a bounded number of times
\* (TailNamesItsOwn and InterleaveIsBounded); and parse workers end with their
\* service (NoneOutlivesItsService).
StartsAndEndsHold ==
  /\ part = "export" => E!RenderKeepsItsFile /\ E!NothingLeftBehind
  /\ part = "boot" => S!StampTellsCatalog /\ S!MigratesOnceWhenDue /\ S!RefusalsLeadOut
  /\ part = "vacuum" => U!TailNamesItsOwn /\ U!InterleaveIsBounded
  /\ part = "workers" => W!NoneOutlivesItsService

\* WebMetrics: stored buckets are whole, and a wide readout counts every beacon
\* once (StoredBucketWhole and WideReadoutExact of WebMetrics).
BeaconsCounted == part = "metrics" => M!StoredBucketWhole /\ M!WideReadoutExact

\* ObjectBytes, Listing: what is parsed or served is the object's, and not older
\* than its listing, but for bytes of the same length that were kept under an
\* older etag (ParsedSinceListing and ServedNotOlder); and a run sweeps no object
\* it failed to see, but for a mirror that went away at the wrong moment or was
\* the only one, nor takes a file for unchanged whose transcript or sidecar is
\* another by now (SweptWasGone and UnchangedIsCurrent).
BytesAreCurrent ==
  /\ part = "bytes" => O!ParsedSinceListing /\ O!ServedNotOlder
  /\ part = "listing" => I!SweptWasGone /\ I!UnchangedIsCurrent

\* Dashboard: between runs the panels of a fresh response count the same
\* records, each once (PanelsAgree of Dashboard).
PanelsAgree == part = "dashboard" => V!PanelsAgree

\* Gates, GateFreshness, Ratchet: what is green passes every leg, those it
\* skipped included; no open pull request keeps a green check that master made
\* stale; and no bot loosens a threshold or records what its tree does not hold
\* to (GreenMeansTested, GreenIsFresh and RatchetOnlyTightens).
MasterStaysGated ==
  /\ part = "gates" => G!GreenMeansTested
  /\ part = "freshness" => N!GreenIsFresh
  /\ part = "ratchet" => Q!RatchetOnlyTightens
=============================================================================
