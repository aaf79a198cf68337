--------------------------- MODULE Services_proofs --------------------------
(***************************************************************************)
(* What MCServices promises, for every value of the constants: each part   *)
(* of a process keeps its invariant, the types of its variables among it,  *)
(* and what the part promises follows.  The lemmas about each part are in  *)
(* Server_proofs (the server's process), Master_proofs and Reads_proofs    *)
(* (what is read).                                                         *)
(***************************************************************************)
EXTENDS MCServices, Server_proofs, Master_proofs, Reads_proofs

-----------------------------------------------------------------------------
\* Sign-in.

LEMMA LoginPart ==
  ASSUME [ServicesNext]_servicesVars
  PROVE  part' = part /\ (part = "login" => L!LoginNext \/ UNCHANGED loginVars)
<1>1. CASE ServicesNext
  BY <1>1 DEF ServicesNext
<1>2. CASE UNCHANGED servicesVars
  <2>1. part' = part /\ loginVars' = loginVars
    BY <1>2 DEF servicesVars
  <2> QED BY <2>1
<1> QED BY <1>1, <1>2

\* The login part of a process keeps its invariants (LoginInv): slots are counted
\* by those who hold them, a token is never ahead of its account's row, and each
\* stage has cost what its workers ran, the reference hash of a remaining count
\* included where the process had none (auth.py:165-191).
THEOREM LoginInductive == ServicesSpec => [](part = "login" => LoginInv)
<1>1. ServicesInit => (part = "login" => LoginInv)
  BY LoginStart DEF ServicesInit
<1>2. (part = "login" => LoginInv) /\ [ServicesNext]_servicesVars => (part = "login" => LoginInv)'
  BY LoginPart, LoginStep, LoginKept
<1> QED BY <1>1, <1>2, PTL DEF ServicesSpec

\* For any addresses, accounts, requests, passwords and limits: recorded and
\* running attempts together never exceed a limit, slots are held exactly as
\* long as a handler or its worker needs them, and neither table promises more
\* than it may hold.  A refusal costs one run at the write count, and more only
\* by what a stored hash above it asks for, by what a verifying worker ran before
\* it raised, or by a second run of the remaining count where this is the first
\* refusal to need that count's reference hash; one whose normalizing worker
\* raised is excepted (login.py:104-252, login_workers.py:32-49, auth.py:116-191).
THEOREM SignInsAreBounded == ServicesSpec => []SignInsBounded
<1>1. (part = "login" => LoginInv) => SignInsBounded
  BY RefusalsCost DEF LoginInv, SignInsBounded
<1> QED BY <1>1, LoginInductive, PTL

\* A sign-in's answer is a session that works, whatever the cache held, and a
\* token that a logout or a changed credential revoked never resolves again
\* (login.py:255-274, session.py:135-196).
THEOREM SessionsAreHeld == ServicesSpec => SessionsHold
<1>1. (part = "login" => LoginInv) => (part = "login" => L!RevokedStaysOut)
  BY RevokedIsOut DEF LoginInv
<1>2. (part = "login" => LoginInv) /\ [ServicesNext]_servicesVars
      => [part = "login" => L!NewSessionResolves]_loginVars
  <2> SUFFICES ASSUME part = "login", LoginInv, [ServicesNext]_servicesVars,
                      ~UNCHANGED loginVars
               PROVE  L!NewSessionResolves
    OBVIOUS
  <2> QED BY LoginPart, SignInResolves DEF LoginInv
<1> QED BY <1>1, <1>2, LoginInductive, PTL DEF ServicesSpec, SessionsHold
-----------------------------------------------------------------------------
\* What each of the four parts keeps.
PartsOK ==
  /\ part = "export" => ExportOK
  /\ part = "boot" => BootOK
  /\ part = "vacuum" => VacuumOK
  /\ part = "workers" => WorkersOK

\* The four parts of a process keep their invariants (PartsOK).
THEOREM PartsInductive == ServicesSpec => []PartsOK
<1>1. ServicesInit => PartsOK
  BY ExportStart, BootStart, VacuumStart, WorkersStart DEF ServicesInit, PartsOK
<1>2. PartsOK /\ [ServicesNext]_servicesVars => PartsOK'
  <2> SUFFICES ASSUME PartsOK, [ServicesNext]_servicesVars PROVE PartsOK'
    OBVIOUS
  <2>1. CASE ServicesNext
    <3>1. part' = part
      BY <2>1 DEF ServicesNext
    <3>2. part = "export" => ExportOK'
      BY <2>1, ExportStep DEF ServicesNext, PartsOK
    <3>3. part = "boot" => BootOK'
      BY <2>1, BootStep DEF ServicesNext, PartsOK
    <3>4. part = "vacuum" => VacuumOK'
      BY <2>1, VacuumStep DEF ServicesNext, PartsOK
    <3>5. part = "workers" => WorkersOK'
      BY <2>1, WorkersStep DEF ServicesNext, PartsOK
    <3> QED BY <3>1, <3>2, <3>3, <3>4, <3>5 DEF PartsOK
  <2>2. CASE UNCHANGED servicesVars
    <3>1. part' = part /\ UNCHANGED exportVars /\ UNCHANGED bootVars
          /\ UNCHANGED vacuumVars /\ UNCHANGED workerVars
      BY <2>2 DEF servicesVars
    <3> QED BY <3>1, ExportKept, BootKept, VacuumKept, WorkersKept DEF PartsOK
  <2> QED BY <2>1, <2>2
<1> QED BY <1>1, <1>2, PTL DEF ServicesSpec

\* For any servers, requests, processes, releases and worker slots: a render
\* that runs has its file and an ended one leaves none; the schema stamp names
\* what the catalog holds, a migration runs alone and when due, and a refused
\* boot can be repaired; a run vacuums what it rewrote, at most once per batch;
\* and what outlives its service or server has yet to look for its parent
\* (api_export.py:97-272, apply_schema and schema_check of db.py,
\* ingest_vacuum.py, ingest_workers.py:100-143).
THEOREM StartsAndEndsAreHeld == ServicesSpec => []StartsAndEndsHold
<1>1. PartsOK => StartsAndEndsHold
  BY ExportEnds, BootEnds, WorkersEnd DEF PartsOK, StartsAndEndsHold, VacuumOK
<1> QED BY <1>1, PartsInductive, PTL
-----------------------------------------------------------------------------
\* What each of the four parts keeps.
ReadsOK ==
  /\ part = "bytes" => BytesOK
  /\ part = "listing" => ListOK
  /\ part = "metrics" => MetricsOK
  /\ part = "dashboard" => DashboardOK

\* What is read keeps its invariants (ReadsOK): every thread and cache holds bytes
\* of its object from after it was first listed so; what a listing has missed is
\* still to come, absent, out of sight or excused; every bucket of beacons that a
\* fold has left behind is stored whole, the raw rows being newer; and a response of the
\* current generation saw what a statement would see now.
THEOREM ReadsInductive == ServicesSpec => []ReadsOK
<1>1. ServicesInit => ReadsOK
  BY BytesStart, ListStart, MetricsStart, DashboardStart DEF ServicesInit, ReadsOK
<1>2. ReadsOK /\ [ServicesNext]_servicesVars => ReadsOK'
  <2> SUFFICES ASSUME ReadsOK, [ServicesNext]_servicesVars PROVE ReadsOK'
    OBVIOUS
  <2>1. CASE ServicesNext
    <3>1. part' = part
      BY <2>1 DEF ServicesNext
    <3>2. part = "bytes" => BytesOK'
      BY <2>1, BytesStep DEF ServicesNext, ReadsOK
    <3>3. part = "listing" => ListOK'
      BY <2>1, ListNextStep DEF ServicesNext, ReadsOK
    <3>4. part = "metrics" => MetricsOK'
      BY <2>1, MetricsStep DEF ServicesNext, ReadsOK
    <3>5. part = "dashboard" => DashboardOK'
      BY <2>1, DashboardStep DEF ServicesNext, ReadsOK
    <3> QED BY <3>1, <3>2, <3>3, <3>4, <3>5 DEF ReadsOK
  <2>2. CASE UNCHANGED servicesVars
    <3>1. part' = part /\ UNCHANGED bytesVars /\ UNCHANGED listVars
          /\ UNCHANGED metricsVars /\ UNCHANGED dashboardVars
      BY <2>2 DEF servicesVars
    <3> QED BY <3>1, BytesKept, ListKept, MetricsKept, DashboardKept DEF ReadsOK
  <2> QED BY <2>1, <2>2
<1> QED BY <1>1, <1>2, PTL DEF ServicesSpec

\* For any objects, contents and their lengths, threads and caps, and for one
\* bucket as for several: what is parsed or served is its own object's and not
\* older than the listing it answers for, but for newer bytes of the same length
\* that were stored under an older etag (blob_cache.py:62-80); a run that may
\* sweep has missed nothing that was in the bucket all along, but for a mirror
\* that was unmounted once its turn had come or, of an only bucket, when it came
\* (r2.py:206); and what the next listing passes over as unchanged was parsed from
\* what is in the bucket, but for a sidecar asked for while its mirror was away
\* (blob_cache.py, cache.py, api_sessions.py, r2.py, r2_list.py, ingest_scan.py,
\* ingest_fetch.py).
THEOREM ReadsAreCurrent == ServicesSpec => []BytesAreCurrent
<1>1. ReadsOK => BytesAreCurrent
  BY BytesEnds, ListEnds DEF ReadsOK, BytesAreCurrent
<1> QED BY <1>1, ReadsInductive, PTL

\* For any grains, widths, fold interval and cap: a stored bucket holds every
\* beacon of its span that was not still open when the fold ran past it, and a wide
\* readout counts no beacon twice and, while the folds keep their interval, every
\* one (ingest_rollup_web_metrics.py, web_metrics.py, api_web_metrics.py).
THEOREM BeaconsAreCounted == ServicesSpec => []BeaconsCounted
<1>1. ReadsOK => BeaconsCounted
  BY MetricsEnds DEF ReadsOK, BeaconsCounted
<1> QED BY <1>1, ReadsInductive, PTL

\* For any records, spans and buckets: when no run is under way, every statement of
\* a response of the current generation, under construction or cached, saw what it
\* would see now, so that its panels are of one state of the store however their
\* statements and the runs fell (api_dashboard.py, api_rollup.py, cache.py).  That
\* panels of one state count the same records is left to PanelsAgree.
THEOREM DashboardSees == ServicesSpec => [](part = "dashboard" => V!SeesOneStore)
<1>1. ReadsOK => (part = "dashboard" => V!SeesOneStore)
  BY DashboardEnds DEF ReadsOK
<1> QED BY <1>1, ReadsInductive, PTL
-----------------------------------------------------------------------------
\* What each of the three parts keeps.
MasterOK ==
  /\ part = "gates" => GateOK
  /\ part = "freshness" => FreshOK
  /\ part = "ratchet" => RatchetOK

\* What guards master keeps its invariants (MasterOK): a run's verdict stands on
\* verified ancestors, a green head has seen every tip that defines CI, and the
\* job's data tightens the tip it was merged with.
THEOREM MasterInductive == ServicesSpec => []MasterOK
<1>1. ServicesInit => MasterOK
  BY GateStart, FreshStart, RatchetStart DEF ServicesInit, MasterOK
<1>2. MasterOK /\ [ServicesNext]_servicesVars => MasterOK'
  <2> SUFFICES ASSUME MasterOK, [ServicesNext]_servicesVars PROVE MasterOK'
    OBVIOUS
  <2>1. CASE ServicesNext
    <3>1. part' = part
      BY <2>1 DEF ServicesNext
    <3>2. part = "gates" => GateOK'
      BY <2>1, GateStep DEF ServicesNext, MasterOK
    <3>3. part = "freshness" => FreshOK'
      BY <2>1, FreshStep DEF ServicesNext, MasterOK
    <3>4. part = "ratchet" => RatchetOK'
      BY <2>1, RatchetStep DEF ServicesNext, MasterOK
    <3> QED BY <3>1, <3>2, <3>3, <3>4 DEF MasterOK
  <2>2. CASE UNCHANGED servicesVars
    <3>1. part' = part /\ UNCHANGED gateVars /\ UNCHANGED freshVars /\ UNCHANGED ratchetVars
      BY <2>2 DEF servicesVars
    <3> QED BY <3>1, GateKept, FreshKept, RatchetKept DEF MasterOK
  <2> QED BY <2>1, <2>2
<1> QED BY <1>1, <1>2, PTL DEF ServicesSpec

\* For any history of commits, pull requests, values and gaps: a green commit
\* has had every gate it needs on its content, no open pull request keeps a
\* green check that master made stale, and no bot loosens a threshold or records
\* what its tree does not hold to (ci-gate.yml, classify_*.py, gate_freshness.py,
\* ratchet-push.yml, ratchet*.py, suite_ratchet.py).
THEOREM MasterIsGated == ServicesSpec => []MasterStaysGated
<1>1. MasterOK => MasterStaysGated
  BY GateEnds, FreshEnds, RatchetEnds DEF MasterOK, MasterStaysGated
<1> QED BY <1>1, MasterInductive, PTL
-----------------------------------------------------------------------------
\* The response cache is a part like the others.
THEOREM CacheIsAPart == ServicesSpec => Spec
<1>1. ServicesInit => Init
  BY DEF ServicesInit
<1>2. [ServicesNext]_servicesVars => [Next]_vars
  BY DEF ServicesNext, servicesVars
<1> QED BY <1>1, <1>2, PTL DEF ServicesSpec, Spec

\* Every part keeps the types of its variables, for every value of the constants.
THEOREM ServicesTypesHold == ServicesSpec => []ServicesTypeOK
<1>1. TypeOK /\ (part = "login" => LoginInv) /\ PartsOK /\ ReadsOK /\ MasterOK => ServicesTypeOK
  <2> SUFFICES ASSUME TypeOK, part = "login" => LoginInv, PartsOK, ReadsOK, MasterOK
               PROVE  ServicesTypeOK
    OBVIOUS
  <2>1. part = "login" => L!LoginTypeOK
    BY DEF LoginInv
  <2>2. /\ part = "export" => E!ExportTypeOK
        /\ part = "boot" => S!BootTypeOK
        /\ part = "vacuum" => U!VacuumTypeOK
        /\ part = "workers" => W!WorkersTypeOK
    BY DEF PartsOK, ExportOK, BootOK, VacuumOK, WorkersOK
  <2>3. /\ part = "bytes" => O!BytesTypeOK
        /\ part = "listing" => I!ListTypeOK
        /\ part = "metrics" => M!MetricsTypeOK
        /\ part = "dashboard" => V!DashboardTypeOK
    BY DEF ReadsOK, BytesOK, ListOK, MetricsOK, DashboardOK
  <2>4. /\ part = "gates" => G!GateTypeOK
        /\ part = "freshness" => N!FreshTypeOK
        /\ part = "ratchet" => Q!RatchetTypeOK
    BY DEF MasterOK, GateOK, FreshOK, RatchetOK
  <2> QED BY <2>1, <2>2, <2>3, <2>4 DEF ServicesTypeOK
<1> QED
  BY <1>1, CacheIsAPart, TypesHold, LoginInductive, PartsInductive, ReadsInductive,
     MasterInductive, PTL
=============================================================================
