---------------------------- MODULE MCExecution -----------------------------
(***************************************************************************)
(* Model checking of the executors and of the state they are given, and of *)
(* the machines beside them: the worker agent, the identity registry and   *)
(* settlements of trnm-types, the relay transcript, admission in front of  *)
(* the lanes, governance, challenges, transport, the development gate,     *)
(* task metadata, the control plane and the oracle.  They share no state:  *)
(* one behaviour explores one of them, the variables of the others are     *)
(* "idle".                                                                 *)
(***************************************************************************)
EXTENDS PonExecutor

CONSTANTS Machines   \* the machines that are explored

VARIABLES which,
          mvccCall, mvccObjects, mvccJournal, mvccSidecar, pb,
          clBlocks, clSnapshots, clActive, clKv, clReorg, clMarker, clOwner,
          pgBatch, pgConfig, pgPlan, rpObjects, rpApplied,
          waRows, waSubmits, waAcks, waLocks, waLast, waChain, waCalls, waBudget,
          iiDids, iiTokens, iiAudit, iiSettlement,
          rtLast, rtSeen, rtFile,
          taGate, taNext, taSlots, taLeases, taOut, taAuthority,
          ggRoles, ggProposals, ggParams, ggPaused,
          vpRegistry, vpDecisions, vpBook,
          faState, faTokens, faSaved, faAcked, faPermits, faIngress,
          rg, tmTask,
          cpModules, cpMeasured, cpGeneration, cpSettings, cpApplied,
          orSnapshot, orBuilt, orReport

ponAll == <<ponState, ponBase, ponBlock>>
mvccState == <<mvccCall, mvccObjects, mvccJournal, mvccSidecar>>
clState == <<clBlocks, clSnapshots, clActive, clKv, clReorg, clMarker, clOwner>>
pgState == <<pgBatch, pgConfig, pgPlan>>
rpState == <<rpObjects, rpApplied>>
waState == <<waRows, waSubmits, waAcks, waLocks, waLast, waChain, waCalls, waBudget>>
iiState == <<iiDids, iiTokens, iiAudit, iiSettlement>>
rtState == <<rtLast, rtSeen, rtFile>>
taState == <<taGate, taNext, taSlots, taLeases, taOut, taAuthority>>
ggState == <<ggRoles, ggProposals, ggParams, ggPaused>>
vpState == <<vpRegistry, vpDecisions, vpBook>>
faAll == <<faState, faTokens, faSaved, faAcked, faPermits, faIngress>>
cpState == <<cpModules, cpMeasured, cpGeneration, cpSettings, cpApplied>>
orState == <<orSnapshot, orBuilt, orReport>>
appState == <<waState, iiState, rtState, taState, ggState, vpState, faAll, rg, tmTask, cpState, orState>>
execState == <<ponAll, mvccState, pb, clState, pgState, rpState>>
vars == <<which, execState, appState>>
-----------------------------------------------------------------------------
\* PonExecutor: three menus, so that tasks, quotas and candidates each meet
\* their deadlines within four blocks.
MCPar ==
  [lifetime |-> 2, maxPending |-> 3, expiryPerBlock |-> 1, maturity |-> 1, claimWindow |-> 2,
   roundBlocks |-> 4, candidateLifetime |-> 2, maxHistory |-> 3, maxCandidates |-> 2,
   threshold |-> 2, minAdoption |-> 1, maxScore |-> 2, maxUnits |-> 2, unitPrice |-> 2,
   subsidy |-> 4, halving |-> 2, fee |-> 1]
MCMenus ==
  {[tags |-> {1, 2, 3, 4, 5}, users |-> {"a", "b"}, commands |-> 3],
   [tags |-> {1, 10, 11, 12}, users |-> {"a"}, commands |-> 3],
   [tags |-> {6, 7, 8, 9}, users |-> {"a", "b", "c"}, commands |-> 5]}

\* MvccFee: blocks in which a transaction reads what an earlier one wrote,
\* cannot pay, overflows a value or runs out of compute.
MvccObject(v) == [version |-> 0, value |-> v]
MvccAdd(p, t, n, lim, max) ==
  [program |-> "Add", payer |-> p, target |-> t, amount |-> n, limit |-> lim,
   maxFee |-> max, size |-> 2]
MvccTransfer(p, s, t, n, max) ==
  [program |-> "Transfer", payer |-> p, source |-> s, target |-> t, amount |-> n,
   limit |-> 20, maxFee |-> max, size |-> 3]
MvccRevert(p, max) == [program |-> "Revert", payer |-> p, limit |-> 5, maxFee |-> max, size |-> 1]
MvccBodies ==
  {<<MvccAdd("a", "b", 2, 10, 3), MvccAdd("b", "f", 1, 10, 4)>>,
   <<MvccTransfer("a", "b", "g", 1, 9), MvccRevert("b", 3), MvccAdd("a", "b", 4, 10, 3)>>,
   <<MvccAdd("a", "b", 1, 4, 3), MvccAdd("a", "f", 12, 10, 3)>>,
   <<MvccRevert("a", 3), MvccAdd("b", "a", 3, 10, 2)>>}
MvccPrice(n, d, lo, hi) == [num |-> n, den |-> d, min |-> lo, max |-> hi]

M == INSTANCE MvccFee WITH
       Executors <- {"e1", "e2"},
       WorkerCount <- [e \in {"e1", "e2"} |-> IF e = "e1" THEN 1 ELSE 2],
       Genesis <- [a |-> MvccObject(9), b |-> MvccObject(2), f |-> MvccObject(0), g |-> MvccObject(0)],
       Bodies <- MvccBodies,
       Prices <- <<MvccPrice(1, 2, 0, 9), MvccPrice(1, 4, 0, 9), MvccPrice(0, 1, 0, 9),
                   MvccPrice(1, 10, 1, 1)>>,
       Splits <- [f |-> 1, g |-> 1], Denominator <- 2, Remainder <- "f",
       MaxValue <- 14, ObjectSize <- 1, MaxHeight <- 3

\* ParallelBlock: every order of three short programs over three objects.
PbSet(t, v) == [kind |-> "Set", target |-> t, value |-> v]
PbFrom(t, s, d) == [kind |-> "AddFromRead", target |-> t, source |-> s, value |-> d]
PbObject(v) == [version |-> 0, value |-> v]
PbSources(ins) == {ins[n].source : n \in {k \in DOMAIN ins : ins[k].kind = "AddFromRead"}}
PbTargets(ins) == {ins[n].target : n \in DOMAIN ins}
PbTx(id, payer, ins, limit, revert) ==
  [id |-> id, payer |-> payer, instructions |-> ins, compute |-> 1, artifacts |-> 0,
   maxFee |-> 9, limit |-> <<limit, 2, 2, 2>>, revert |-> revert,
   reads |-> PbSources(ins), writes |-> PbTargets(ins)]
PbSteps == {<<PbSet("x", 0)>>, <<PbFrom("y", "x", 1)>>,
            <<PbFrom("x", "y", 2), PbSet("z", 1)>>, <<PbFrom("y", "y", 1)>>}
PbBlocks ==
  {<<PbTx(1, "p", s[1], l, r), PbTx(2, "q", s[2], 3, FALSE), PbTx(3, "p", s[3], 3, FALSE)>> :
     s \in PbSteps \X PbSteps \X PbSteps, l \in {2, 3}, r \in BOOLEAN}

B == INSTANCE ParallelBlock WITH
       PbParent <- [x |-> PbObject(3), y |-> PbObject(0), z |-> PbObject(1)],
       PbBodies <- PbBlocks, PbWorkers <- {1, 2, 3},
       PbPrice <- [base |-> 1, units |-> <<1, 1, 2, 1>>], PbMaxValue <- 3

\* ChainLedger: four blocks that assign one key, a clock step that retargets.
L == INSTANCE ChainLedger WITH
       Keys <- {"x"}, Absent <- 0, Effects <- [key : {"x"}, value : {1, 2}],
       Times <- {1, 12}, TargetSpace <- 64, PowLimit <- 15, RetargetInterval <- 2,
       Spacing <- 4, Now <- 10, Skew <- 4, Width <- 3, SnapshotEvery <- 2,
       SnapshotsKept <- 1, MaxBlocks <- 4, MaxDeaths <- 1

\* ParallelGroups: batches of four transactions of every shape, one of them
\* with two versions of a key.
PgAccess(r, w) == [reads |-> {<<k, 1>> : k \in r}, writes |-> {<<k, 1>> : k \in w}]
PgConfig(s, deep, window, skip, rotate) ==
  [strategy |-> s, descending |-> s = "WriteFirst", deep |-> deep, window |-> window,
   skip |-> skip, rotate |-> rotate, seed |-> 1]

G == INSTANCE ParallelGroups WITH
       PgShapes <- {PgAccess({}, {}), PgAccess({1}, {}), PgAccess({1, 2}, {}), PgAccess({}, {2}),
                    PgAccess({2}, {1}), PgAccess({}, {1, 2}),
                    [reads |-> {<<1, 1>>}, writes |-> {<<1, 2>>}]},
       PgSizes <- {0, 1, 4},
       PgStrategies <- {PgConfig(s, FALSE, 0, TRUE, TRUE) :
                          s \in {"Original", "FootprintDesc", "WriteFirst", "WriteLast",
                                 "HotBucketInterleave", "AutoAdaptive", "AggressiveGreedy"}}
                       \cup {PgConfig("AggressiveGreedy", TRUE, 0, TRUE, TRUE),
                             PgConfig("AggressiveGreedy", TRUE, 1, FALSE, TRUE),
                             PgConfig("AggressiveGreedy", TRUE, 0, FALSE, FALSE)},
       HotBuckets <- 4, MinBatchLen <- 4, SampleLen <- 3

\* ResearchProtocol: one claim that is licensed and challenged twice, and
\* commands that refer to the wrong version, role or time.
RpRef(k, key, v) == [kind |-> k, key |-> key, version |-> v]
RpSigned(id, role, payload) == [id |-> id, signer |-> role, role |-> role, nonce |-> 1] @@ payload
RpMatch(k, t) == [kind |-> "match", key |-> k, events |-> 1, time |-> t]
RpEvaluation(k, accepted, t) ==
  [kind |-> "evaluation", key |-> k, match |-> RpRef("match", "m", 1), score |-> 5,
   accepted |-> accepted, time |-> t]
RpWorkload(k, e, t) ==
  [kind |-> "workload", key |-> k, evaluation |-> RpRef("evaluation", e, 1),
   units |-> [a |-> 1, b |-> 2], total |-> 3, time |-> t]
RpClaim(k, shares, t) ==
  [kind |-> "claim", key |-> k, workload |-> RpRef("workload", "w", 1),
   evidence |-> {RpRef("evaluation", "e", 1)}, shares |-> shares, time |-> t]
RpLicense(k, v) ==
  [kind |-> "license", key |-> k, claim |-> RpRef("claim", "c", v), licensor |-> "a", time |-> 3]
RpChallenge(k, v) == [kind |-> "challenge", key |-> k, claim |-> RpRef("claim", "c", v), time |-> 3]
RpResolution(k, h, d, shares) ==
  [kind |-> "resolution", key |-> k, challenge |-> RpRef("challenge", h, 1), decision |-> d,
   shares |-> shares, time |-> 4]
RpCommands ==
  {RpSigned(1, "nakama", RpMatch("m", 1)), RpSigned(1, "nakama", RpMatch("m2", 1)),
   RpSigned(2, "hepta", RpEvaluation("e", TRUE, 2)), RpSigned(3, "hepta", RpEvaluation("e2", FALSE, 2)),
   RpSigned(3, "hepta", RpEvaluation("e3", TRUE, 0)), RpSigned(4, "hepta", RpWorkload("w", "e", 2)),
   RpSigned(5, "hepta", RpWorkload("w2", "e2", 2)),
   RpSigned(6, "hepta", RpClaim("c", [a |-> 6, b |-> 4], 3)),
   RpSigned(7, "hepta", RpClaim("c2", [a |-> 6, x |-> 4], 3)),
   RpSigned(8, "hepta", RpLicense("l", 1)), RpSigned(9, "hepta", RpLicense("l2", 3)),
   RpSigned(10, "hepta", RpLicense("l3", 5)),
   RpSigned(11, "nakama", RpChallenge("h1", 1)), RpSigned(12, "other", RpChallenge("h1", 1))}
  \cup {RpSigned(20 + v, "hepta", RpChallenge("h1", v)) : v \in 1 .. 4}
  \cup {RpSigned(30 + v, "hepta", RpChallenge("h2", v)) : v \in 1 .. 4}
  \cup {RpSigned(40, "hepta", RpResolution("r1", h, d, <<>>)) :
          h \in {"h1", "h2"}, d \in {"uphold", "reject", "relicense"}}
  \cup {RpSigned(50, "hepta", RpResolution("r2", h, "uphold", <<>>)) : h \in {"h1", "h2"}}
  \cup {RpSigned(60, "hepta", RpResolution("r3", h, "amend", s)) :
          h \in {"h1", "h2"}, s \in {[a |-> 10], [b |-> 10], [x |-> 10], [a |-> 9]}}

R == INSTANCE ResearchProtocol WITH
       ResearchCommands <- RpCommands, FullShare <- 10,
       Authorities <- [role \in {"nakama", "hepta", "other"} |->
                         IF role = "other" THEN {} ELSE {role}]
\* Two agents, one kill; a request that is assigned and one that is open, or
\* one whose submission is queued already, so that it can be flushed twice.
WaRow(t, s) == [task |-> t, status |-> s, delta |-> 0]
WA == INSTANCE WorkerAgent WITH
        Agents <- {1, 2}, WaTasks <- {1, 2, 3}, FirstTask <- 2,
        WaStarts <- {[rows |-> <<WaRow(1, "ASSIGNED"), WaRow(2, "OPEN")>>, queue |-> <<>>],
                     [rows |-> <<WaRow(1, "COMMIT_QUEUED")>>, queue |-> <<[task |-> 1]>>]},
        Limit <- 2, Retries <- 1, MaxCalls <- 2, MaxDeaths <- 1

\* One identifier, two actors and a name that is not well formed; a reason
\* in two spellings.
IiReasons == [r \in {"x", " X", "y"} |-> IF r = "y" THEN "y" ELSE "x"]
IiRecord(s, h, r) == [status |-> s, height |-> h, tx |-> "none", reason |-> r]
II == INSTANCE InteropIdentity WITH
        Dids <- {"d"}, Actors <- {"a", "b", " a"}, Malformed <- {" a"}, Scopes <- {"s"},
        Heights <- {1, 2, 3}, Transactions <- {"t", "u"}, Reasons <- DOMAIN IiReasons,
        NormalReason <- IiReasons, MaxAudit <- 4,
        IiSettlements <- {IiRecord("pending", 0, "none"), IiRecord("reverted", 1, " X"),
                          IiRecord("finalized", 0, "none")}

\* Two senders; nonces that come again, gaps, and envelopes with one fault.
RtEnvelope(f, s, n) ==
  [chain |-> "c", task |-> "t", session |-> "s", from |-> f, seq |-> s, nonce |-> n, time |-> s,
   version |-> "current", known |-> TRUE, fields |-> TRUE, payloadBound |-> TRUE, signed |-> TRUE]
RtLegacy(s) == [RtEnvelope("b", s, 9) EXCEPT !.version = "legacy", !.chain = ""]
RT == INSTANCE RelayTranscript WITH
        Envelopes <- {RtEnvelope("a", s, 1) : s \in 0 .. 6} \cup {RtEnvelope("a", s, s) : s \in 1 .. 6}
                     \cup {RtEnvelope("b", s, s % 3) : s \in 1 .. 4} \cup {RtLegacy(1), RtLegacy(2)}
                     \cup {[RtEnvelope("b", 5, 7) EXCEPT !.signed = FALSE],
                           [RtEnvelope("b", 5, 7) EXCEPT !.payloadBound = FALSE],
                           [RtEnvelope("b", 5, 7) EXCEPT !.version = "old"],
                           [RtEnvelope("b", 5, 7) EXCEPT !.known = FALSE]},
        RtTimes <- {2, 4, 6}, MaxSkew <- 1, AllowLegacy <- TRUE

\* Three slots, two envelopes with one nonce, and one that is not valid.
TA == INSTANCE TypedAdmission WITH
        TaEnvelopes <- {[digest |-> d, key |-> IF d = 3 THEN 1 ELSE d, valid |-> d /= 4] : d \in 1 .. 4},
        TaConfig <- <<2, 1>>, MaxSlot <- 3, MaxOut <- 1, RgTx <- 1 .. 6, RgCapacity <- 2

\* Registries that are closed, share an identity or lack a kind; deadlines
\* in and out of order.
VpProfile(k, id, obj, revoked) ==
  [kind |-> k, id |-> id, version |-> 1, hash |-> id, nonzero |-> TRUE, enabled |-> TRUE,
   from |-> 1, expires |-> 5, revoked |-> revoked, objective |-> obj]
VP == INSTANCE VerificationProfiles WITH
        VpProfiles <- {<<VpProfile("Optimistic", 1, TRUE, 3), p>> :
                         p \in {VpProfile("Subjective", 2, FALSE, 99), VpProfile("Subjective", 2, TRUE, 99),
                                VpProfile("Subjective", 1, FALSE, 99)}}
                      \cup {<<VpProfile("Optimistic", 1, TRUE, 3)>>},
        VpKinds <- {"Optimistic", "Subjective"},
        VpStatements <- {[id |-> i, version |-> 1, hash |-> i, wellFormed |-> TRUE, start |-> 2,
                          submitted |-> 2, end |-> 4, subject |-> "t"] : i \in {1, 2}},
        VpEvidence <- [nonzero : {TRUE}, subject : {"t", "u"}], VpHeights <- 1 .. 6,
        VpOpenings <- [opened : {1}, window : {0, 2}, evidence : {1, 2}, response : {2, 3},
                       decision : {2, 4}, appeal : {3, 5}]

FA == INSTANCE FrameAdmission WITH
        FaSessions <- {1, 2}, FaPayloads <- {1, 2}, MaxNonce <- 3, MaxTokens <- 2,
        Peers <- {"a", "b"}, Digests <- {1, 2, 3, 4}, MaxGeneration <- 2

\* Documents of every shape; snapshots that are complete, padded or bare.
TmSnapshot(i, q, r, s) == [id |-> i, required |-> q, root |-> r, span |-> s]
TmTexts == {"absent", "clean", "padded"}
TmNone == [absent |-> TRUE]
TM == INSTANCE TaskMetadata WITH
        TmSnapshots <- {TmSnapshot(1, "clean", "clean", "absent"), TmSnapshot(2, "clean", "absent", "clean"),
                        TmSnapshot(3, "clean", "padded", "clean"), TmSnapshot(4, "padded", "clean", "clean"),
                        TmSnapshot(5, "clean", "absent", "absent")},
        TmDocuments <- [note : TmTexts, other : TmTexts, metering : TmTexts,
                        settlement : {TmNone, TmSnapshot(1, "clean", "clean", "absent")},
                        settlementSnapshot : {TmNone, TmSnapshot(3, "clean", "padded", "clean")}]

\* Plans of three generations that arrive in any order, and plans of another
\* graph, without a signature, with a parameter named twice or unknown.
CpDescriptor(m, g, f, c) ==
  [module |-> m, generation |-> g, facts |-> f, capabilities |-> c, sound |-> TRUE]
CpMeasurement(m, f) ==
  [module |-> m, workload |-> "w", percentiles |-> <<1, 2, f>>, pressure |-> 1, facts |-> f]
CpSet(k, v) == [kind |-> "set", class |-> "operational", parameter |-> k, value |-> v]
CpPlan(id, g, as) ==
  [id |-> id, graph |-> "g", generation |-> g, window |-> <<g - 1, g>>, actions |-> as,
   signed |-> TRUE, sealed |-> TRUE]
GG == INSTANCE GovernanceGuard WITH
        GgMembers <- {"p", "x"}, FirstGuardian <- "p", GgGuardians <- {"x"},
        GgRoleChanges <- [who : {"p"}, propose : BOOLEAN, execute : {FALSE}]
                         \cup [who : {"x"}, propose : {FALSE}, execute : BOOLEAN],
        GgKeys <- {"k"}, GgValues <- {"", "v"}, GgTimes <- {0, 1}, Delay <- 1, MaxTime <- 1,
        MaxProposals <- 2,
        CpDescriptors <- {CpDescriptor(1, 1, "x", <<"c">>), CpDescriptor(1, 1, "y", <<>>),
                          CpDescriptor(1, 2, "x", <<"c", "c">>), CpDescriptor(1, 2, "y", <<"c", "d">>),
                          CpDescriptor(2, 1, "x", <<>>)},
        CpMeasurements <- {CpMeasurement(1, f) : f \in 1 .. 3} \cup {CpMeasurement(2, 2)},
        CpPlans <- {CpPlan(10 * g + v, g, <<CpSet(k, v), CpSet("r", g)>>) :
                      g \in 2 .. 4, v \in 0 .. 2, k \in {"p", "q"}}
                   \cup {CpPlan(60, 2, <<CpSet("p", 1), CpSet("p", 2)>>),
                         [CpPlan(61, 2, <<CpSet("p", 1)>>) EXCEPT !.graph = "h"],
                         [CpPlan(62, 2, <<CpSet("p", 1)>>) EXCEPT !.signed = FALSE],
                         CpPlan(63, 2, <<CpSet("p", 1), CpSet("u", 1)>>)},
        Graph <- "g",
        Bounds <- [p |-> [min |-> 1, max |-> 2], q |-> [min |-> 0, max |-> 1], r |-> [min |-> 2, max |-> 4]],
        MaxModules <- 3, MaxPressure <- 1, MaxGenerations <- 3, CpHeights <- 1 .. 4

\* Snapshots at and beyond each limit of six policies, ratios that round and one that
\* saturates.
OrField(feed, v, src, n, m, s, e, at) ==
  [feed |-> feed, value |-> v, sources |-> src, samples |-> n, median |-> m, start |-> s, end |-> e, at |-> at]
OrNone == [missing |-> TRUE]
OrPolicy(s, t, d, r) == [sources |-> s, staleness |-> t, deviation |-> d, rate |-> r]
OR == INSTANCE Oracle WITH
        OrFields <- {OrField("f", 10, <<"b", "a">>, 2, [value |-> 9], 0, 1, 2),
                     OrField("f", 10, <<"a">>, 1, [value |-> 6], 0, 1, 2),
                     OrField("f", 9, <<"a">>, 1, [value |-> -9], 0, 1, 2),
                     OrField("f", 4, <<"a">>, 1, OrNone, 0, 1, 2),
                     OrField("f", 5, <<"b", "a">>, 2, [value |-> 4], 0, 1, 1),
                     OrField("f", 1, <<"b", "a">>, 2, [value |-> 0], 1, 1, 2),
                     OrField("f", -3, <<>>, 2, [value |-> -4], 0, 0, 0),
                     OrField("F", 1, <<"A">>, 0, OrNone, 2, 1, 0),
                     OrField("", 1, <<"">>, 3, OrNone, 2, 3, 3),
                     OrField("f", 2, <<"a", "b", "b">>, 3, OrNone, 0, 1, 2)},
        OrPolicies <- {OrPolicy(1, 1, 2, 3), OrPolicy(2, 1, 0, 2), OrPolicy(1, 2, 5, 1),
                       OrPolicy(0, 1, 1, 1), OrPolicy(2, 1, 1, 1), OrPolicy(1, 2, 8, 2)},
        Raw <- {"F", "A"}, Rank <- [n \in {"a", "b", "A", ""} |-> IF n = "b" THEN 2 ELSE 1],
        Cap <- 8, MaxWide <- 100, OrTimes <- {0, 1, 2, 4}, MaxRewrites <- 2
-----------------------------------------------------------------------------
PonIdle == ponState = "idle" /\ ponBase = "idle" /\ ponBlock = "idle"
MvccIdle ==
  mvccCall = "idle" /\ mvccObjects = "idle" /\ mvccJournal = "idle" /\ mvccSidecar = "idle"
ClIdle ==
  /\ clBlocks = "idle" /\ clSnapshots = "idle" /\ clActive = "idle" /\ clKv = "idle"
  /\ clReorg = "idle" /\ clMarker = "idle" /\ clOwner = "idle"
PgIdle == pgBatch = "idle" /\ pgConfig = "idle" /\ pgPlan = "idle"
RpIdle == rpObjects = "idle" /\ rpApplied = "idle"

WaIdle ==
  /\ waRows = "idle" /\ waSubmits = "idle" /\ waAcks = "idle" /\ waLocks = "idle"
  /\ waLast = "idle" /\ waChain = "idle" /\ waCalls = "idle" /\ waBudget = "idle"
IiIdle == iiDids = "idle" /\ iiTokens = "idle" /\ iiAudit = "idle" /\ iiSettlement = "idle"
RtIdle == rtLast = "idle" /\ rtSeen = "idle" /\ rtFile = "idle"
TaIdle ==
  /\ taGate = "idle" /\ taNext = "idle" /\ taSlots = "idle" /\ taLeases = "idle"
  /\ taOut = "idle" /\ taAuthority = "idle"
GgIdle == ggRoles = "idle" /\ ggProposals = "idle" /\ ggParams = "idle" /\ ggPaused = "idle"
VpIdle == vpRegistry = "idle" /\ vpDecisions = "idle" /\ vpBook = "idle"
FaIdle ==
  /\ faState = "idle" /\ faTokens = "idle" /\ faSaved = "idle" /\ faAcked = "idle"
  /\ faPermits = "idle" /\ faIngress = "idle"
CpIdle ==
  /\ cpModules = "idle" /\ cpMeasured = "idle" /\ cpGeneration = "idle"
  /\ cpSettings = "idle" /\ cpApplied = "idle"
OrIdle == orSnapshot = "idle" /\ orBuilt = "idle" /\ orReport = "idle"

AppInit ==
  /\ IF which = "worker" THEN WA!WaInit ELSE WaIdle
  /\ IF which \in {"identity", "bridge"} THEN II!IiInit ELSE IiIdle
  /\ IF which = "relay" THEN RT!RtInit ELSE RtIdle
  /\ IF which = "admission" THEN TA!TaInit ELSE TaIdle
  /\ IF which = "governance" THEN GG!GgInit ELSE GgIdle
  /\ IF which = "challenge" THEN VP!VpInit ELSE VpIdle
  /\ IF which \in {"session", "ingress"} THEN FA!FaInit ELSE FaIdle
  /\ IF which = "gate" THEN TA!RgInit ELSE rg = "idle"
  /\ IF which = "metadata" THEN TM!TmInit ELSE tmTask = "idle"
  /\ IF which = "control" THEN GG!CpInit ELSE CpIdle
  /\ IF which = "oracle" THEN OR!OrInit ELSE OrIdle

AppNext ==
  \/ /\ which = "worker" /\ WA!WaNext
     /\ UNCHANGED <<iiState, rtState, taState, ggState, vpState, faAll, rg, tmTask, cpState, orState>>
  \/ /\ which = "identity" /\ II!RegistryStep
     /\ UNCHANGED <<waState, rtState, taState, ggState, vpState, faAll, rg, tmTask, cpState, orState>>
  \/ /\ which = "bridge" /\ II!SettlementStep
     /\ UNCHANGED <<waState, rtState, taState, ggState, vpState, faAll, rg, tmTask, cpState, orState>>
  \/ /\ which = "relay" /\ RT!RtNext
     /\ UNCHANGED <<waState, iiState, taState, ggState, vpState, faAll, rg, tmTask, cpState, orState>>
  \/ /\ which = "admission" /\ TA!TaNext
     /\ UNCHANGED <<waState, iiState, rtState, ggState, vpState, faAll, rg, tmTask, cpState, orState>>
  \/ /\ which = "governance" /\ GG!GgNext
     /\ UNCHANGED <<waState, iiState, rtState, taState, vpState, faAll, rg, tmTask, cpState, orState>>
  \/ /\ which = "challenge" /\ VP!VpNext
     /\ UNCHANGED <<waState, iiState, rtState, taState, ggState, faAll, rg, tmTask, cpState, orState>>
  \/ /\ which = "session" /\ FA!SessionStep
     /\ UNCHANGED <<waState, iiState, rtState, taState, ggState, vpState, rg, tmTask, cpState, orState>>
  \/ /\ which = "ingress" /\ FA!IngressStep
     /\ UNCHANGED <<waState, iiState, rtState, taState, ggState, vpState, rg, tmTask, cpState, orState>>
  \/ /\ which = "gate" /\ TA!RgNext
     /\ UNCHANGED <<waState, iiState, rtState, taState, ggState, vpState, faAll, tmTask, cpState, orState>>
  \/ /\ which = "metadata" /\ TM!TmNext
     /\ UNCHANGED <<waState, iiState, rtState, taState, ggState, vpState, faAll, rg, cpState, orState>>
  \/ /\ which = "control" /\ GG!CpNext
     /\ UNCHANGED <<waState, iiState, rtState, taState, ggState, vpState, faAll, rg, tmTask, orState>>
  \/ /\ which = "oracle" /\ OR!OrNext
     /\ UNCHANGED <<waState, iiState, rtState, taState, ggState, vpState, faAll, rg, tmTask, cpState>>

Init ==
  /\ which \in Machines
  /\ IF which = "pon" THEN PonInit ELSE PonIdle
  /\ IF which = "mvcc" THEN M!MvccInit ELSE MvccIdle
  /\ IF which = "block" THEN B!PbInit ELSE pb = "idle"
  /\ IF which = "ledger" THEN L!ClInit ELSE ClIdle
  /\ IF which = "groups" THEN G!PgInit ELSE PgIdle
  /\ IF which = "research" THEN R!RpInit ELSE RpIdle
  /\ AppInit

Next ==
  \/ /\ which = "pon" /\ PonNext
     /\ UNCHANGED <<which, appState, mvccState, pb, clState, pgState, rpState>>
  \/ /\ which = "mvcc" /\ M!MvccNext
     /\ UNCHANGED <<which, appState, ponAll, pb, clState, pgState, rpState>>
  \/ /\ which = "block" /\ B!PbNext
     /\ UNCHANGED <<which, appState, ponAll, mvccState, clState, pgState, rpState>>
  \/ /\ which = "ledger" /\ L!ClNext
     /\ UNCHANGED <<which, appState, ponAll, mvccState, pb, pgState, rpState>>
  \/ /\ which = "groups" /\ G!PgNext
     /\ UNCHANGED <<which, appState, ponAll, mvccState, pb, clState, rpState>>
  \/ /\ which = "research" /\ R!RpNext
     /\ UNCHANGED <<which, appState, ponAll, mvccState, pb, clState, pgState>>
  \/ AppNext /\ UNCHANGED <<which, execState>>

Spec == Init /\ [][Next]_vars
-----------------------------------------------------------------------------
\* Workers are invisible: a block executed speculatively or by several
\* workers is accepted as the block executed in order, in the executor of
\* PonExecutor, MvccFee and ParallelBlock alike, and a preview that MvccFee
\* hands out is of the head it names.
AgreesWithSerial ==
  /\ which = "pon" => SpeculationIsSerial
  /\ which = "mvcc" => M!SchedulingInvisible /\ M!PreviewIsOfHead
  /\ which = "block" => B!AcceptedIsCanonical

\* PonExecutor: nothing is left standing past its deadline, and every coin
\* is accounted for.
PonAccounts == which = "pon" => NothingOverdue /\ FundsConserved

\* ParallelBlock: "The commit loop is always transaction-index ordered and
\* re-executes a transaction against the committed prefix whenever any
\* declared read version changed."
CanonicalIsAccepted == which = "block" => B!CanonicalIsAccepted

\* What was stored is what is served when it is loaded again: the journal of
\* MvccFee passes its audit, ChainLedger shows the state of one tip, resumes
\* a reorganisation that was cut short and serves the heaviest branch, and a
\* snapshot of ResearchProtocol loads.
StoredIsServed ==
  /\ which = "mvcc" => M!AuditPasses
  /\ which = "ledger" => L!VisibleIsTip /\ L!ReorganisationResumes /\ L!ServesHeaviest
  /\ which = "research" => R!SnapshotReloads

\* ParallelGroups: every transaction is in exactly one group, after the
\* writers it depends on.
GroupsAreOrdered == which = "groups" => G!EachPlacedOnce /\ G!WritersComeFirst

\* ParallelGroups: "txs within the same group are pairwise non-conflicting".
GroupsAreParallel == which = "groups" => G!GroupsAreParallel

\* Challenges come to an end: one on a research claim can be resolved, to
\* shares of those who worked, and one on a verification has one way to end,
\* of decisions that were taken under one profile.
ChallengesEnd ==
  /\ which = "research" => R!ChallengesResolvable /\ R!ClaimantsWorked
  /\ which = "challenge" => VP!ChallengeEnds /\ VP!DecisionsAgree

\* Acknowledged once: the worker agent acknowledges a task as accepted at
\* most once, and a transport session every nonce once and in order.
AcknowledgedOnce ==
  /\ which = "worker" => WA!AckedOnce
  /\ which = "session" => FA!AcknowledgedOnce

\* Worker agent: what is acknowledged as accepted is on the chain.
AcceptedIsOnChain == which = "worker" => WA!AcceptedIsOnChain

\* Nothing is explained by a forgotten history: revocations of identities by
\* their audit trail, governance parameters by the proposals executed, an
\* open restore by the pause it lifts, a node's settings by its plans.
HistoryExplains ==
  /\ which = "identity" => II!AuditExplains
  /\ which = "governance" => GG!ParamsExplained /\ GG!RestoreBelongsToPause
  /\ which = "control" => GG!PlansApplyOnce

\* Relay transcript: every filed envelope can be proved.
FiledIsProvable == which = "relay" => RT!FiledIsProvable

\* Admission keeps what it promised: reservations of nonces have one owner,
\* room that is reported is found, and remembered retries are let in.
AdmissionKept ==
  /\ which = "admission" => TA!ReservationOwned /\ TA!AdmissibleIsAdmitted
  /\ which = "gate" => TA!RetriesKept

\* Reports stand: the oracle's satisfy the contract the bridge reads them
\* by, and migrating a task's snapshot changes no verdict about the task.
ReportsStand ==
  /\ which = "oracle" => OR!ReportsHold
  /\ which = "metadata" => TM!ThreadingKeepsVerdict

\* What has ended stays ended: a revoked identifier or token, a settlement
\* that is final or reverted, the outcome of a challenge, work cancelled by
\* stopping the ingress.
EndsAreFinal ==
  [][/\ which = "identity" => II!WithdrawnForGood
     /\ which = "bridge" => II!TerminalPayloadStable
     /\ which = "challenge" => VP!OutcomeStands
     /\ which = "ingress" => FA!StopIsFinal]_vars
=============================================================================
