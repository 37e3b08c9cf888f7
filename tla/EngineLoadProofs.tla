---- MODULE EngineLoadProofs ----
(***************************************************************************)
(* What EngineLoad promises for every world size, every checkpoint and     *)
(* every environment: states stay typed, READY means that the ranks hold   *)
(* the whole checkpoint between them, and the kernels a rank has armed are *)
(* usable.                                                                 *)
(***************************************************************************)
EXTENDS EngineLoad, TLAPS

----------------------------------------------------------------------------
(* The shards of build_tp_shard_plan *)

\* Multiplying by a natural number keeps the order.
LEMMA ProductMonotone ==
  ASSUME NEW a \in Int, NEW b \in Int, NEW k \in Nat, a <= b
  PROVE  a * k <= b * k
  BY SMT

\* x lies in the block of length k that x \div k numbers.
LEMMA Quotient ==
  ASSUME NEW x \in Nat, NEW k \in Nat \ {0}
  PROVE  /\ x \div k \in Nat
         /\ (x \div k) * k <= x
         /\ x < (x \div k) * k + k
  BY SMT

\* When world divides n, the parts make up n again.
LEMMA ExactQuotient ==
  ASSUME NEW n \in Nat, NEW world \in Nat \ {0}, Divides(world, n)
  PROVE  n = world * (n \div world)
  BY SMT DEF Divides

\* The block after the a-th begins k later.
LEMMA ProductTypes ==
  ASSUME NEW a \in Nat, NEW k \in Nat
  PROVE  a * k \in Nat /\ (a + 1) * k = a * k + k
  BY SMT

\* build_tp_shard_plan gives no expert to two ranks.
LEMMA ShardsDisjoint ==
  ASSUME NEW world \in Nat \ {0}, NEW n \in Nat, NEW q \in Nat, NEW r \in Nat, q < r
  PROVE  ShardOf(world, q, n) \cap ShardOf(world, r, n) = {}
<1> DEFINE k == n \div world
<1>1. k \in Nat
  BY Quotient
<1>2. (q + 1) * k <= r * k
  BY <1>1, ProductMonotone
<1>3. /\ (q + 1) * k = q * k + k
      /\ q * k \in Nat /\ r * k \in Nat
  BY <1>1, ProductTypes
<1> QED
  BY <1>1, <1>2, <1>3 DEF ShardOf

\* A rank's experts are experts of the checkpoint.
LEMMA ShardWithin ==
  ASSUME NEW world \in Nat \ {0}, NEW n \in Nat, Divides(world, n),
         NEW r \in 0..(world - 1)
  PROVE  ShardOf(world, r, n) \subseteq 0..(n - 1)
<1> DEFINE k == n \div world
<1>1. k \in Nat
  BY Quotient
<1>2. (r + 1) * k <= world * k
  BY <1>1, ProductMonotone
<1>3. (r + 1) * k = r * k + k /\ r * k \in Nat
  BY <1>1, ProductTypes
<1>4. world * k = n
  BY ExactQuotient
<1> QED
  BY <1>1, <1>2, <1>3, <1>4 DEF ShardOf

\* build_tp_shard_plan leaves no expert out.
LEMMA ShardsCover ==
  ASSUME NEW world \in Nat \ {0}, NEW n \in Nat, Divides(world, n),
         NEW x \in 0..(n - 1)
  PROVE  \E r \in 0..(world - 1) : x \in ShardOf(world, r, n)
<1> DEFINE k == n \div world
           r == x \div k
<1>1. k \in Nat /\ world * k = n
  BY Quotient, ExactQuotient
<1>2. k # 0
  <2>1. CASE k = 0
    <3>1. world * 0 = 0
      OBVIOUS
    <3> QED
      BY <1>1, <2>1, <3>1
  <2> QED
    BY <2>1
<1>3. r \in Nat /\ r * k <= x /\ x < r * k + k
  <2> HIDE DEF k
  <2>1. x \in Nat /\ k \in Nat \ {0}
    BY <1>1, <1>2
  <2> QED
    BY <2>1, Quotient
<1> HIDE DEF r
<1>4. r < world
  <2>1. CASE world <= r
    <3>1. world * k <= r * k
      BY <1>1, <1>3, <2>1, ProductMonotone
    <3>2. r * k \in Nat
      BY <1>1, <1>3, ProductTypes
    <3> QED
      BY <1>1, <1>3, <3>1, <3>2
  <2> QED
    BY <1>3, <2>1
<1>5. r * k \in Nat
  BY <1>1, <1>3, ProductTypes
<1>6. x \in ShardOf(world, r, n)
  BY <1>1, <1>3, <1>5 DEF ShardOf
<1> QED
  BY <1>3, <1>4, <1>6

----------------------------------------------------------------------------
(* Types *)

\* The probes return typed capabilities, whatever the environment.
LEMMA ProbedTypes ==
  ASSUME NEW dg \in {"unknown", "yes", "no"}, NEW x \in Probed(dg)
  PROVE  x[1] \in CapStates /\ x[2] \in {"unknown", "yes", "no"}
<1>1. DgProbe(dg) \subseteq {"unknown", "yes", "no"}
  BY DEF DgProbe
<1>2. NoCaps \in CapStates
  BY DEF NoCaps, CapStates
<1>3. ArchOf(env.major) \in {"unknown", "sm80", "sm90", "sm100", "sm120"}
  BY DEF ArchOf
<1>4. ASSUME NEW n \in {"none", "yes", "no"}
      PROVE  [arch |-> ArchOf(env.major), sparse |-> {"fi", "sparse120"} \subseteq env.lib,
              num |-> n] \in CapStates
  BY <1>3, <1>4 DEF CapStates
<1> QED
  BY <1>1, <1>2, <1>4 DEF Probed

\* The routing functions return one of their named routes for any arguments.
LEMMA RoutesTyped ==
  ASSUME NEW e, NEW caps, NEW b
  PROVE  /\ SparsePath(e, caps) \in {"official", "torch", "fi"}
         /\ MoeChosen(e, b) \in {"none", "cutlass", "sgl", "trtllm"}
         /\ GateOf(e) \in {"stub", "failed", "check", "hf"}
<1>1. SparsePath(e, caps) \in {"official", "torch", "fi"}
  BY DEF SparsePath, Attached
<1>2. MoeChosen(e, b) \in {"none", "cutlass", "sgl", "trtllm"}
  BY DEF MoeChosen, MoeAvailable
<1>3. GateOf(e) \in {"stub", "failed", "check", "hf"}
  BY DEF GateOf
<1> QED
  BY <1>1, <1>2, <1>3

\* A step of one rank into a typed state keeps the type invariant.
LEMMA GoesTyped ==
  ASSUME LoadTypeOK, NEW r \in Ranks, NEW s \in RankStates, Goes(r, s)
  PROVE  LoadTypeOK'
  BY DEF LoadTypeOK, Goes

\* A rank is always in a typed state; one field at a time stays so.
LEMMA StageTyped ==
  ASSUME NEW s \in RankStates, NEW c \in Stages
  PROVE  [s EXCEPT !.pc = c] \in RankStates
  BY DEF RankStates

\* The same for the fields that LoadHf sets, ...
LEMMA HfTyped ==
  ASSUME NEW s \in RankStates, NEW a \in BOOLEAN, NEW b \in BOOLEAN,
         NEW c \in {"none", "cutlass", "sgl", "trtllm"}
  PROVE  [s EXCEPT !.paged = a, !.hooked = b, !.moe = c, !.pc = "moe"] \in RankStates
  BY DEF RankStates, Stages

\* ... HookMod, ...
LEMMA ModTyped ==
  ASSUME NEW s \in RankStates, NEW m \in Mods, NEW mod \in ModStates
  PROVE  [s EXCEPT !.mods[m] = mod, !.next = m + 1] \in RankStates
<1>1. m + 1 \in Nat
  BY LoadAssumption
<1>2. [s.mods EXCEPT ![m] = mod] \in [Mods -> ModStates]
  BY DEF RankStates
<1> QED
  BY <1>1, <1>2 DEF RankStates

\* ... LoadShard, ...
LEMMA ShardTyped ==
  ASSUME NEW s \in RankStates, NEW a \in SUBSET Experts, NEW b \in SUBSET Experts
  PROVE  [s EXCEPT !.pc = "sparse", !.plan = a, !.held = b] \in RankStates
  BY DEF RankStates, Stages

\* ... AttachDeepGemm, ...
LEMMA GemmTyped ==
  ASSUME NEW s \in RankStates, NEW d \in {"unknown", "yes", "no"}, NEW b \in BOOLEAN
  PROVE  [s EXCEPT !.pc = "loaded", !.dg = d, !.patched = b] \in RankStates
  BY DEF RankStates, Stages

\* ... and Attend.
LEMMA ServedTyped ==
  ASSUME NEW s \in RankStates, NEW leaf \in {"none", "official", "torch"} \cup FiLeaves,
         NEW good \in BOOLEAN, NEW off \in BOOLEAN
  PROVE  [s EXCEPT !.leaf = leaf, !.good = good, !.fiOff = off] \in RankStates
  BY DEF RankStates

\* The hooks leave an expert module typed.
LEMMA CutlassTyped ==
  ASSUME NEW mod \in ModStates
  PROVE  TrtllmHook(mod) \in ModStates /\ CutlassHook(mod) \subseteq ModStates
  BY DEF ModStates, Layouts, TrtllmHook, CutlassHook, Swap

\* What LoadShard leaves when it succeeds: the rank's own part of the checkpoint,
\* and a plan that says so.
Loaded(r) == [p[r] EXCEPT !.pc = "sparse", !.plan = ShardOf(World, r, TrueExperts),
                          !.held = ShardOf(World, r, TrueExperts)]

\* That state is typed, because a shard lies within the checkpoint.
LEMMA LoadedTyped ==
  ASSUME NEW r \in Ranks, p[r] \in RankStates
  PROVE  Loaded(r) \in RankStates
<1>1. ShardOf(World, r, TrueExperts) \in SUBSET Experts
  BY LoadAssumption, ShardWithin DEF Ranks, Experts
<1> QED
  BY <1>1, ShardTyped DEF Loaded

\* load_v4_hybrid_model leaves exactly the rank's own shard, or fails: whatever the
\* configs say and whichever file was found, a mismatch of counts or shapes raises.
LEMMA ShardLoads ==
  ASSUME NEW r \in Ranks, LoadShard(r)
  PROVE  Goes(r, Loaded(r)) \/ Goes(r, [p[r] EXCEPT !.pc = "failed"])
<1> DEFINE planned == IF env.cfgN = 0 THEN {PlanDefault, env.hfN} ELSE {env.cfgN}
           planN   == IF env.cfgN = 0 THEN env.hfN ELSE env.cfgN
           modelN  == IF env.cfgN = 0 THEN ArgsDefault ELSE env.cfgN
           fits    == /\ \A n \in planned \cup {modelN} : Divides(World, n)
                      /\ modelN = TrueExperts
                      /\ \E f \in FindShard(r) : f[1] = World
           lands(f) == [p[r] EXCEPT
                         !.pc = "sparse", !.plan = ShardOf(World, r, planN),
                         !.held = ShardOf(World, r, modelN)
                                    \cap ShardOf(f[1], f[2], TrueExperts)]
<1>1. CASE ~ fits
  BY <1>1 DEF LoadShard
<1>2. CASE fits
  <2>1. PICK f \in FindShard(r) : Goes(r, lands(f))
    BY <1>2 DEF LoadShard
  <2>2. modelN = TrueExperts /\ planN = TrueExperts
    BY <1>2, LoadAssumption
  <2>3. f[1] = World /\ f[2] = r
    BY <1>2 DEF FindShard
  <2>4. lands(f) = Loaded(r)
    BY <2>2, <2>3 DEF Loaded
  <2> QED
    BY <2>1, <2>4
<1> QED
  BY <1>1, <1>2

\* There is a rank 0.
LEMMA RankZero == 0 \in Ranks
  BY LoadAssumption DEF Ranks

\* Every action keeps the type invariant.
LEMMA TypeStep ==
  ASSUME LoadTypeOK, NextLoad
  PROVE  LoadTypeOK'
<1> USE LoadAssumption
<1>1. ASSUME NEW r \in Ranks, NEW c \in Stages, Goes(r, [p[r] EXCEPT !.pc = c])
      PROVE  LoadTypeOK'
  BY <1>1, StageTyped, GoesTyped DEF LoadTypeOK
<1>2. ASSUME NEW r \in Ranks, Start(r)
      PROVE  LoadTypeOK'
  <2> DEFINE flash == env.cuda /\ "fi" \in env.lib
  <2>1. PICK x \in Probed(p[r].dg) :
          Goes(r, [p[r] EXCEPT !.pc = "gate", !.flash = flash,
                               !.caps = IF flash THEN x[1] ELSE NoCaps, !.dg = x[2]])
    BY <1>2 DEF Start
  <2>2. p[r] \in RankStates /\ p[r].dg \in {"unknown", "yes", "no"}
    BY DEF LoadTypeOK, RankStates
  <2>3. x[1] \in CapStates /\ NoCaps \in CapStates /\ x[2] \in {"unknown", "yes", "no"}
    BY <2>2, ProbedTypes DEF NoCaps, CapStates
  <2>4. [p[r] EXCEPT !.pc = "gate", !.flash = flash,
                     !.caps = IF flash THEN x[1] ELSE NoCaps, !.dg = x[2]] \in RankStates
    BY <2>2, <2>3 DEF RankStates, Stages
  <2> QED
    BY <2>1, <2>4, GoesTyped
<1>3. ASSUME NEW r \in Ranks, Gate(r)
      PROVE  LoadTypeOK'
  BY <1>1, <1>3, RoutesTyped DEF Gate, Stages
<1>4. ASSUME NEW r \in Ranks, LoadRaises(r) \/ FinishHf(r) \/ CheckV4(r) \/ Teardown(r)
                              \/ WarmSwallowed(r) \/ NoBroadcast(r)
      PROVE  LoadTypeOK'
  BY <1>1, <1>4 DEF LoadRaises, FinishHf, CheckV4, WarmSwallowed, NoBroadcast, Teardown, Stages
<1>12. ASSUME WarmFails
       PROVE  LoadTypeOK'
  BY <1>1, <1>12, RankZero DEF WarmFails, Stages
<1>13. ASSUME WarmAlone
       PROVE  LoadTypeOK'
  <2>1. p' = [p EXCEPT ![0] = [p[0] EXCEPT !.pc = "serving"]] /\ ready' = TRUE
    BY <1>13 DEF WarmAlone
  <2>2. [p[0] EXCEPT !.pc = "serving"] \in RankStates
    BY RankZero DEF LoadTypeOK, RankStates, Stages
  <2> QED
    BY <2>1, <2>2, RankZero DEF LoadTypeOK
<1>5. ASSUME NEW r \in Ranks, LoadHf(r)
      PROVE  LoadTypeOK'
  <2>1. PICK unpageable \in BOOLEAN :
          LET paged == ~ env.forceHf /\ ~ unpageable
          IN  Goes(r, [p[r] EXCEPT
                !.paged = paged, !.hooked = paged /\ p[r].flash,
                !.moe = IF MoeWanted(env) THEN MoeChosen(env, env.moe) ELSE "none",
                !.pc = "moe"])
    BY <1>5 DEF LoadHf
  <2> DEFINE paged == ~ env.forceHf /\ ~ unpageable
             s == [p[r] EXCEPT
                    !.paged = paged, !.hooked = paged /\ p[r].flash,
                    !.moe = IF MoeWanted(env) THEN MoeChosen(env, env.moe) ELSE "none",
                    !.pc = "moe"]
  <2>2. p[r] \in RankStates /\ paged \in BOOLEAN /\ (paged /\ p[r].flash) \in BOOLEAN
    BY DEF LoadTypeOK
  <2>3. (IF MoeWanted(env) THEN MoeChosen(env, env.moe) ELSE "none")
          \in {"none", "cutlass", "sgl", "trtllm"}
    BY RoutesTyped
  <2>4. s \in RankStates
    BY <2>2, <2>3, HfTyped
  <2> QED
    BY <2>1, <2>4, GoesTyped
<1>6. ASSUME NEW r \in Ranks, HookMod(r)
      PROVE  LoadTypeOK'
  <2> DEFINE m == p[r].next
             done(mod) == [p[r] EXCEPT !.mods[m] = mod, !.next = m + 1]
  <2>1. m \in Mods /\ p[r] \in RankStates /\ p[r].mods[m] \in ModStates
    BY <1>6 DEF HookMod, LoadTypeOK, RankStates
  <2>2. ASSUME NEW mod \in ModStates
        PROVE  done(mod) \in RankStates
    BY <2>1, <2>2, ModTyped
  <2>3. [p[r] EXCEPT !.moe = "cutlass", !.next = 1] \in RankStates
    BY <2>1 DEF RankStates
  <2>4. \/ Goes(r, done(TrtllmHook(p[r].mods[m])))
        \/ Goes(r, [p[r] EXCEPT !.moe = "cutlass", !.next = 1])
        \/ Goes(r, done(p[r].mods[m]))
        \/ \E mod \in CutlassHook(p[r].mods[m]) : Goes(r, done(mod))
    BY <1>6 DEF HookMod
  <2> HIDE DEF done
  <2> QED
    BY <2>1, <2>2, <2>3, <2>4, CutlassTyped, GoesTyped
<1>7. ASSUME JoinGroup \/ WarmUp
      PROVE  LoadTypeOK'
  <2>1. PICK c \in Stages : p' = [r \in Ranks |-> [p[r] EXCEPT !.pc = c]]
    BY <1>7 DEF JoinGroup, WarmUp, Stages
  <2>2. ready' \in BOOLEAN
    BY <1>7 DEF JoinGroup, WarmUp, LoadTypeOK
  <2> QED
    BY <2>1, <2>2, StageTyped DEF LoadTypeOK
<1>8. ASSUME NEW r \in Ranks, LoadShard(r)
      PROVE  LoadTypeOK'
  <2>1. CASE Goes(r, [p[r] EXCEPT !.pc = "failed"])
    BY <1>1, <2>1 DEF Stages
  <2>2. CASE Goes(r, Loaded(r))
    BY <2>2, LoadedTyped, GoesTyped DEF LoadTypeOK
  <2> QED
    BY <1>8, <2>1, <2>2, ShardLoads
<1>9. ASSUME NEW r \in Ranks, AttachSparse(r)
      PROVE  LoadTypeOK'
  <2>1. PICK x \in Probed(p[r].dg) :
          LET caps == IF p[r].flash THEN x[1] ELSE p[r].caps
          IN  \E path \in {SparsePath(env, caps), "official"} :
                Goes(r, [p[r] EXCEPT !.pc = "gemm", !.caps = caps, !.dg = x[2],
                                     !.armed = path])
    BY <1>9 DEF AttachSparse
  <2> DEFINE caps == IF p[r].flash THEN x[1] ELSE p[r].caps
  <2>2. PICK path \in {SparsePath(env, caps), "official"} :
          Goes(r, [p[r] EXCEPT !.pc = "gemm", !.caps = caps, !.dg = x[2], !.armed = path])
    BY <2>1
  <2>3. p[r] \in RankStates /\ p[r].dg \in {"unknown", "yes", "no"}
        /\ p[r].caps \in CapStates
    BY DEF LoadTypeOK, RankStates
  <2>4. x[1] \in CapStates /\ x[2] \in {"unknown", "yes", "no"}
    BY <2>3, ProbedTypes
  <2>5. path \in {"official", "torch", "fi"}
    BY <2>2, RoutesTyped
  <2>6. caps \in CapStates
    BY <2>3, <2>4
  <2> HIDE DEF caps
  <2>7. [p[r] EXCEPT !.pc = "gemm", !.caps = caps, !.dg = x[2], !.armed = path]
          \in RankStates
    BY <2>3, <2>4, <2>5, <2>6 DEF RankStates, Stages
  <2> QED
    BY <2>2, <2>7, GoesTyped
<1>10. ASSUME NEW r \in Ranks, AttachDeepGemm(r)
       PROVE  LoadTypeOK'
  <2>1. PICK d \in (IF env.dgOn THEN DgProbe(p[r].dg) ELSE {p[r].dg}),
             importable \in BOOLEAN :
          Goes(r, [p[r] EXCEPT !.pc = "loaded", !.dg = d,
                               !.patched = env.dgOn /\ d = "yes" /\ importable])
    BY <1>10 DEF AttachDeepGemm
  <2>2. p[r] \in RankStates /\ p[r].dg \in {"unknown", "yes", "no"}
    BY DEF LoadTypeOK, RankStates
  <2>3. d \in {"unknown", "yes", "no"}
    BY <2>1, <2>2 DEF DgProbe
  <2>4. [p[r] EXCEPT !.pc = "loaded", !.dg = d,
                     !.patched = env.dgOn /\ d = "yes" /\ importable] \in RankStates
    BY <2>2, <2>3, GemmTyped
  <2> QED
    BY <2>1, <2>4, GoesTyped
<1>11. ASSUME NEW r \in Ranks, Attend(r)
       PROVE  LoadTypeOK'
  <2>1. ASSUME NEW leaf \in {"none", "official", "torch"} \cup FiLeaves,
               NEW good \in BOOLEAN, NEW off \in BOOLEAN, Served(r, leaf, good, off)
        PROVE  LoadTypeOK'
    <3>1. [p[r] EXCEPT !.leaf = leaf, !.good = good, !.fiOff = off] \in RankStates
      BY ServedTyped DEF LoadTypeOK
    <3> QED
      BY <2>1, <3>1, GoesTyped DEF Served
  <2>2. FiUsable(r) => SparseMla(p[r].caps, env.force) \in FiLeaves
    BY DEF FiUsable, LeafRaises
  <2>3. p[r].fiOff \in BOOLEAN
    BY DEF LoadTypeOK, RankStates
  <2> QED
    BY <1>11, <2>1, <2>2, <2>3 DEF Attend
<1> QED
  BY <1>2, <1>3, <1>4, <1>5, <1>6, <1>7, <1>8, <1>9, <1>10, <1>11, <1>12, <1>13
     DEF NextLoad, RankStep

\* Processes start typed.
LEMMA FreshTyped == InitLoad => LoadTypeOK
<1>1. FreshMod \in ModStates /\ NoCaps \in CapStates
  BY DEF FreshMod, ModStates, Layouts, NoCaps, CapStates
<1>2. Fresh \in RankStates
  BY <1>1 DEF Fresh, RankStates, Stages
<1> QED
  BY <1>2 DEF InitLoad, LoadTypeOK

\* Every state of every rank is typed: stages, routes, layouts and expert ranges, for
\* any world size, any set of expert modules and any environment.
THEOREM LoadTyped == SpecLoad => []LoadTypeOK
<1>1. InitLoad => LoadTypeOK
  BY FreshTyped
<1>2. LoadTypeOK /\ [NextLoad]_loadVars => LoadTypeOK'
  <2>1. LoadTypeOK /\ UNCHANGED loadVars => LoadTypeOK'
    BY DEF LoadTypeOK, loadVars
  <2> QED
    BY <2>1, TypeStep
<1> QED
  BY <1>1, <1>2, PTL DEF SpecLoad

----------------------------------------------------------------------------
(* The inductive invariant *)

Own(r) == ShardOf(World, r, TrueExperts)
Whole(r, s) == s.plan = Own(r) /\ s.held = Own(r)

\* The capabilities of a rank are its device's, or none.
CapsOwn(e, s) ==
  \/ s.caps = NoCaps
  \/ /\ s.caps.arch = ArchOf(e.major)
     /\ s.caps.sparse => "sparse120" \in e.lib

LeafOwn(e, s) ==
  /\ s.leaf = "fi_sm100" => e.major = 10
  /\ s.leaf = "fi_sm120" => e.major = 12 /\ "sparse120" \in e.lib

\* A module the attachment has not come to, or that no in-place hook can have
\* touched, is as HF wrote it.
ModSound(s, m) ==
  /\ s.mods[m].fwd = "cutlass" => s.mods[m].layout = "up_gate"
  /\ s.mods[m].fwd = "trtllm" => s.mods[m].copy = "gate_up"
  /\ s.mods[m].fwd = "hf" /\ ~ s.mods[m].spoiled => s.mods[m].layout = "gate_up"
  /\ m >= s.next \/ s.moe \in {"none", "trtllm"} =>
       s.mods[m].layout = "gate_up" /\ s.mods[m].fwd # "cutlass"

Settled == {"loaded", "stray", "serving", "left", "failed"}
Late == {"sparse", "gemm", "loaded", "stray", "serving"}

Sound(e, r, s) ==
  /\ s.pc \in {"hf", "moe"} => GateOf(e) # "check"
  /\ GateOf(e) = "check" /\ s.pc \in Late => Whole(r, s)
  /\ s.patched => s.dg = "yes" /\ s.pc \in Settled
  /\ s.moe # "none" => s.pc \in Settled \cup {"moe"}
  /\ s.good /\ (s.fiOff => s.leaf \notin FiLeaves)
  /\ CapsOwn(e, s) /\ LeafOwn(e, s)
  /\ \A m \in Mods : ModSound(s, m)

LoadInv ==
  /\ LoadTypeOK
  /\ \A r \in Ranks : Sound(env, r, p[r])
  /\ ready /\ GateOf(env) = "check" => \A r \in Ranks : Whole(r, p[r])

\* A step of one rank keeps the invariant if its new state is sound and, once READY,
\* still holds its part.
LEMMA GoesSound ==
  ASSUME LoadInv, NEW r \in Ranks, NEW s, Goes(r, s), LoadTypeOK',
         Sound(env, r, s), Whole(r, s) \/ (s.plan = p[r].plan /\ s.held = p[r].held)
  PROVE  LoadInv'
<1>1. /\ p' = [p EXCEPT ![r] = s]
      /\ env' = env /\ ready' = ready
  BY DEF Goes
<1>2. DOMAIN p = Ranks
  BY DEF LoadInv, LoadTypeOK
<1>3. p'[r] = s /\ \A q \in Ranks : q # r => p'[q] = p[q]
  BY <1>1, <1>2
<1>4. \A q \in Ranks : Sound(env, q, p'[q])
  BY <1>3 DEF LoadInv
<1>5. ready /\ GateOf(env) = "check" => \A q \in Ranks : Whole(q, p'[q])
  BY <1>3 DEF LoadInv, Whole
<1> QED
  BY <1>1, <1>4, <1>5 DEF LoadInv

\* A rank that only moves on, without entering a later stage it has no right to.
LEMMA StageSound ==
  ASSUME LoadInv, NEW r \in Ranks, NEW c \in Stages, LoadTypeOK',
         Goes(r, [p[r] EXCEPT !.pc = c]),
         c \in {"hf", "moe"} => GateOf(env) # "check",
         GateOf(env) = "check" /\ c \in Late => p[r].pc \in Late,
         p[r].patched \/ p[r].moe # "none" => c \in Settled
  PROVE  LoadInv'
<1> DEFINE s == [p[r] EXCEPT !.pc = c]
<1>1. p[r] \in RankStates
  BY DEF LoadInv, LoadTypeOK
<1>2. /\ s.pc = c /\ s.plan = p[r].plan /\ s.held = p[r].held
      /\ s.patched = p[r].patched /\ s.dg = p[r].dg /\ s.good = p[r].good
      /\ s.fiOff = p[r].fiOff /\ s.leaf = p[r].leaf /\ s.caps = p[r].caps
      /\ s.mods = p[r].mods /\ s.next = p[r].next /\ s.moe = p[r].moe
  BY <1>1 DEF RankStates
<1> HIDE DEF s
<1>3. Sound(env, r, p[r])
  BY DEF LoadInv
<1>4. Sound(env, r, s)
  BY <1>2, <1>3 DEF Sound, Whole, CapsOwn, LeafOwn, ModSound
<1> QED
  BY <1>2, <1>4, GoesSound DEF s

\* A probe reports nothing, or the family of the device and its libraries.
LEMMA ProbedOwn ==
  ASSUME NEW dg, NEW x \in Probed(dg)
  PROVE  \/ x[1] = NoCaps
         \/ /\ x[1].arch = ArchOf(env.major)
            /\ x[1].sparse => "sparse120" \in env.lib
<1>1. CASE ~ env.cuda
  BY <1>1 DEF Probed
<1>2. CASE env.cuda
  <2> DEFINE sparse == {"fi", "sparse120"} \subseteq env.lib
  <2>1. PICK n : x[1] = [arch |-> ArchOf(env.major), sparse |-> sparse, num |-> n]
    BY <1>2 DEF Probed
  <2>2. sparse => "sparse120" \in env.lib
    OBVIOUS
  <2> HIDE DEF sparse
  <2> QED
    BY <2>1, <2>2
<1> QED
  BY <1>1, <1>2

\* What a hook leaves of a module that is as HF wrote it.
LEMMA HookSound ==
  ASSUME NEW mod \in ModStates, mod.layout = "gate_up", mod.fwd # "cutlass",
         mod.fwd = "trtllm" => mod.copy = "gate_up"
  PROVE  /\ TrtllmHook(mod).fwd = "trtllm" /\ TrtllmHook(mod).copy = "gate_up"
         /\ TrtllmHook(mod).layout = "gate_up"
         /\ \A h \in CutlassHook(mod) :
              /\ h.fwd = "cutlass" => h.layout = "up_gate"
              /\ h.fwd = "trtllm" => h.copy = "gate_up"
              /\ h.fwd = "hf" /\ ~ h.spoiled => h.layout = "gate_up"
  BY DEF TrtllmHook, CutlassHook, Swap, ModStates

\* Every action keeps the inductive invariant.
LEMMA SoundStep ==
  ASSUME LoadInv, NextLoad
  PROVE  LoadInv'
<1> USE LoadAssumption
<1>0. LoadTypeOK /\ LoadTypeOK'
  BY TypeStep DEF LoadInv
<1>a. \A r \in Ranks : p[r] \in RankStates /\ Sound(env, r, p[r])
  BY DEF LoadInv, LoadTypeOK
<1>1. ASSUME NEW r \in Ranks, Start(r)
      PROVE  LoadInv'
  <2> DEFINE flash == env.cuda /\ "fi" \in env.lib
  <2>1. PICK x \in Probed(p[r].dg) :
          Goes(r, [p[r] EXCEPT !.pc = "gate", !.flash = flash,
                               !.caps = IF flash THEN x[1] ELSE NoCaps, !.dg = x[2]])
    BY <1>1 DEF Start
  <2> DEFINE s == [p[r] EXCEPT !.pc = "gate", !.flash = flash,
                               !.caps = IF flash THEN x[1] ELSE NoCaps, !.dg = x[2]]
  <2>2. p[r] \in RankStates /\ Sound(env, r, p[r]) /\ p[r].pc = "start"
    BY <1>1, <1>a DEF Start
  <2>3. /\ s.pc = "gate" /\ s.plan = p[r].plan /\ s.held = p[r].held
        /\ s.patched = p[r].patched /\ s.good = p[r].good
        /\ s.fiOff = p[r].fiOff /\ s.leaf = p[r].leaf /\ s.caps \in {x[1], NoCaps}
        /\ s.mods = p[r].mods /\ s.next = p[r].next /\ s.moe = p[r].moe
    BY <2>2 DEF RankStates
  <2> HIDE DEF s
  <2>4. CapsOwn(env, s)
    BY <2>3, ProbedOwn DEF CapsOwn
  <2>5. Sound(env, r, s)
    BY <2>2, <2>3, <2>4 DEF Sound, Whole, LeafOwn, ModSound, Late, Settled
  <2> QED
    BY <1>0, <2>1, <2>3, <2>5, GoesSound DEF s
<1>2. ASSUME NEW r \in Ranks, Gate(r)
      PROVE  LoadInv'
  <2> DEFINE c == IF GateOf(env) = "stub" THEN "loaded" ELSE GateOf(env)
  <2>1. c \in Stages /\ Goes(r, [p[r] EXCEPT !.pc = c])
        /\ ~ p[r].patched /\ p[r].moe = "none"
    BY <1>2, <1>a, RoutesTyped DEF Gate, Stages, Sound, Settled
  <2>2. /\ c \in {"hf", "moe"} => GateOf(env) # "check"
        /\ ~ (GateOf(env) = "check" /\ c \in Late)
    BY RoutesTyped DEF Late
  <2> HIDE DEF c
  <2> QED
    BY <1>0, <2>1, <2>2, StageSound
<1>3. ASSUME NEW r \in Ranks, \/ LoadRaises(r) \/ Teardown(r) \/ NoBroadcast(r)
                              \/ (WarmFails /\ r = 0)
      PROVE  LoadInv'
  <2>1. PICK c \in {"left", "failed"} : Goes(r, [p[r] EXCEPT !.pc = c])
    BY <1>3 DEF LoadRaises, WarmFails, NoBroadcast, Teardown
  <2> QED
    BY <1>0, <2>1, StageSound DEF Stages, Late, Settled
<1>13. ASSUME NEW r \in Ranks, WarmSwallowed(r)
       PROVE  LoadInv'
  <2>1. Goes(r, [p[r] EXCEPT !.pc = "stray"]) /\ p[r].pc = "loaded"
    BY <1>13 DEF WarmSwallowed
  <2> QED
    BY <1>0, <2>1, StageSound DEF Stages, Late, Settled
<1>14. ASSUME WarmAlone
       PROVE  LoadInv'
  <2> DEFINE s == [p[0] EXCEPT !.pc = "serving"]
  <2>1. p' = [p EXCEPT ![0] = s] /\ env' = env /\ p[0].pc = "loaded" /\ GateOf(env) # "check"
    BY <1>14 DEF WarmAlone, IsV4
  <2>2. p[0] \in RankStates /\ Sound(env, 0, p[0]) /\ DOMAIN p = Ranks
    BY <1>a, RankZero DEF LoadInv, LoadTypeOK
  <2>3. /\ s.pc = "serving" /\ s.plan = p[0].plan /\ s.held = p[0].held
        /\ s.patched = p[0].patched /\ s.dg = p[0].dg /\ s.good = p[0].good
        /\ s.fiOff = p[0].fiOff /\ s.leaf = p[0].leaf /\ s.caps = p[0].caps
        /\ s.mods = p[0].mods /\ s.next = p[0].next /\ s.moe = p[0].moe
    BY <2>2 DEF RankStates
  <2> HIDE DEF s
  <2>4. Sound(env, 0, s)
    BY <2>1, <2>2, <2>3 DEF Sound, Whole, CapsOwn, LeafOwn, ModSound, Settled
  <2>5. ASSUME NEW r \in Ranks PROVE Sound(env, r, p'[r])
    BY <2>1, <2>2, <2>4 DEF LoadInv
  <2> QED
    BY <1>0, <2>1, <2>5 DEF LoadInv
<1>4. ASSUME NEW r \in Ranks, FinishHf(r)
      PROVE  LoadInv'
  <2>1. /\ Goes(r, [p[r] EXCEPT !.pc = "loaded"])
        /\ GateOf(env) # "check"
    BY <1>4, <1>a DEF FinishHf, Sound
  <2> QED
    BY <1>0, <2>1, StageSound DEF Stages, Settled
<1>5. ASSUME NEW r \in Ranks, CheckV4(r)
      PROVE  LoadInv'
  <2>1. PICK c \in {"group", "failed"} : Goes(r, [p[r] EXCEPT !.pc = c])
    BY <1>5 DEF CheckV4
  <2>2. ~ p[r].patched /\ p[r].moe = "none"
    BY <1>5, <1>a DEF CheckV4, Sound, Settled
  <2> QED
    BY <1>0, <2>1, <2>2, StageSound DEF Stages, Late
<1>6. ASSUME NEW r \in Ranks, LoadHf(r)
      PROVE  LoadInv'
  <2>1. PICK unpageable \in BOOLEAN :
          LET paged == ~ env.forceHf /\ ~ unpageable
          IN  Goes(r, [p[r] EXCEPT
                !.paged = paged, !.hooked = paged /\ p[r].flash,
                !.moe = IF MoeWanted(env) THEN MoeChosen(env, env.moe) ELSE "none",
                !.pc = "moe"])
    BY <1>6 DEF LoadHf
  <2> DEFINE paged == ~ env.forceHf /\ ~ unpageable
             b == IF MoeWanted(env) THEN MoeChosen(env, env.moe) ELSE "none"
             s == [p[r] EXCEPT !.paged = paged, !.hooked = paged /\ p[r].flash,
                               !.moe = b, !.pc = "moe"]
  <2>2. p[r] \in RankStates /\ Sound(env, r, p[r]) /\ p[r].pc = "hf"
    BY <1>6, <1>a DEF LoadHf
  <2>3. /\ s.pc = "moe" /\ s.plan = p[r].plan /\ s.held = p[r].held
        /\ s.patched = p[r].patched /\ s.good = p[r].good
        /\ s.fiOff = p[r].fiOff /\ s.leaf = p[r].leaf /\ s.caps = p[r].caps
        /\ s.mods = p[r].mods /\ s.next = p[r].next
    BY <2>2 DEF RankStates
  <2> HIDE DEF s
  <2>4. \A m \in Mods : ModSound(s, m)
    BY <2>2, <2>3 DEF Sound, ModSound, Settled
  <2>5. Sound(env, r, s)
    BY <2>2, <2>3, <2>4 DEF Sound, Whole, CapsOwn, LeafOwn, Late, Settled
  <2> QED
    BY <1>0, <2>1, <2>3, <2>5, GoesSound DEF s
<1>7. ASSUME NEW r \in Ranks, HookMod(r)
      PROVE  LoadInv'
  <2> DEFINE m == p[r].next
             mod0 == p[r].mods[m]
             done(mod) == [p[r] EXCEPT !.mods[m] = mod, !.next = m + 1]
             again == [p[r] EXCEPT !.moe = "cutlass", !.next = 1]
  <2>1. /\ p[r] \in RankStates /\ Sound(env, r, p[r])
        /\ p[r].pc = "moe" /\ p[r].moe # "none" /\ m \in Mods /\ m \in Nat
    BY <1>7, <1>a DEF HookMod
  <2>2. /\ mod0 \in ModStates /\ mod0.layout = "gate_up" /\ mod0.fwd # "cutlass"
        /\ mod0.fwd = "trtllm" => mod0.copy = "gate_up"
    BY <2>1 DEF Sound, ModSound, RankStates
  <2>3. ASSUME NEW mod \in ModStates, Goes(r, done(mod)),
               /\ mod.fwd = "cutlass" => mod.layout = "up_gate"
               /\ mod.fwd = "trtllm" => mod.copy = "gate_up"
               /\ mod.fwd = "hf" /\ ~ mod.spoiled => mod.layout = "gate_up",
               p[r].moe = "trtllm" => mod.layout = "gate_up" /\ mod.fwd # "cutlass"
        PROVE  LoadInv'
    <3> DEFINE s == done(mod)
    <3>1. /\ s.pc = "moe" /\ s.plan = p[r].plan /\ s.held = p[r].held
          /\ s.patched = p[r].patched /\ s.dg = p[r].dg /\ s.good = p[r].good
          /\ s.fiOff = p[r].fiOff /\ s.leaf = p[r].leaf /\ s.caps = p[r].caps
          /\ s.moe = p[r].moe /\ s.next = m + 1
          /\ s.mods = [p[r].mods EXCEPT ![m] = mod]
      BY <2>1 DEF RankStates
    <3>2. s.mods[m] = mod /\ \A q \in Mods : q # m => s.mods[q] = p[r].mods[q]
      BY <2>1, <3>1 DEF RankStates
    <3> HIDE DEF s
    <3>3. ModSound(s, m)
      BY <2>1, <2>3, <3>1, <3>2 DEF ModSound
    <3>4. ASSUME NEW q \in Mods, q # m
          PROVE  ModSound(s, q)
      BY <2>1, <3>1, <3>2, <3>4 DEF ModSound, Sound
    <3>5. Sound(env, r, s)
      BY <2>1, <3>1, <3>3, <3>4 DEF Sound, Whole, CapsOwn, LeafOwn, Late, Settled
    <3> QED
      BY <1>0, <2>3, <3>1, <3>5, GoesSound DEF s
  <2>4. CASE p[r].moe = "trtllm" /\ Goes(r, again)
    <3>1. /\ again.pc = "moe" /\ again.plan = p[r].plan /\ again.held = p[r].held
          /\ again.patched = p[r].patched /\ again.dg = p[r].dg
          /\ again.good = p[r].good /\ again.fiOff = p[r].fiOff
          /\ again.leaf = p[r].leaf /\ again.caps = p[r].caps
          /\ again.moe = "cutlass" /\ again.mods = p[r].mods
      BY <2>1 DEF RankStates
    <3> HIDE DEF again
    <3>2. \A q \in Mods : ModSound(again, q)
      BY <2>1, <2>4, <3>1 DEF Sound, ModSound
    <3>3. Sound(env, r, again)
      BY <2>1, <3>1, <3>2 DEF Sound, Whole, CapsOwn, LeafOwn, Late, Settled
    <3> QED
      BY <1>0, <2>4, <3>1, <3>3, GoesSound DEF again
  <2>5. \/ p[r].moe = "trtllm" /\ Goes(r, done(TrtllmHook(mod0)))
        \/ p[r].moe = "trtllm" /\ Goes(r, again)
        \/ Goes(r, done(mod0))
        \/ p[r].moe # "trtllm" /\ \E mod \in CutlassHook(mod0) : Goes(r, done(mod))
    BY <1>7 DEF HookMod
  <2> HIDE DEF done, again, mod0
  <2> QED
    BY <2>2, <2>3, <2>4, <2>5, HookSound, CutlassTyped
<1>8. ASSUME JoinGroup \/ WarmUp
      PROVE  LoadInv'
  <2>1. PICK c \in {"shard", "serving"} :
          /\ p' = [r \in Ranks |-> [p[r] EXCEPT !.pc = c]]
          /\ env' = env
          /\ c = "serving" => \A r \in Ranks : p[r].pc = "loaded"
          /\ c = "shard" => ready' = ready /\ \A r \in Ranks : p[r].pc = "group"
    BY <1>8 DEF JoinGroup, WarmUp
  <2>2. ASSUME NEW r \in Ranks
        PROVE  /\ Sound(env, r, p'[r])
               /\ p'[r].plan = p[r].plan /\ p'[r].held = p[r].held
    <3> DEFINE s == [p[r] EXCEPT !.pc = c]
    <3>1. /\ s.pc = c /\ s.plan = p[r].plan /\ s.held = p[r].held
          /\ s.patched = p[r].patched /\ s.dg = p[r].dg /\ s.good = p[r].good
          /\ s.fiOff = p[r].fiOff /\ s.leaf = p[r].leaf /\ s.caps = p[r].caps
          /\ s.mods = p[r].mods /\ s.next = p[r].next /\ s.moe = p[r].moe
      BY <1>a DEF RankStates
    <3>2. p'[r] = s
      BY <2>1
    <3> HIDE DEF s
    <3>3. Sound(env, r, s)
      BY <1>a, <2>1, <3>1 DEF Sound, Whole, CapsOwn, LeafOwn, ModSound, Late, Settled
    <3> QED
      BY <3>1, <3>2, <3>3
  <2>3. ready' /\ GateOf(env) = "check" => \A r \in Ranks : Whole(r, p'[r])
    <3>1. CASE c = "serving"
      BY <1>a, <2>1, <2>2, <3>1 DEF Sound, Whole, Late
    <3>2. CASE c = "shard"
      BY <2>1, <2>2, <3>2 DEF LoadInv, Whole
    <3> QED
      BY <2>1, <3>1, <3>2
  <2> QED
    BY <1>0, <2>1, <2>2, <2>3 DEF LoadInv
<1>9. ASSUME NEW r \in Ranks, LoadShard(r)
      PROVE  LoadInv'
  <2>1. CASE Goes(r, [p[r] EXCEPT !.pc = "failed"])
    BY <1>0, <2>1, StageSound DEF Stages, Late, Settled
  <2>2. CASE Goes(r, Loaded(r))
    <3> DEFINE s == Loaded(r)
    <3>0. p[r] \in RankStates /\ Sound(env, r, p[r]) /\ p[r].pc = "shard"
      BY <1>9, <1>a DEF LoadShard
    <3>1. /\ s.pc = "sparse" /\ s.plan = Own(r) /\ s.held = Own(r)
          /\ s.patched = p[r].patched /\ s.dg = p[r].dg /\ s.good = p[r].good
          /\ s.fiOff = p[r].fiOff /\ s.leaf = p[r].leaf /\ s.caps = p[r].caps
          /\ s.mods = p[r].mods /\ s.next = p[r].next /\ s.moe = p[r].moe
      BY <3>0 DEF RankStates, Loaded, Own
    <3> HIDE DEF s
    <3>2. Sound(env, r, s)
      BY <3>0, <3>1 DEF Sound, Whole, CapsOwn, LeafOwn, ModSound, Settled
    <3> QED
      BY <1>0, <2>2, <3>1, <3>2, GoesSound DEF s, Whole
  <2> QED
    BY <1>9, <2>1, <2>2, ShardLoads
<1>10. ASSUME NEW r \in Ranks, AttachSparse(r)
       PROVE  LoadInv'
  <2>1. PICK x \in Probed(p[r].dg), path \in {"official", "torch", "fi"} :
          Goes(r, [p[r] EXCEPT !.pc = "gemm",
                               !.caps = IF p[r].flash THEN x[1] ELSE p[r].caps,
                               !.dg = x[2], !.armed = path])
    BY <1>10, RoutesTyped DEF AttachSparse
  <2> DEFINE s == [p[r] EXCEPT !.pc = "gemm",
                               !.caps = IF p[r].flash THEN x[1] ELSE p[r].caps,
                               !.dg = x[2], !.armed = path]
  <2>2. p[r] \in RankStates /\ Sound(env, r, p[r]) /\ p[r].pc = "sparse"
    BY <1>10, <1>a DEF AttachSparse
  <2>3. /\ s.pc = "gemm" /\ s.plan = p[r].plan /\ s.held = p[r].held
        /\ s.patched = p[r].patched /\ s.good = p[r].good
        /\ s.fiOff = p[r].fiOff /\ s.leaf = p[r].leaf /\ s.caps \in {x[1], p[r].caps}
        /\ s.mods = p[r].mods /\ s.next = p[r].next /\ s.moe = p[r].moe
    BY <2>2 DEF RankStates
  <2> HIDE DEF s
  <2>4. CapsOwn(env, s)
    BY <2>2, <2>3, ProbedOwn DEF CapsOwn, Sound
  <2>5. Sound(env, r, s)
    BY <2>2, <2>3, <2>4 DEF Sound, Whole, LeafOwn, ModSound, Late, Settled
  <2> QED
    BY <1>0, <2>1, <2>3, <2>5, GoesSound DEF s
<1>11. ASSUME NEW r \in Ranks, AttachDeepGemm(r)
       PROVE  LoadInv'
  <2>0. PICK d \in (IF env.dgOn THEN DgProbe(p[r].dg) ELSE {p[r].dg}), importable \in BOOLEAN :
          Goes(r, [p[r] EXCEPT !.pc = "loaded", !.dg = d,
                               !.patched = env.dgOn /\ d = "yes" /\ importable])
    BY <1>11 DEF AttachDeepGemm
  <2> DEFINE b == env.dgOn /\ d = "yes" /\ importable
  <2>1. /\ Goes(r, [p[r] EXCEPT !.pc = "loaded", !.dg = d, !.patched = b])
        /\ b => d = "yes"
    BY <2>0
  <2> HIDE DEF b
  <2> DEFINE s == [p[r] EXCEPT !.pc = "loaded", !.dg = d, !.patched = b]
  <2>2. p[r] \in RankStates /\ Sound(env, r, p[r]) /\ p[r].pc = "gemm"
    BY <1>11, <1>a DEF AttachDeepGemm
  <2>3. /\ s.pc = "loaded" /\ s.plan = p[r].plan /\ s.held = p[r].held
        /\ s.patched = b /\ s.dg = d /\ s.good = p[r].good
        /\ s.fiOff = p[r].fiOff /\ s.leaf = p[r].leaf /\ s.caps = p[r].caps
        /\ s.mods = p[r].mods /\ s.next = p[r].next /\ s.moe = p[r].moe
    BY <2>2 DEF RankStates
  <2> HIDE DEF s
  <2>4. Sound(env, r, s)
    BY <2>1, <2>2, <2>3 DEF Sound, Whole, CapsOwn, LeafOwn, ModSound, Late, Settled
  <2> QED
    BY <1>0, <2>1, <2>3, <2>4, GoesSound DEF s
<1>12. ASSUME NEW r \in Ranks, Attend(r)
       PROVE  LoadInv'
  <2>1. ASSUME NEW leaf, NEW good, NEW off, Served(r, leaf, good, off),
               good, off => leaf \notin FiLeaves,
               leaf = "fi_sm100" => env.major = 10,
               leaf = "fi_sm120" => env.major = 12 /\ "sparse120" \in env.lib
        PROVE  LoadInv'
    <3> DEFINE s == [p[r] EXCEPT !.leaf = leaf, !.good = good, !.fiOff = off]
    <3>2. p[r] \in RankStates /\ Sound(env, r, p[r])
      BY <1>a
    <3>3. /\ s.pc = p[r].pc /\ s.plan = p[r].plan /\ s.held = p[r].held
          /\ s.patched = p[r].patched /\ s.dg = p[r].dg /\ s.good = good
          /\ s.fiOff = off /\ s.leaf = leaf /\ s.caps = p[r].caps
          /\ s.mods = p[r].mods /\ s.next = p[r].next /\ s.moe = p[r].moe
      BY <3>2 DEF RankStates
    <3> HIDE DEF s
    <3>4. Sound(env, r, s)
      BY <2>1, <3>2, <3>3 DEF Sound, Whole, CapsOwn, LeafOwn, ModSound
    <3> QED
      BY <1>0, <2>1, <3>3, <3>4, GoesSound DEF s, Served
  <2>2. FiUsable(r) =>
          LET leaf == SparseMla(p[r].caps, env.force)
          IN  /\ leaf = "fi_sm100" => env.major = 10
              /\ leaf = "fi_sm120" => env.major = 12 /\ "sparse120" \in env.lib
    BY <1>a DEF Sound, CapsOwn, SparseMla, ArchOf, NoCaps
  <2> QED
    BY <1>12, <2>1, <2>2 DEF Attend, FiLeaves, FiUsable
<1> QED
  BY <1>1, <1>2, <1>3, <1>4, <1>5, <1>6, <1>7, <1>8, <1>9, <1>10, <1>11, <1>12, <1>13, <1>14,
     RankZero DEF NextLoad, RankStep

----------------------------------------------------------------------------
(* The safety properties *)

\* Processes start with it.
LEMMA FreshSound ==
  ASSUME InitLoad
  PROVE  LoadInv
<1> USE LoadAssumption
<1>1. LoadTypeOK
  BY FreshTyped
<1>2. ASSUME NEW r \in Ranks
      PROVE  Sound(env, r, p[r])
  <2>1. p[r] = Fresh
    BY <1>2 DEF InitLoad
  <2>2. \A m \in Mods : Fresh.mods[m] = FreshMod
    BY DEF Fresh
  <2>3. \A m \in Mods : ModSound(Fresh, m)
    BY <2>2 DEF ModSound, FreshMod
  <2>4. Sound(env, r, Fresh)
    BY <2>3 DEF Sound, CapsOwn, LeafOwn, Fresh, Late, Settled, FiLeaves
  <2> QED
    BY <2>1, <2>4
<1> QED
  BY <1>1, <1>2 DEF LoadInv, InitLoad

\* The invariant that carries the five properties below: what a rank has attached,
\* patched and loaded fits the stage of its load it has come to.
THEOREM LoadSound == SpecLoad => []LoadInv
<1>1. InitLoad => LoadInv
  BY FreshSound
<1>2. LoadInv /\ [NextLoad]_loadVars => LoadInv'
  <2>1. LoadInv /\ UNCHANGED loadVars => LoadInv'
    BY DEF LoadInv, LoadTypeOK, loadVars
  <2> QED
    BY <2>1, SoundStep
<1> QED
  BY <1>1, <1>2, PTL DEF SpecLoad

\* Whatever the world size, the checkpoint and the configuration files, READY means
\* that every expert is held by exactly one rank, the one whose plan
\* (build_tp_shard_plan) says so.
THEOREM ReadyWhole == SpecLoad => []ReadyMeansWhole
<1>1. LoadInv => ReadyMeansWhole
  <2> SUFFICES ASSUME LoadInv, ready, IsV4
               PROVE  /\ \A r \in Ranks : p[r].held = p[r].plan
                      /\ \A x \in Experts : \E r \in Ranks : x \in p[r].held
                      /\ \A r, q \in Ranks : r # q => p[r].held \cap p[q].held = {}
    BY DEF ReadyMeansWhole
  <2> USE LoadAssumption
  <2>1. \A r \in Ranks : p[r].plan = Own(r) /\ p[r].held = Own(r)
    BY DEF LoadInv, Whole, IsV4
  <2>2. \A x \in Experts : \E r \in Ranks : x \in Own(r)
    BY ShardsCover DEF Experts, Ranks, Own
  <2>3. \A r, q \in Ranks : r # q => Own(r) \cap Own(q) = {}
    BY ShardsDisjoint DEF Ranks, Own
  <2> HIDE DEF Own
  <2> QED
    BY <2>1, <2>2, <2>3
<1> QED
  BY <1>1, LoadSound, PTL

\* No environment makes a decode run on the FlashInfer leaf of another compute
\* capability (select_sparse_mla_backend, sparse_mla_decode_dsv4).
THEOREM LeafOfOwnArch == SpecLoad => []OwnArchLeaf
<1>1. LoadInv => OwnArchLeaf
  BY DEF LoadInv, Sound, LeafOwn, OwnArchLeaf
<1> QED
  BY <1>1, LoadSound, PTL

\* A FlashInfer output that was zero or not finite is never used, and the leaf is
\* not called again (the routed sparse_attn of v4_sparse_mla.py).
THEOREM LeafRetired == SpecLoad => []BadLeafRetired
<1>1. LoadInv => BadLeafRetired
  BY DEF LoadInv, Sound, BadLeafRetired
<1> QED
  BY <1>1, LoadSound, PTL

\* For any number of expert modules, a fused forward finds its weights in its own
\* order, through any number of fallbacks from trtllm to cutlass (attach_fused_moe).
THEOREM LayoutsMatch == SpecLoad => []LayoutMatchesForward
<1>1. LoadInv => LayoutMatchesForward
  BY DEF LoadInv, Sound, ModSound, LayoutMatchesForward
<1> QED
  BY <1>1, LoadSound, PTL

\* kernel.fp4_gemm is never DeepGEMM in a process whose last probe failed
\* (probe_deep_gemm_sm120, attach_v4_deep_gemm).
THEOREM GemmUsable == SpecLoad => []GemmBacked
<1>1. LoadInv => GemmBacked
  BY DEF LoadInv, Sound, GemmBacked
<1> QED
  BY <1>1, LoadSound, PTL

\* What computes is a kernel of the device's own family that works, in every
\* environment and after every failed probe.
THEOREM KernelsUsable == SpecLoad => []KernelsTrusted
<1>1. OwnArchLeaf /\ BadLeafRetired /\ GemmBacked => KernelsTrusted
  BY DEF KernelsTrusted
<1> QED
  BY <1>1, LeafOfOwnArch, LeafRetired, GemmUsable, PTL

====
