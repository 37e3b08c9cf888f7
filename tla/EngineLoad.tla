---- MODULE EngineLoad ----
(***************************************************************************)
(* How the ranks of an engine come up: each probes its kernels, passes the *)
(* model gate, loads (an HF model whole, DeepSeek-V4 by shard), arms the   *)
(* optional kernels, whose failures are caught and skipped, and takes part *)
(* in the warm-up, after which rank 0 is READY.  Then its attention leaf   *)
(* is called, and may turn out to be bad.                                  *)
(*                                                                         *)
(* Joining the process group and the warm-up of V4 are collectives.  A     *)
(* rank that raises dies; torchrun then ends the others.  A worker whose   *)
(* warm-up forward raises does not die: it leaves rank 0 in the forward.   *)
(***************************************************************************)
EXTENDS KernelRouting

CONSTANTS World,        \* WORLD_SIZE
          Mods,         \* expert modules of an HF model, 1..n in named_modules order
          Envs,         \* what the process may be started with and on
          TrueExperts,  \* experts of the V4 checkpoint
          PlanDefault,  \* n_routed_experts a plan assumes when no config says (256)
          ArgsDefault   \* n_routed_experts of ModelArgs (8)

ASSUME LoadAssumption ==
  /\ World \in Nat \ {0} /\ Mods \subseteq Nat
  /\ {TrueExperts, PlanDefault, ArgsDefault} \subseteq Nat \ {0}
  /\ Divides(World, TrueExperts) /\ ArgsDefault # TrueExperts

Ranks == 0..(World - 1)

VARIABLES env,    \* the environment, an element of Envs
          p,      \* [Ranks -> the state of the rank's process]
          ready   \* rank 0's READY

loadVars == <<env, p, ready>>

----------------------------------------------------------------------------
\* An expert module: the order of gate and up in its weights, its forward, the
\* order its own copy was made from, and whether a constructor raised after it
\* had rewritten the weights in place.
FreshMod == [layout |-> "gate_up", fwd |-> "hf", copy |-> "none", spoiled |-> FALSE]

Fresh == [pc |-> "start", flash |-> FALSE, caps |-> NoCaps, dg |-> "unknown",
          patched |-> FALSE, paged |-> TRUE, hooked |-> FALSE,
          moe |-> "none", next |-> 1, mods |-> [m \in Mods |-> FreshMod],
          plan |-> {}, held |-> {}, armed |-> "official", fiOff |-> FALSE,
          leaf |-> "none", good |-> TRUE]

InitLoad == /\ env \in Envs
            /\ p = [r \in Ranks |-> Fresh]
            /\ ready = FALSE

Goes(r, s) == /\ p' = [p EXCEPT ![r] = s]
              /\ UNCHANGED <<env, ready>>

Dead(r) == p[r].pc = "failed"

IsV4 == GateOf(env) = "check"

----------------------------------------------------------------------------
(* Probing *)

\* probe_deep_gemm_sm120: a failed import or a failed GEMM is remembered in _DG_OK
\* and never tried again.
DgProbe(dg) ==
  CASE ~ env.cuda -> {dg}
    [] dg = "no" \/ "dg" \notin env.lib -> {"no"}
    [] OTHER -> {"yes", "no"}

\* probe_kernel_capabilities: pairs of what is declared and _DG_OK.
Probed(dg) ==
  LET arch   == ArchOf(env.major)
      sparse == {"fi", "sparse120"} \subseteq env.lib
      nums   == IF env.numProbe /\ arch = "sm120" /\ sparse THEN {"yes", "no"} ELSE {"none"}
      dgs    == IF arch = "sm120" THEN DgProbe(dg) ELSE {dg}
  IN  IF ~ env.cuda THEN {<<NoCaps, dg>>}
      ELSE {[arch |-> arch, sparse |-> sparse, num |-> n] : n \in nums} \X dgs

\* create_kernel_backend: FlashInfer, or torch with the capabilities of a CPU.
Start(r) ==
  /\ p[r].pc = "start"
  /\ LET flash == env.cuda /\ "fi" \in env.lib
     IN  \E x \in Probed(p[r].dg) :
           Goes(r, [p[r] EXCEPT !.pc = "gate", !.flash = flash,
                                !.caps = IF flash THEN x[1] ELSE NoCaps,
                                !.dg = x[2]])

\* Mutant: a refused model is not an error.
GateWaits(r) ==
  /\ p[r].pc = "gate" /\ GateOf(env) # "failed"
  /\ Goes(r, [p[r] EXCEPT !.pc = IF GateOf(env) = "stub" THEN "loaded" ELSE GateOf(env)])

Gate(r) ==
  /\ p[r].pc = "gate"
  /\ Goes(r, [p[r] EXCEPT !.pc = IF GateOf(env) = "stub" THEN "loaded" ELSE GateOf(env)])

\* Whatever a load does outside its try blocks may raise: the kernel workspace,
\* the tokenizer, the weights, a missing graph.  main logs it and the process ends.
LoadRaises(r) ==
  /\ p[r].pc \in {"start", "gate", "hf", "check", "shard"}
  /\ Goes(r, [p[r] EXCEPT !.pc = "failed"])

----------------------------------------------------------------------------
(* An HF model *)

\* The weights, the choice between paged and HF caches (MLA, MiniMax and some GQA
\* ratios cannot be paged), and the attention hooks.
LoadHf(r) ==
  /\ p[r].pc = "hf"
  /\ \E unpageable \in BOOLEAN :
       LET paged == ~ env.forceHf /\ ~ unpageable
       IN  Goes(r, [p[r] EXCEPT
             !.paged = paged, !.hooked = paged /\ p[r].flash,
             !.moe = IF MoeWanted(env) THEN MoeChosen(env, env.moe) ELSE "none",
             !.pc = "moe"])

Swap(layout) == IF layout = "gate_up" THEN "up_gate" ELSE "gate_up"

\* CutlassExpertsFn (and SglExpertsFn around it): the weights are rewritten in
\* place, then the module's forward is replaced.  It may raise before and after.
CutlassHook(mod) ==
  { [mod EXCEPT !.layout = Swap(@), !.fwd = "cutlass"],
    mod,
    [mod EXCEPT !.layout = Swap(@), !.spoiled = TRUE] }

\* Mutant: the weights are packed in place here too.
TrtllmHookInPlace(mod) ==
  [mod EXCEPT !.layout = Swap(@), !.fwd = "trtllm", !.copy = mod.layout]

\* TrtllmExpertsFn makes a shuffled copy of its own.
TrtllmHook(mod) == [mod EXCEPT !.fwd = "trtllm", !.copy = mod.layout]

\* attach_fused_moe, one expert module.  A trtllm hook that raises starts the
\* whole attachment again with cutlass; any other failure skips the module.
HookMod(r) ==
  /\ p[r].pc = "moe" /\ p[r].moe # "none" /\ p[r].next \in Mods
  /\ LET m == p[r].next
         done(mod) == [p[r] EXCEPT !.mods[m] = mod, !.next = m + 1]
     IN  IF p[r].moe = "trtllm"
         THEN \/ Goes(r, done(TrtllmHook(p[r].mods[m])))
              \/ IF MoeAvailable(env, "cutlass")
                 THEN Goes(r, [p[r] EXCEPT !.moe = "cutlass", !.next = 1])
                 ELSE Goes(r, done(p[r].mods[m]))
         ELSE \E mod \in CutlassHook(p[r].mods[m]) : Goes(r, done(mod))

\* torch.compile, the native decode body and the compile warm-up are optional and
\* catch their errors; then the model counts as verified.
FinishHf(r) ==
  /\ p[r].pc = "moe" /\ (p[r].moe = "none" \/ p[r].next \notin Mods)
  /\ Goes(r, [p[r] EXCEPT !.pc = "loaded"])

----------------------------------------------------------------------------
(* DeepSeek-V4 *)

CheckV4(r) ==
  /\ p[r].pc = "check"
  /\ Goes(r, [p[r] EXCEPT !.pc = IF env.converted /\ World >= 2 THEN "group" ELSE "failed"])

\* ensure_tp_process_group: init_process_group returns when every rank has called it.
JoinGroup ==
  /\ \A r \in Ranks : p[r].pc = "group"
  /\ p' = [r \in Ranks |-> [p[r] EXCEPT !.pc = "shard"]]
  /\ UNCHANGED <<env, ready>>

\* Mutant: a rank without a file of its own takes rank 0's.
FindShardAnyRank(r) ==
  CASE r \in env.exact -> {<<World, r>>}
    [] OTHER           -> {<<World, 0>>}

\* find_rank_shard: the file named for this rank and this world size, else the one
\* named for the rank alone, whatever world size it was converted for.
FindShard(r) ==
  CASE r \in env.exact -> {<<World, r>>}
    [] r \in env.plain -> {<<env.plainMp, r>>}
    [] OTHER           -> {}

\* load_v4_hybrid_model: the plan, the model and its weights.  The plan counts the
\* experts of the HF config when the inference config does not say, the model then
\* those of ModelArgs.  load_model is not strict about names, but a tensor of
\* another shape raises, which any other world size or expert count has.
LoadShard(r) ==
  /\ p[r].pc = "shard"
  /\ LET planned == IF env.cfgN = 0 THEN {PlanDefault, env.hfN} ELSE {env.cfgN}
         planN   == IF env.cfgN = 0 THEN env.hfN ELSE env.cfgN
         modelN  == IF env.cfgN = 0 THEN ArgsDefault ELSE env.cfgN
         files   == FindShard(r)
         fits    == /\ \A n \in planned \cup {modelN} : Divides(World, n)
                    /\ modelN = TrueExperts
                    /\ \E f \in files : f[1] = World
     IN  IF fits
         THEN \E f \in files :
                Goes(r, [p[r] EXCEPT
                  !.pc = "sparse", !.plan = ShardOf(World, r, planN),
                  !.held = ShardOf(World, r, modelN) \cap ShardOf(f[1], f[2], TrueExperts)])
         ELSE Goes(r, [p[r] EXCEPT !.pc = "failed"])

\* The capabilities are probed again and the sparse attention is routed; an
\* exception on the way leaves the official kernel.
AttachSparse(r) ==
  /\ p[r].pc = "sparse"
  /\ \E x \in Probed(p[r].dg) :
       LET caps == IF p[r].flash THEN x[1] ELSE p[r].caps
       IN  \E path \in {SparsePath(env, caps), "official"} :
             Goes(r, [p[r] EXCEPT !.pc = "gemm", !.caps = caps, !.dg = x[2],
                                  !.armed = path])

\* Mutant: what an earlier probe found is good enough.
AttachDeepGemmUnprobed(r) ==
  /\ p[r].pc = "gemm"
  /\ \E d \in (IF env.dgOn THEN DgProbe(p[r].dg) ELSE {p[r].dg}) :
       Goes(r, [p[r] EXCEPT !.pc = "loaded", !.dg = d,
                            !.patched = env.dgOn /\ p[r].dg = "yes"])

\* attach_v4_moe_fast changes the dispatch only, attach_v4_b12x nothing;
\* attach_v4_deep_gemm probes once more and replaces kernel.fp4_gemm, if kernel can
\* be imported.  Then the model counts as verified.
AttachDeepGemm(r) ==
  /\ p[r].pc = "gemm"
  /\ \E d \in (IF env.dgOn THEN DgProbe(p[r].dg) ELSE {p[r].dg}), importable \in BOOLEAN :
       Goes(r, [p[r] EXCEPT !.pc = "loaded", !.dg = d,
                            !.patched = env.dgOn /\ d = "yes" /\ importable])

----------------------------------------------------------------------------
(* Warm-up, serving, and the end *)

\* _warmup of V4: rank 0's broadcast, and a forward whose all_reduces every rank
\* takes part in; then main sets READY.
WarmUp ==
  /\ IsV4 /\ \A r \in Ranks : p[r].pc = "loaded"
  /\ p' = [r \in Ranks |-> [p[r] EXCEPT !.pc = "serving"]]
  /\ ready' = TRUE
  /\ UNCHANGED env

\* Every rank has come to the broadcast of V4's warm-up.
WarmingUp == \A r \in Ranks : p[r].pc \in {"loaded", "stray"}

\* Rank 0 finds an error in the frames of its warm-up request, and raises.
WarmFails ==
  /\ p[0].pc = "loaded" /\ GateOf(env) # "stub"
  /\ IsV4 => WarmingUp
  /\ Goes(0, [p[0] EXCEPT !.pc = "failed"])

\* The forward raises on a worker: pump_once turns the exception into a frame
\* nobody reads, pump_until_idle returns, and the worker goes on to its worker
\* loop, while the others are still in the collectives of the forward.
WarmSwallowed(r) ==
  /\ r # 0 /\ p[r].pc = "loaded"
  /\ IsV4 /\ WarmingUp
  /\ Goes(r, [p[r] EXCEPT !.pc = "stray"])

\* No other model makes a process group: rank 0 warms up by itself (a stub not at
\* all), ...
WarmAlone ==
  /\ p[0].pc = "loaded" /\ ~ IsV4
  /\ p' = [p EXCEPT ![0].pc = "serving"]
  /\ ready' = TRUE
  /\ UNCHANGED env

\* ... and broadcast_obj gives the other ranks None, which fails the assertion of
\* their warm-up and, with a stub, ends their worker loop.
NoBroadcast(r) ==
  /\ r # 0 /\ p[r].pc = "loaded" /\ ~ IsV4
  /\ Goes(r, [p[r] EXCEPT !.pc = IF GateOf(env) = "stub" THEN "left" ELSE "failed"])

\* torchrun ends the other ranks when one has failed.
Teardown(r) ==
  /\ ~ Dead(r) /\ \E q \in Ranks : Dead(q)
  /\ Goes(r, [p[r] EXCEPT !.pc = "failed"])

Served(r, leaf, good, off) ==
  Goes(r, [p[r] EXCEPT !.leaf = leaf, !.good = good, !.fiOff = off])

FiUsable(r) == /\ p[r].armed = "fi" /\ ~ p[r].fiOff
               /\ ~ LeafRaises(p[r].caps, env.force)

\* Mutant: the leaf is given up, after its output has been used.
AttendFirst(r) ==
  /\ p[r].pc = "serving" /\ IsV4
  /\ \/ Served(r, "official", TRUE, p[r].fiOff)
     \/ /\ FiUsable(r)
        /\ \E good \in BOOLEAN : Served(r, SparseMla(p[r].caps, env.force), good, ~ good)

\* sparse_attn as the model calls it.  A prefill, and any exception, goes to the
\* official kernel; FlashInfer's output is looked at before it is used, and a zero
\* or non-finite one ends its use in this process.
Attend(r) ==
  /\ p[r].pc = "serving" /\ IsV4
  /\ \/ Served(r, "official", TRUE, p[r].fiOff)
     \/ p[r].armed = "torch" /\ Served(r, "torch", TRUE, p[r].fiOff)
     \/ /\ FiUsable(r)
        /\ \E good \in BOOLEAN :
             IF good THEN Served(r, SparseMla(p[r].caps, env.force), good, p[r].fiOff)
                     ELSE Served(r, "official", TRUE, TRUE)

----------------------------------------------------------------------------
RankStep(r) ==
  \/ Start(r) \/ Gate(r) \/ LoadHf(r) \/ HookMod(r) \/ FinishHf(r)
  \/ CheckV4(r) \/ LoadShard(r) \/ AttachSparse(r) \/ AttachDeepGemm(r)
  \/ NoBroadcast(r)

NextLoad ==
  \/ \E r \in Ranks : \/ RankStep(r) \/ LoadRaises(r) \/ WarmSwallowed(r)
                      \/ Teardown(r) \/ Attend(r)
  \/ JoinGroup \/ WarmUp \/ WarmFails \/ WarmAlone

\* A rank's code runs on; collectives complete when every rank is there, and
\* torchrun notices a failed rank.
SpecLoad ==
  /\ InitLoad /\ [][NextLoad]_loadVars
  /\ \A r \in Ranks : WF_loadVars(RankStep(r)) /\ WF_loadVars(Teardown(r))
  /\ WF_loadVars(JoinGroup) /\ WF_loadVars(WarmUp) /\ WF_loadVars(WarmAlone)

----------------------------------------------------------------------------
(* Properties *)

Layouts == {"gate_up", "up_gate"}
ModStates == [layout : Layouts, fwd : {"hf", "cutlass", "trtllm"},
              copy : Layouts \cup {"none"}, spoiled : BOOLEAN]
CapStates == [arch : {"unknown", "sm80", "sm90", "sm100", "sm120"},
              sparse : BOOLEAN, num : {"none", "yes", "no"}]
Stages == {"start", "gate", "hf", "moe", "check", "group", "shard", "sparse", "gemm",
           "loaded", "stray", "serving", "left", "failed"}
Experts == 0..(TrueExperts - 1)
RankStates ==
  [pc : Stages, flash : BOOLEAN, caps : CapStates, dg : {"unknown", "yes", "no"},
   patched : BOOLEAN, paged : BOOLEAN, hooked : BOOLEAN,
   moe : {"none", "cutlass", "sgl", "trtllm"}, next : Nat, mods : [Mods -> ModStates],
   plan : SUBSET Experts, held : SUBSET Experts,
   armed : {"official", "torch", "fi"}, fiOff : BOOLEAN,
   leaf : {"none", "official", "torch"} \cup FiLeaves, good : BOOLEAN]

\* Type invariant; the ranges of a plan and of a shard lie within the checkpoint's.
LoadTypeOK == p \in [Ranks -> RankStates] /\ ready \in BOOLEAN

\* capability.py: "Never treat SM120 as SM100": whatever the device, the libraries
\* and the environment variables, the FlashInfer leaf that computes a decode is the
\* one for the device's own compute capability.
OwnArchLeaf ==
  \A r \in Ranks : /\ p[r].leaf = "fi_sm100" => env.major = 10
                   /\ p[r].leaf = "fi_sm120" => env.major = 12 /\ "sparse120" \in env.lib

\* A zero or non-finite FlashInfer output is never what the model goes on with, and
\* after one the leaf is never called again in that process.
BadLeafRetired ==
  \A r \in Ranks : p[r].good /\ (p[r].fiOff => p[r].leaf \notin FiLeaves)

\* READY means that the whole checkpoint is there: with V4, every expert is held by
\* exactly one rank and by the one whose plan says so, although each rank finds its
\* file and counts the experts on its own and load_model is not strict.
ReadyMeansWhole ==
  ready /\ IsV4 =>
    /\ \A r \in Ranks : p[r].held = p[r].plan
    /\ \A x \in Experts : \E r \in Ranks : x \in p[r].held
    /\ \A r, q \in Ranks : r # q => p[r].held \cap p[q].held = {}

\* A fused MoE forward reads its weights in the order they are in, and a module that
\* keeps the HF forward has the order HF wrote, also when trtllm is given up half
\* way and cutlass starts again.  The exception is a constructor that raises after
\* it has rewritten the weights (moe_hooks.py:175-187).
LayoutMatchesForward ==
  \A r \in Ranks, m \in Mods :
    LET mod == p[r].mods[m]
    IN  /\ mod.fwd = "cutlass" => mod.layout = "up_gate"
        /\ mod.fwd = "trtllm" => mod.copy = "gate_up"
        /\ mod.fwd = "hf" /\ ~ mod.spoiled => mod.layout = "gate_up"

\* kernel.fp4_gemm is only replaced by DeepGEMM while the library is usable: three
\* probes may disagree, and the replacement raises at every call once _DG_OK is off.
GemmBacked == \A r \in Ranks : p[r].patched => p[r].dg = "yes"

\* The kernels an environment can choose, whatever was probed, forced or has failed:
\* the FlashInfer attention leaf is of the device's own family, one that returned
\* zeros or NaN is given up, and fp4_gemm is DeepGEMM only while its probe holds.
\* The MoE kernels (trtllm is taken for any major >= 10) are not among them.
KernelsTrusted == OwnArchLeaf /\ BadLeafRetired /\ GemmBacked

\* Rank 0 is in the warm-up's forward, which a worker has left.
WaitsForStray == p[0].pc = "loaded" /\ \E r \in Ranks : p[r].pc = "stray"

\* Loading ends: all ranks serve (a stub's workers leave), or all are gone, with one
\* exception: a worker's failed warm-up forward, which nothing reports, leaves rank
\* 0 waiting in a collective.  No other failure of a rank, at any stage and in any
\* order, leaves one behind.
LoadEnds ==
  <>(\/ \A r \in Ranks : p[r].pc \in {"serving", "left"}
     \/ \A r \in Ranks : Dead(r)
     \/ WaitsForStray)

====
