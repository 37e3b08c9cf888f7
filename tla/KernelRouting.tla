---- MODULE KernelRouting ----
(***************************************************************************)
(* The decisions the engine takes at load time, as functions of what it    *)
(* found: which architecture family a device belongs to, which sparse      *)
(* attention leaf and which fused MoE kernel it may use, whether a model   *)
(* may be loaded at all, and which experts a rank owns.  An environment is *)
(* a record e of what the process was started with (see EngineLoad).       *)
(***************************************************************************)
EXTENDS Integers

\* Mutant: everything from 10.0 up is one family.
ArchOfTens(major) ==
  CASE major = 8 -> "sm80" [] major = 9 -> "sm90" [] major >= 10 -> "sm100"
    [] OTHER -> "unknown"

ArchOf(major) ==
  CASE major = 8 -> "sm80" [] major = 9 -> "sm90" [] major = 10 -> "sm100"
    [] major = 12 -> "sm120" [] OTHER -> "unknown"

NoCaps == [arch |-> "unknown", sparse |-> FALSE, num |-> "none"]

FiLeaves == {"fi_sm120", "fi_sm100"}

\* select_sparse_mla_backend; the environment is read again at every call.
SparseMla(caps, force) ==
  CASE caps.arch = "sm120" -> IF caps.sparse /\ (force \/ caps.num = "yes")
                              THEN "fi_sm120" ELSE "official"
    [] caps.arch = "sm100" -> "fi_sm100"
    [] caps.arch \in {"sm80", "sm90"} -> "fi_mla"
    [] OTHER -> "none"

\* sparse_mla_decode_dsv4, called with FlashInfer's arguments: everything but a
\* FlashInfer leaf of the device's own family raises.
LeafRaises(caps, force) ==
  LET leaf == SparseMla(caps, force)
  IN  leaf \notin FiLeaves \/ (leaf = "fi_sm100" /\ caps.arch = "sm120")

----------------------------------------------------------------------------
(* SGLANG_LITE_V4_SPARSE is read twice, with two defaults. *)

\* _sparse_backend_preference
Preference(raw) ==
  CASE raw \in {"official", "torch", "fi", "auto"} -> raw
    [] raw = "flashinfer" -> "fi"
    [] OTHER -> "official"

\* attach_v4_sparse_mla: FORCE wins over every preference.
Attached(e, caps) ==
  LET pref == Preference(e.raw)
  IN  CASE pref \in {"torch", "auto"} /\ ~ e.force -> "torch"
        [] (pref = "fi" \/ e.force) /\ SparseMla(caps, e.force) \in FiLeaves -> "fi"
        [] OTHER -> "official"

\* _load_deepseek_v4_hybrid: DISABLE_FI holds back an explicit "fi" only.
SparsePath(e, caps) ==
  LET pref == IF e.raw = "unset" THEN "auto" ELSE e.raw
  IN  IF pref \in {"official", "tilelang"} \/ (e.disable /\ pref \in {"fi", "flashinfer"})
      THEN "official" ELSE Attached(e, caps)

----------------------------------------------------------------------------
(* Fused MoE of the HF models *)

MoeAvailable(e, b) ==
  CASE b = "cutlass" -> {"fi", "cutlass"} \subseteq e.lib
    [] b = "sgl"     -> "sgl" \in e.lib
    [] b = "trtllm"  -> {"fi", "trtllm"} \subseteq e.lib /\ e.cuda /\ e.major >= 10
    [] OTHER         -> FALSE

\* resolve_moe_backend and the head of attach_fused_moe
MoeChosen(e, b) ==
  CASE b # "auto" /\ MoeAvailable(e, b) -> b
    [] b \in {"auto", "sgl", "trtllm"} /\ MoeAvailable(e, "cutlass") -> "cutlass"
    [] b = "auto" /\ MoeAvailable(e, "sgl") -> "sgl"
    [] b = "auto" /\ MoeAvailable(e, "trtllm") -> "trtllm"
    [] OTHER -> "none"

\* maybe_attach_fused_moe
MoeWanted(e) == e.fused = "on" \/ (e.fused = "auto" /\ ~ e.forceHf /\ e.graph)

----------------------------------------------------------------------------
(* The model gate *)

\* _resolve_family: the type the caller knows, then the local config, then the name.
Family(e, t) ==
  CASE e.fixture -> "moe"
    [] t \in {"v4", "moe"} -> t
    [] t = "none" /\ e.local /\ e.type \in {"v4", "moe"} -> e.type
    [] OTHER -> e.name

\* assert_moe_supported
Supported(e, t) ==
  Family(e, t) \in (IF e.v4only /\ ~ e.fixture THEN {"v4"} ELSE {"v4", "moe"})

\* The head of ModelRunner.__init__ and of _load_real: how the model is loaded.
\* What looks like V4 by name alone is read from disk, so that it must be local.
GateOf(e) ==
  CASE e.name = "stub" -> IF e.stubOk THEN "stub" ELSE "failed"
    [] ~ Supported(e, "none") \/ ~ Supported(e, e.type) -> "failed"
    [] Family(e, "none") = "v4" /\ ~ e.local -> "failed"
    [] "v4" \in {Family(e, e.type), e.type} -> "check"
    [] OTHER -> "hf"

----------------------------------------------------------------------------
(* The placement of experts on ranks *)

Divides(world, n) == n % world = 0

\* Mutant: the range of the next rank.
ShardOfNext(world, rank, n) ==
  LET k == n \div world IN ((rank + 1) * k)..((rank + 2) * k - 1)

\* build_tp_shard_plan; convert.py and the model's MoE layers split the same way.
ShardOf(world, rank, n) ==
  LET k == n \div world IN (rank * k)..(rank * k + k - 1)

====
