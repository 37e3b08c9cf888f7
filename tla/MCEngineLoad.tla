---- MODULE MCEngineLoad ----
(* Environments of EngineLoad: V4 with every sparse setting, V4 with every state of *)
(* the converted checkpoint, HF models with every MoE setting, and the model gate.  *)
EXTENDS EngineLoad

Plain == [name |-> "v4", type |-> "v4", fixture |-> FALSE, local |-> TRUE,
          v4only |-> TRUE, stubOk |-> FALSE, cuda |-> TRUE, major |-> 12,
          lib |-> {"fi", "sparse120", "dg"}, numProbe |-> FALSE,
          raw |-> "unset", force |-> FALSE, disable |-> FALSE, dgOn |-> TRUE,
          converted |-> TRUE, cfgN |-> 4, hfN |-> 4,
          exact |-> {0, 1}, plain |-> {}, plainMp |-> 2,
          fused |-> "auto", graph |-> TRUE, moe |-> "auto", forceHf |-> FALSE]

SparseEnvs ==
  { [Plain EXCEPT !.major = m, !.lib = l, !.numProbe = np, !.raw = w, !.force = f,
                  !.disable = d, !.dgOn = f] :
      m \in {9, 10, 12}, l \in {{"fi", "sparse120", "dg"}, {"fi", "dg"}, {}},
      np \in BOOLEAN, f \in BOOLEAN, d \in BOOLEAN,
      w \in {"unset", "official", "torch", "fi", "flashinfer", "auto"} }

ShardEnvs ==
  { [Plain EXCEPT !.raw = "official", !.converted = c, !.cfgN = n, !.hfN = h,
                  !.exact = x, !.plain = y, !.plainMp = mp] :
      c \in BOOLEAN, n \in {0, 3, 4}, h \in {3, 4}, x \in {{}, {0}, {0, 1}},
      y \in {{}, {0, 1}}, mp \in {2, 4} }

HfEnvs ==
  { [Plain EXCEPT !.name = "moe", !.type = "moe", !.v4only = FALSE, !.major = m,
                  !.lib = {"fi"} \cup l, !.fused = f, !.moe = b, !.forceHf = h] :
      m \in {9, 10}, l \in SUBSET {"cutlass", "sgl", "trtllm"}, f \in {"on", "auto"},
      b \in {"auto", "cutlass", "sgl", "trtllm"}, h \in BOOLEAN }

GateEnvs ==
  { [Plain EXCEPT !.name = n, !.type = t, !.fixture = x, !.local = l, !.v4only = v,
                  !.stubOk = x, !.cuda = FALSE, !.raw = "official"] :
      n \in {"v4", "moe", "other", "stub"}, t \in {"v4", "moe", "dense"},
      x \in BOOLEAN, l \in BOOLEAN, v \in BOOLEAN }

AllEnvs == SparseEnvs \cup ShardEnvs \cup HfEnvs \cup GateEnvs
====
