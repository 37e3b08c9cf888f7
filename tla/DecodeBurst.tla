---- MODULE DecodeBurst ----
(***************************************************************************)
(* What EngineLoop does with the tokens of one sequence: the stop and      *)
(* limit checks, the text that is streamed, and the same for a decode      *)
(* burst, which generates several tokens before it looks at any of them.   *)
(* Operators only; TPLockstep drives them.                                 *)
(*                                                                         *)
(* A token is a number, its text is one character, the number itself; the  *)
(* EOS token has no text (detokenize skips special tokens).  The empty     *)
(* finish_reason is "none".                                                *)
(***************************************************************************)
EXTENDS Integers, Sequences, SequencesExt, FiniteSetsExt

CONSTANTS Eos,         \* the stop token
          Window,      \* tokens that detokenize_delta decodes on its fast path (12)
          Resync,      \* every so many tokens it decodes everything (16)
          StopString,  \* the characters of a stop string, <<>> for none
          Burst        \* SGLANG_LITE_DECODE_BURST

ASSUME BurstAssumption == {Window, Resync, Burst} \subseteq Nat \ {0}

\* detokenize
Text(out) == SelectSeq(out, LAMBDA t : t # Eos)

Last12(out) == SubSeq(out, Max({1, Len(out) - Window + 1}), Len(out))

\* The part of full that prev does not have yet; nothing when full has been
\* streamed already or shares no beginning with prev.
Beyond(full, prev) ==
  LET common == Max({k \in 0..Min({Len(full), Len(prev)}) :
                       SubSeq(full, 1, k) = SubSeq(prev, 1, k)})
  IN  IF common = 0 /\ prev # <<>> THEN <<>>
      ELSE SubSeq(full, common + 1, Len(full))

\* detokenize_delta: the longest beginning of the window's text that ends prev
\* is taken for the overlap.
DetokenizeDelta(out, prev) ==
  LET suffix == Text(Last12(out))
      fits   == {k \in 1..Min({Len(prev), Len(suffix)}) : IsSuffix(SubSeq(suffix, 1, k), prev)}
      fast   == Len(out) > 1 /\ Len(out) % Resync # 0
  IN  CASE out = <<>> -> <<>>
        [] out # <<>> /\ fast /\ fits # {} -> SubSeq(suffix, Max(fits) + 1, Len(suffix))
        [] out # <<>> /\ fast /\ fits = {} /\ prev = <<>> -> suffix
        [] OTHER -> Beyond(Text(out), prev)

\* Where the stop string first begins in the text, 0 if nowhere.
StopAt(text) ==
  LET starts == {i \in 1..Len(text) :
                   StopString # <<>> /\ IsPrefix(StopString, SubSeq(text, i, Len(text)))}
  IN  IF starts = {} THEN 0 ELSE Min(starts)

\* Tokens are popped until the text is no longer than the n characters kept, or
\* none is left.
Trimmed(out, n) ==
  SubSeq(out, 1, Max({0} \cup {k \in 1..Len(out) : Len(Text(SubSeq(out, 1, k))) <= n}))

\* _apply_stop_and_limits, with the checks in their order: cancelled, limit
\* exceeded, limit reached, stop token, stop string.
ApplyStopAndLimits(out, tok, prev, limit, cancelled) ==
  LET kept(o, why) == [out |-> o, fin |-> why, delta |-> DetokenizeDelta(o, prev)]
  IN  CASE cancelled -> [out |-> out, fin |-> "cancelled", delta |-> <<>>]
        [] ~ cancelled /\ Len(out) > limit -> kept(Front(out), "length")
        [] ~ cancelled /\ Len(out) = limit -> kept(out, "length")
        [] ~ cancelled /\ Len(out) < limit /\ tok = Eos ->
             kept(IF Last(out) = tok THEN Front(out) ELSE out, "stop")
        [] ~ cancelled /\ Len(out) < limit /\ tok # Eos /\ StopAt(Text(out)) > 0 ->
             kept(Trimmed(out, StopAt(Text(out)) - 1), "stop")
        [] OTHER -> kept(out, "none")

\* The frame of one token, after the checks a, and the text then known to have
\* been sent: pump_once and _run.
OneToken(a, prev) ==
  [out |-> a.out, fin |-> a.fin, text |-> a.delta,
   prev |-> IF a.delta # <<>> \/ a.fin = "none" THEN prev \o a.delta ELSE Text(a.out)]

\* Mutants: max_tokens without the token that run_batch has produced; no burst size.
BurstExtraOneMore(n, limit) == Min({Max({0, limit - n}), Burst - 1})
BurstExtraUncapped(n, limit) == Max({0, limit - n - 1})

\* Tokens that a burst may add to a sequence that has n: max_tokens and the burst
\* size both count the first one, which run_batch has produced.
BurstExtra(n, limit) == Min({Max({0, limit - n - 1}), Burst - 1})

\* The same for a token of a burst; acc is the text of the burst's frame so far.
\* The checks ran over a list that holds the later tokens of the burst too.
BurstToken(a, prev, acc) ==
  LET grow == a.delta # <<>> \/ a.fin = "none"
  IN  [out |-> a.out, fin |-> a.fin,
       text |-> IF grow THEN acc \o a.delta ELSE Text(a.out),
       prev |-> IF grow THEN prev \o a.delta ELSE Text(a.out)]
====
