--------------------------- MODULE EncoderContext ---------------------------
(***************************************************************************)
(* The configuration of an MPP encoder: src/src/utils/mpp/encoderContext.cpp. *)
(* applyConfig() writes a configuration key by key into the handle mCfg,   *)
(* sends two settings straight to the encoder and hands over mCfg at the   *)
(* end; every call may fail.  A key that a configuration does not name     *)
(* keeps what an earlier one has left there.                               *)
(*                                                                         *)
(* A configuration is its codec, a size, a rate control mode, a rate, and  *)
(* the settings that are optional: 0 and -1 leave them out.                *)
(***************************************************************************)
EXTENDS Integers, Sequences, FiniteSets

CONSTANTS
  Configs,         (* records [codec, width, mode, rate, idr, colour]        *)
  NoConfig,        (* what the encoder has before the first                  *)
  MaxResets        (* bound on the calls of resetConfig()                    *)

Codecs == {"h264", "h265", "vp8", "mjpeg"}

ASSUME EncoderContextAssumption ==
  /\ \A c \in Configs : c.codec \in Codecs /\ c.width \in Int /\ c.idr \in Int /\ c.colour \in Int
  /\ NoConfig \notin Configs /\ MaxResets \in Nat

VARIABLES
  mCtx,            \* "none" before the constructor, "made" or "failed" after it
  mCurCfg, mCfg,   \* mCurCfg; the keys of the handle mCfg
  encoder,         \* the settings in effect in the encoder
  applied,         \* the configuration last accepted by MPP_ENC_SET_CFG
  resets           \* counts resetConfig()

contextVars == <<mCtx, mCurCfg, mCfg, encoder, applied, resets>>

Keys == {"prep", "mode", "rate", "range", "idr", "quality", "type", "codec", "colour"}
Controls == {"sei", "header"}
Unset == <<>>

ContextInit ==
  /\ mCtx = "none" /\ mCurCfg = NoConfig /\ applied = NoConfig /\ resets = 0
  /\ mCfg = [k \in Keys |-> Unset]
  /\ encoder = [k \in Keys \cup Controls |-> Unset]

\* A size that is no size; strides and polling limits are tested in the same way.
ValidateConfig(c) == c.width > 0

Setting(key, value, by) == <<[key |-> key, value |-> <<value>>, by |-> by]>>
When(condition, settings) == IF condition THEN settings ELSE <<>>

\* The rate, its range unless the quantiser is fixed, and the forced IDR frames.
Rates(c) ==
  Setting("rate", c.rate, "cfg")
    \o When(c.mode # "fixqp", Setting("range", c.rate, "cfg"))
    \o When(c.idr > 0, Setting("idr", c.idr, "optional"))

\* The quantiser, or the quality of a JPEG; then the codec and its profile.
Quality(c) == Setting("quality", <<c.codec, c.mode, c.rate>>, "cfg")
Codec(c) ==
  Setting("type", c.codec, "cfg")
    \o When(c.codec \in {"h264", "h265"}, Setting("codec", c.codec, "cfg"))

\* What goes to the encoder at once.
Streaming(c) ==
  Setting("sei", c.codec, "control")
    \o When(c.codec \in {"h264", "h265"}, Setting("header", c.codec, "control"))

\* applyConfig: its calls in their order, but for the last.
Settings(c) ==
  Setting("prep", c.width, "cfg")
    \o Setting("mode", c.mode, "cfg")
    \o When(c.codec # "mjpeg", Rates(c))
    \o Quality(c)
    \o Codec(c)
    \o When(c.codec # "mjpeg", Streaming(c))
    \o When(c.colour >= 0, Setting("colour", c.colour, "optional"))

\* The values of f after the calls `made` of these settings, as far as they are of these kinds.
Overridden(f, settings, made, kinds) ==
  [k \in DOMAIN f |->
     IF \E i \in made : settings[i].key = k /\ settings[i].by \in kinds
     THEN settings[CHOOSE i \in made : settings[i].key = k].value
     ELSE f[k]]

\* Mutant: an error of a single key is only logged.
HandedOverAnyway(settings, n) == TRUE

\* MPP_ENC_SET_CFG is called when every call before it has succeeded.
HandedOver(settings, n) == n = Len(settings)

\* applyConfig: the first n calls succeed, or are optional and skipped; then
\* one fails, or all have succeeded and `accept` says whether SET_CFG does.
ApplyConfig(c) ==
  \E n \in 0 .. Len(Settings(c)), accept \in BOOLEAN :
    /\ n < Len(Settings(c)) => Settings(c)[n + 1].by # "optional"
    /\ \E skipped \in SUBSET {i \in 1 .. n : Settings(c)[i].by = "optional"} :
         LET made == (1 .. n) \ skipped
             direct == Overridden(encoder, Settings(c), made, {"control"})
         IN /\ mCfg' = Overridden(mCfg, Settings(c), made, {"cfg", "optional"})
            /\ IF HandedOver(Settings(c), n) /\ accept
               THEN /\ encoder' = [k \in DOMAIN encoder |->
                                     IF k \in Keys THEN mCfg'[k] ELSE direct[k]]
                    /\ applied' = c
               ELSE encoder' = direct /\ applied' = applied

\* The constructor, with init(): each of its library calls may fail.
Construct(c) ==
  /\ mCtx = "none"
  /\ mCurCfg' = c
  /\ \/ mCtx' = "failed" /\ UNCHANGED <<mCfg, encoder, applied>>
     \/ ValidateConfig(c) /\ mCtx' = "made" /\ ApplyConfig(c)
  /\ UNCHANGED resets

ResetConfig(c) ==
  /\ mCtx # "none"
  /\ IF ~ValidateConfig(c) THEN UNCHANGED <<mCurCfg, mCfg, encoder, applied>>
     ELSE /\ mCurCfg' = c
          /\ IF mCtx = "made" THEN ApplyConfig(c) ELSE UNCHANGED <<mCfg, encoder, applied>>
  /\ UNCHANGED mCtx

ContextNext ==
  \E c \in Configs :
    \/ Construct(c)
    \/ resets < MaxResets /\ resets' = resets + 1 /\ ResetConfig(c)

-----------------------------------------------------------------------------
\* The encoder works with one configuration: whatever attempts have failed
\* before, at any of their calls, every key that the configuration accepted
\* last has to set has that configuration's value.
OneConfiguration ==
  applied # NoConfig =>
    LET settings == Settings(applied)
    IN \A i \in DOMAIN settings :
         settings[i].by = "cfg" => encoder[settings[i].key] = settings[i].value

=============================================================================
