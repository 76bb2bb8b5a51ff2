------------------------------ MODULE DspRates ------------------------------
(***************************************************************************)
(* What times the envelopes and the noise: a counter that starts at CntInit *)
(* and loses, at each update, the number that its rate has in a table.      *)
(***************************************************************************)
EXTENDS Integers

CntInit == 30720                \* CNT_INIT

(* ENVCNT: what an update takes off the counter, for each rate. *)
EnvCnt == <<0, 15, 20, 24, 30, 40, 48, 60, 80, 96, 120, 160, 192, 240, 320, 384,
            480, 640, 768, 960, 1280, 1536, 1920, 2560, 3072, 3840, 5120, 6144,
            7680, 10240, 15360, 30720>>
Rate(r) == EnvCnt[r + 1]
=============================================================================
