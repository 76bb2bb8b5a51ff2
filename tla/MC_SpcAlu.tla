------------------------------ MODULE MC_SpcAlu -----------------------------
(* SpcAlu for TLC: the programs and the operands they are run on: every value
   next to a digit's, a nibble's, a sign's or a byte's end, and every pair of
   decimal digits. *)
EXTENDS SpcAlu

Edge == {0, 1, 5, 9, 10, 15, 16, 25, 31, 96, 100, 127, 128, 129, 144, 153, 154,
         159, 160, 200, 240, 249, 254, 255}
Bcd == {v \in Byte : v % 16 <= 9 /\ v \div 16 <= 9}
EdgeWord == {256 * hi + lo : hi \in {0, 1, 15, 16, 127, 128, 255},
                             lo \in {0, 1, 127, 255}}

Zeros == [progs |-> {}, a |-> {0}, x |-> {0}, y |-> {0}, psw |-> {0},
          m |-> {0}, w |-> {0}]

BytePairs(values) == [Zeros EXCEPT !.a = values, !.m = values, !.psw = {0, 1}]
DecimalSuite == [BytePairs(Bcd) EXCEPT
  !.progs = {<<"ADC", "DAA">>, <<"SBC", "DAS">>, <<"CMP">>}]
EdgeSuite == [BytePairs(Edge) EXCEPT
  !.progs = {<<"ADC", "PUSH PSW", "POP PSW">>, <<"SBC", "PUSH PSW", "POP PSW">>,
             <<"CMP">>}]

WordSuite == [Zeros EXCEPT
  !.progs = {<<"ADDW">>, <<"SUBW">>, <<"CMPW">>},
  !.a = {0, 1, 127, 255}, !.y = {0, 1, 15, 16, 127, 128, 255},
  !.psw = {9}, !.w = EdgeWord]

DivSuite == [Zeros EXCEPT
  !.progs = {<<"DIV", "PUSH PSW", "POP PSW">>, <<"MUL", "DIV">>},
  !.a = Edge, !.x = Edge, !.y = Edge]

ShiftSuite == [Zeros EXCEPT
  !.progs = {<<"ROL", "ROR">>, <<"ROR", "ROL">>, <<"ASL">>, <<"LSR">>},
  !.a = Byte, !.psw = {0, 1}]

PswSuite == [Zeros EXCEPT
  !.progs = {<<"PUSH PSW", "POP PSW">>, <<"NOTC", "NOTC", "PUSH PSW">>,
             <<"NOTC", "PUSH PSW">>, <<"BRK", "POP PSW">>}
              \cup {<<op, "PUSH PSW", "POP PSW">> :
                     op \in {"CLRC", "SETC", "CLRV", "CLRP", "SETP", "EI", "DI"}},
  !.psw = Byte]

BitSuite == [BytePairs(Edge) EXCEPT
  !.progs = {<<"OR">>, <<"AND">>, <<"EOR">>, <<"TEST">>}]
StepSuite == [Zeros EXCEPT
  !.progs = {<<"INC", "DEC">>, <<"DEC", "INC">>, <<"XCN", "XCN">>},
  !.a = Byte, !.psw = {0, 1}]
StepWordSuite == [Zeros EXCEPT
  !.progs = {<<"INCW", "ADDW">>, <<"DECW", "SUBW">>, <<"MOVW">>},
  !.a = {0, 1, 255}, !.y = {0, 127, 255}, !.psw = {0, 1}, !.w = EdgeWord]

AllSuites ==
  {DecimalSuite, EdgeSuite, WordSuite, DivSuite, ShiftSuite, PswSuite,
   BitSuite, StepSuite, StepWordSuite}
=============================================================================
