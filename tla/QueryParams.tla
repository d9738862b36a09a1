---------------------------- MODULE QueryParams -----------------------------
(***************************************************************************)
(* Integer query parameters, as the endpoint groups read them.  A          *)
(* parameter is Absent, Malformed (no number), Overflow (a number that is  *)
(* too large for an int) or an integer.  strconv.Atoi returns an error for *)
(* the two in the middle, and some handlers look only at the integer it    *)
(* returns with it.                                                        *)
(***************************************************************************)
EXTENDS Integers

CONSTANTS Absent, Malformed, Overflow

NotInt == {Malformed, Overflow}

ASSUME ParamAssumption ==
  /\ {Absent, Malformed, Overflow} \cap Int = {}
  /\ Absent \notin NotInt /\ Malformed # Overflow

\* The integer Atoi returns, whether or not with an error; an absent parameter is
\* the empty string.
Atoi(raw, maxInt) ==
  CASE raw \in {Absent, Malformed} -> 0
    [] raw = Overflow -> maxInt
    [] OTHER -> raw

\* Err stands for the error that becomes a 400.
Err == -1

positiveDefault(raw, def) ==
  CASE raw = Absent -> def
    [] raw \in NotInt -> Err
    [] OTHER -> IF raw < 1 THEN Err ELSE raw

nonNegativeDefault(raw, def) ==
  CASE raw = Absent -> def
    [] raw \in NotInt -> Err
    [] OTHER -> IF raw < 0 THEN Err ELSE raw

boundedDefault(raw, def, upper) ==
  CASE raw = Absent -> def
    [] raw \in NotInt -> Err
    [] OTHER -> IF raw < 1 \/ raw > upper THEN Err ELSE raw
=============================================================================
