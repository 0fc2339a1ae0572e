------------------------------- MODULE Values -------------------------------
(***************************************************************************)
(* Addresses (common/rascal_aton.cc, common/rascal_ntoa.cc) and moments    *)
(* (common/util/ftspec.cc), as operators.                                  *)
(*                                                                         *)
(* The text of an address is a sequence of numbers, each for a run of      *)
(* digits, and separators.  How a number is written in digits, and the     *)
(* room for the text, are left out.                                        *)
(***************************************************************************)
EXTENDS Integers, Sequences, SequencesExt, FiniteSetsExt

CONSTANTS Wrap            \* one more than the largest unsigned int: 2^32 in the code

ASSUME ValueAssumption == Wrap \in Nat /\ Wrap >= 65536

Stop  == -1
Slash == -2
Other == -3               \* any other character

Numbered(t, i, most) == i \in 1 .. Len(t) /\ t[i] >= 0 /\ t[i] % Wrap <= most
Value(t, i)          == t[i] % Wrap                                  \* getseg
Rest(t, i)           == SubSeq(t, i, Len(t))

Octets  == 1 .. 4
Refused == [ok |-> FALSE, addr |-> << >>, mask |-> << >>]

\* The mask with n leading ones, from the octets with 0 .. 8 of them.
Leading   == <<0, 128, 192, 224, 240, 248, 252, 254, 255>>
Prefix(n) == [k \in Octets |-> Leading[1 + Max({0, Min({8, n - 8 * (k - 1)})})]]

\* A mask that is written as an address.  It may end after any octet: those
\* that are missing keep the value they had before, 255.
DottedMask(t) ==
  LET ends == {k \in Octets : Len(t) = 2 * k - 1} \cup {4}
      n    == Min(ends)
  IN  IF /\ \A k \in 1 .. n : Numbered(t, 2 * k - 1, 255)
         /\ \A k \in 1 .. n : Len(t) # 2 * k - 1 => Len(t) >= 2 * k /\ t[2 * k] = Stop
      THEN [k \in Octets |-> IF k <= n THEN Value(t, 2 * k - 1) ELSE 255] ELSE << >>

\* rascal_aton.  An address may be shorter than four octets if a mask follows.
Aton(t) ==
  LET n    == Min({k \in Octets : Len(t) < 2 * k \/ t[2 * k] # Stop} \cup {4})
      left == Rest(t, IF Len(t) >= 2 * n /\ t[2 * n] = Stop THEN 2 * n + 1 ELSE 2 * n)
      addr == [k \in Octets |-> IF k <= n THEN Value(t, 2 * k - 1) ELSE 0]
      With(mask) == IF mask = << >> THEN Refused ELSE [ok |-> TRUE, addr |-> addr, mask |-> mask]
  IN  IF \E k \in 1 .. n : ~Numbered(t, 2 * k - 1, 255) THEN Refused
      ELSE IF left = << >> THEN IF n = 4 THEN With(Prefix(32)) ELSE Refused
      ELSE IF left[1] # Slash THEN Refused
      ELSE IF Contains(Tail(left), Stop) THEN With(DottedMask(Tail(left)))
      ELSE IF Numbered(left, 2, 32) THEN With(Prefix(Value(left, 2)))
      ELSE Refused

\* rascal_ntoa
Ntoa(addr) == <<addr[1], Stop, addr[2], Stop, addr[3], Stop, addr[4]>>

----------------------------------------------------------------------------
(* ftspec: seconds and milliseconds, both unsigned.                        *)

Moment(ms)   == [sec |-> ms \div 1000, msec |-> ms % 1000]
Mseconds(a)  == (a.sec * 1000 + a.msec) % Wrap
Plus(a, b)   == [sec |-> (a.sec + b.sec + (a.msec + b.msec) \div 1000) % Wrap,
                 msec |-> (a.msec + b.msec) % 1000]

\* Faulty: nothing is borrowed from the seconds.
MinusPlain(a, b) == [sec |-> (a.sec - b.sec) % Wrap,
                     msec |-> IF a.msec < b.msec THEN a.msec + 1000 - b.msec ELSE a.msec - b.msec]

Minus(a, b)  == IF a.msec < b.msec
                THEN [sec |-> (a.sec - b.sec - 1) % Wrap, msec |-> a.msec + 1000 - b.msec]
                ELSE [sec |-> (a.sec - b.sec) % Wrap, msec |-> a.msec - b.msec]
Before(a, b) == a.sec < b.sec \/ (a.sec = b.sec /\ a.msec < b.msec)
=============================================================================
