----------------------------- MODULE Negotiation ----------------------------
(***************************************************************************)
(* Protocol negotiation: a peer offers a range of protocol versions and    *)
(* negotiate_protocol answers with the current version or says why not.    *)
(* Pure definitions; Session has the handshake that calls it.              *)
(* Releases move: PROTOCOL_MAJOR and PROTOCOL_MINOR are 1 and 0 at this    *)
(* commit, and the algorithm is written for any.                           *)
(***************************************************************************)
EXTENDS Integers

CONSTANTS
  PROTOCOL_MAJOR,
  PROTOCOL_MINOR,
  Missing      \* an absent protobuf field

ASSUME VersionAssumption ==
  PROTOCOL_MAJOR \in Nat /\ PROTOCOL_MINOR \in Nat

Version == [major : Nat, minor : Nat]

ASSUME MissingAssumption == Missing \notin Version

\* current_protocol_version
Current == [major |-> PROTOCOL_MAJOR, minor |-> PROTOCOL_MINOR]

\* Rust's order of tuples
Less(v, w) == v.major < w.major \/ (v.major = w.major /\ v.minor < w.minor)

\* The comparison a struct of two numbers invites.
NegotiateByNumber(range) ==
  CASE range.minimum = Missing -> "MissingMinimum"
    [] range.minimum # Missing /\ range.maximum = Missing -> "MissingMaximum"
    [] range.minimum # Missing /\ range.maximum # Missing /\ Less(range.maximum, range.minimum)
         -> "InvertedRange"
    [] OTHER ->
         IF Current.major \notin range.minimum.major .. range.maximum.major
         THEN "IncompatibleMajor"
         ELSE IF Current.minor \notin range.minimum.minor .. range.maximum.minor
         THEN "IncompatibleMinor" ELSE "Ok"

\* negotiate_protocol; "Ok" stands for the current version
Negotiate(range) ==
  IF range.minimum = Missing THEN "MissingMinimum"
  ELSE IF range.maximum = Missing THEN "MissingMaximum"
  ELSE IF Less(range.maximum, range.minimum) THEN "InvertedRange"
  ELSE IF Current.major < range.minimum.major \/ Current.major > range.maximum.major
  THEN "IncompatibleMajor"
  ELSE IF Less(Current, range.minimum) \/ Less(range.maximum, Current)
  THEN "IncompatibleMinor"
  ELSE "Ok"

\* supported_protocol_range
SupportedRange == [minimum |-> Current, maximum |-> Current]

-----------------------------------------------------------------------------
(* What an answer promises, in terms of the versions a range contains.  Every
   version between the two ends is meant, whatever its minor number. *)

Includes(range, v) == ~Less(v, range.minimum) /\ ~Less(range.maximum, v)

Bounded(range) == range.minimum # Missing /\ range.maximum # Missing

Justified(range, answer) ==
  /\ (answer \in {"MissingMinimum", "MissingMaximum"}) <=> ~Bounded(range)
  /\ Bounded(range) =>
       /\ (answer = "Ok") <=> Includes(range, Current)
       /\ (answer = "InvertedRange") <=> ~Includes(range, range.minimum)
       /\ (answer = "IncompatibleMajor") <=>
            /\ Includes(range, range.minimum)
            /\ \A v \in {range.minimum, range.maximum,
                         [major |-> PROTOCOL_MAJOR, minor |-> 0]} :
                 v.major = PROTOCOL_MAJOR => ~Includes(range, v)

=============================================================================
