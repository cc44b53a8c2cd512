----------------------------- MODULE Eligibility ------------------------------
(***************************************************************************)
(* Who may be introduced to whom: the age of a member and the criteria two *)
(* members have registered for each other.  A day is a date of the         *)
(* business time zone.  A city stands for all its spellings, and the       *)
(* multi-valued criteria are sets, which is what Normalize makes of them.  *)
(***************************************************************************)
EXTENDS Integers

CONSTANT City

Gender        == {"male", "female"}
MaritalStatus == {"single", "divorced", "widowed"}
Education     == {"high_school", "college", "bachelor", "master", "doctor"}

EducationRank == [high_school |-> 1, college |-> 2, bachelor |-> 3, master |-> 4, doctor |-> 5]

AtLeast(level, minimum) == EducationRank[level] >= EducationRank[minimum]

Day == [year : Nat, month : 1..12, day : 1..31]

ProfileType    == [gender : Gender, born : Day, city : City, marital : MaritalStatus,
                   education : Education, enrolled : {"onboarding", "active", "paused", "retired"}]
PreferenceType == [seeking : Gender, minAge : Int, maxAge : Int, cities : SUBSET City,
                   maritals : SUBSET MaritalStatus, minEducation : Education]

(* Preference.Validate, for a record of the right types.                     *)
Valid(p) ==
  /\ 18 <= p.minAge /\ p.minAge <= p.maxAge /\ p.maxAge <= 90
  /\ p.cities # {}
  /\ p.maritals # {}

(* The birthday of this year is still to come.                               *)
BeforeBirthday(born, at) ==
  at.month < born.month \/ (at.month = born.month /\ at.day < born.day)

(* Completed years; a birth date in the future counts as zero.               *)
AgeAt(born, at) ==
  LET age == at.year - born.year - (IF BeforeBirthday(born, at) THEN 1 ELSE 0)
  IN  IF age < 0 THEN 0 ELSE age

Accepts(p, candidate, at) ==
  /\ candidate.gender = p.seeking
  /\ AgeAt(candidate.born, at) \in p.minAge..p.maxAge
  /\ candidate.city \in p.cities
  /\ candidate.marital \in p.maritals
  /\ AtLeast(candidate.education, p.minEducation)

Matchable(profile) == profile.enrolled = "active"

(* Of two different members; both directions must be acceptable.             *)
MutuallyEligible(left, leftPreference, right, rightPreference, at) ==
  /\ Matchable(left) /\ Matchable(right)
  /\ Accepts(leftPreference, right, at)
  /\ Accepts(rightPreference, left, at)
===============================================================================
