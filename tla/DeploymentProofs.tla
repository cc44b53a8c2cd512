---------------------------- MODULE DeploymentProofs ----------------------------
(***************************************************************************)
(* Any number of processes, builds, versions and plans: what a process has *)
(* found or made in the database is still there when it relies on it,      *)
(* because migrations, plans and the account are only ever added.          *)
(***************************************************************************)
EXTENDS Deployment, TLAPS

Stage == {"down", "closed"} \cup Starting \cup Up

ProcessType ==
  [stage : Stage, build : Builds \cup {<<>>}, read : [Version -> Checksum \cup {Absent}],
   next : Nat, asked : BOOLEAN, stopped : BOOLEAN,
   listener : {"none", "open", "closed", "failed"}, loops : SUBSET Loops, requests : Nat,
   hurried : BOOLEAN]

TypeOK ==
  /\ applied \in [Version -> Checksum \cup {Absent}]
  /\ plan \in [Seeds -> {"absent", "seeded", "tuned"}]
  /\ admins \in {0, 1}
  /\ proc \in [Process -> ProcessType]
  /\ alone \subseteq Process

(* The migrations of the build below n are in the schema.                    *)
MigratedBelow(r, n) == \A v \in DOMAIN r.build : v < n => applied[v] = r.build[v]

(* What was read as applied is applied: rows are never removed.              *)
ReadTrue(r) == \A v \in Version : r.read[v] # Absent => applied[v] = r.read[v]

Migrating(r) ==
  /\ r.stage # "down" => r.build \in Builds
  /\ r.stage = "migrating" => r.next > 0 /\ MigratedBelow(r, r.next) /\ ReadTrue(r)
  /\ r.stage \notin {"down", "opened", "migrating"} =>
       \A v \in DOMAIN r.build : applied[v] = r.build[v]

Seeding(r) ==
  /\ r.stage \in {"seeding", "planting"} =>
       /\ r.next > 0
       /\ \A k \in DOMAIN PlanCodes : k < r.next => plan[PlanCodes[k]] # "absent"
  /\ r.stage = "planting" => r.next \in DOMAIN PlanCodes
  /\ r.stage \in {"admin", "registering", "closed"} \cup Up => \A c \in Seeds : plan[c] # "absent"
  /\ r.stage \in Up => (BootstrapEnabled => admins = 1)

(* The listener is closed before the process waits for its loops.            *)
Stopping(r) ==
  /\ r.stage \in {"shutdown", "waiting", "closed"} => r.listener # "open"
  /\ r.stage \in {"waiting", "closed"} => (r.requests > 0 => r.hurried)
  /\ r.stage = "closed" => r.loops = {} /\ r.listener \in {"closed", "failed"}

(* A plan that an undisturbed start is about to write is still absent.       *)
Undisturbed(p) ==
  p \in alone /\ proc[p].stage = "planting" => plan[PlanCodes[proc[p].next]] = "absent"

IInv ==
  /\ TypeOK
  /\ \A p \in Process : Migrating(proc[p]) /\ Seeding(proc[p]) /\ Stopping(proc[p])
  /\ \A p \in Process : Undisturbed(p)
  /\ SchemaIsPrefix
-----------------------------------------------------------------------------

LEMMA BuildVersions ==
  ASSUME NEW b \in Builds
  PROVE  /\ b \in Seq(Checksum) /\ Len(b) \in Nat /\ DOMAIN b = 1..Len(b)
         /\ \A v \in DOMAIN b : v \in Version /\ v \in Nat /\ b[v] \in Checksum /\ b[v] # Absent
<1>1. PICK n \in 1..MaxVersion : b \in [1..n -> Checksum]
  BY DeploymentAssumption
<1>2. n \in Nat /\ MaxVersion \in Nat
  BY DeploymentAssumption
<1>3. b \in Seq(Checksum) /\ Len(b) = n
  BY <1>1, <1>2
<1> QED BY <1>1, <1>2, <1>3, DeploymentAssumption DEF Version

LEMMA PlanNumbers ==
  /\ DOMAIN PlanCodes = 1..Len(PlanCodes) /\ Len(PlanCodes) \in Nat
  /\ \A k \in DOMAIN PlanCodes : k \in Nat /\ k > 0 /\ PlanCodes[k] \in Seeds
  /\ \A c \in Seeds : \E k \in DOMAIN PlanCodes : c = PlanCodes[k]
BY DeploymentAssumption DEF Seeds

(* What is in the database stays there, and only one process moves.          *)
Grown ==
  /\ \A v \in Version : applied[v] # Absent => applied'[v] = applied[v]
  /\ \A c \in Seeds : plan[c] # "absent" => plan'[c] # "absent"
  /\ admins = 1 => admins' = 1

(* What holds of a process, of the database and of the process itself.       *)
Sound(r) == Migrating(r) /\ Seeding(r) /\ Stopping(r)

(* A process that does not move keeps what it relies on.                     *)
LEMMA StillSound ==
  ASSUME Grown, NEW r \in ProcessType, Sound(r)
  PROVE  Sound(r)'
<1>1. Migrating(r) /\ Seeding(r) /\ Stopping(r)
  BY DEF Sound
<1>2. r.build = <<>> \/ r.build \in Builds
  BY DEF ProcessType
<1>3. \A v \in DOMAIN r.build : v \in Version /\ r.build[v] # Absent
  BY <1>2, BuildVersions
<1>4. /\ r.stage = "migrating" => MigratedBelow(r, r.next)' /\ ReadTrue(r)'
      /\ r.stage \notin {"down", "opened", "migrating"} =>
           \A v \in DOMAIN r.build : applied'[v] = r.build[v]
  BY <1>1, <1>3 DEF Migrating, MigratedBelow, ReadTrue, Grown
<1>5. \A k \in DOMAIN PlanCodes : PlanCodes[k] \in Seeds
  BY PlanNumbers
<1> QED BY <1>1, <1>4, <1>5 DEF Sound, Migrating, Seeding, Stopping, Grown

LEMMA SoundProcess ==
  ASSUME NEW q, NEW r, proc'[q] = r, Sound(r)'
  PROVE  Sound(proc[q])'
<1>1. Migrating(proc[q])'
  BY DEF Sound, Migrating, MigratedBelow, ReadTrue
<1>2. Seeding(proc[q])'
  BY DEF Sound, Seeding
<1>3. Stopping(proc[q])'
  BY DEF Sound, Stopping
<1> QED BY <1>1, <1>2, <1>3 DEF Sound

(* The step of one process, which becomes r.                                 *)
LEMMA OneMoves ==
  ASSUME IInv, Grown, NEW p \in Process, NEW r \in ProcessType,
         proc' = [proc EXCEPT ![p] = r], Sound(r)',
         alone' \subseteq {p},
         p \in alone' /\ r.stage = "planting" => plan'[PlanCodes[r.next]] = "absent",
         applied' \in [Version -> Checksum \cup {Absent}],
         plan' \in [Seeds -> {"absent", "seeded", "tuned"}],
         admins' \in {0, 1}, SchemaIsPrefix'
  PROVE  IInv'
<1>1. TypeOK /\ \A q \in Process : proc[q] \in ProcessType
  BY DEF IInv, TypeOK
<1>2. proc'[p] = r /\ \A q \in Process \ {p} : proc'[q] = proc[q]
  BY <1>1 DEF TypeOK
<1>3. proc' \in [Process -> ProcessType]
  BY <1>1 DEF TypeOK
<1>4. TypeOK'
  BY <1>3 DEF TypeOK
<1>5. ASSUME NEW q \in Process PROVE Sound(proc[q])'
  <2>1. CASE q = p
    BY <2>1, <1>2, SoundProcess
  <2>2. CASE q # p
    <3>1. PICK s \in ProcessType : s = proc[q]
      BY <1>1
    <3>2. Sound(s)
      BY <3>1 DEF IInv, Sound
    <3>3. Sound(s)' /\ proc'[q] = s
      BY <3>1, <3>2, <2>2, <1>2, StillSound
    <3> QED BY <3>3, SoundProcess
  <2> QED BY <2>1, <2>2
<1>6. ASSUME NEW q \in Process PROVE Undisturbed(q)'
  BY <1>2 DEF Undisturbed
<1> QED BY <1>4, <1>5, <1>6 DEF IInv, Sound

Database == <<applied, plan, admins>>

LEMMA DatabaseStill ==
  ASSUME IInv, UNCHANGED Database
  PROVE  /\ Grown /\ SchemaIsPrefix'
         /\ applied' = applied /\ plan' = plan /\ admins' = admins
         /\ applied' \in [Version -> Checksum \cup {Absent}]
         /\ plan' \in [Seeds -> {"absent", "seeded", "tuned"}]
         /\ admins' \in {0, 1}
<1>1. applied' = applied /\ plan' = plan /\ admins' = admins
  BY DEF Database
<1> QED BY <1>1 DEF IInv, TypeOK, Grown, SchemaIsPrefix

(* A step that touches the process alone and does not turn to a plan.        *)
LEMMA ProcessMoves ==
  ASSUME IInv, UNCHANGED Database, NEW p \in Process, NEW r \in ProcessType,
         proc' = [proc EXCEPT ![p] = r], Sound(r),
         alone' \subseteq {p}, p \in alone' => p \in alone,
         r.stage = "planting" => \/ plan[PlanCodes[r.next]] = "absent"
                                 \/ proc[p].stage = "planting" /\ r.next = proc[p].next
  PROVE  IInv'
<1>1. /\ Grown /\ SchemaIsPrefix' /\ plan' = plan
      /\ applied' \in [Version -> Checksum \cup {Absent}]
      /\ plan' \in [Seeds -> {"absent", "seeded", "tuned"}]
      /\ admins' \in {0, 1}
  BY DatabaseStill
<1>2. Sound(r)'
  BY <1>1, StillSound
<1>3. p \in alone' /\ r.stage = "planting" => plan'[PlanCodes[r.next]] = "absent"
  BY <1>1 DEF IInv, Undisturbed
<1> QED BY <1>1, <1>2, <1>3, OneMoves

LEMMA DownSound == Down \in ProcessType /\ Sound(Down) /\ Down.stage = "down"
<1>1. NoSchema \in [Version -> Checksum \cup {Absent}]
  BY DEF NoSchema
<1>2. Down \in ProcessType
  BY <1>1 DEF Down, ProcessType, Stage
<1> QED BY <1>2 DEF Down, Sound, Migrating, Seeding, Stopping, Starting, Up

LEMMA LeaveKeeps ==
  ASSUME IInv, UNCHANGED Database, NEW p \in Process, Leave(p), Disturb(p)
  PROVE  IInv'
<1>1. proc' = [proc EXCEPT ![p] = Down]
  BY DEF Leave
<1>2. alone' \subseteq {p} /\ (p \in alone' => p \in alone)
  BY DEF Disturb
<1> QED BY <1>1, <1>2, DownSound, ProcessMoves

LEMMA StartKeeps ==
  ASSUME IInv, NEW p \in Process, NEW b \in Builds, Start(p, b), alone' = {p}
  PROVE  IInv'
<1> DEFINE r == [Down EXCEPT !.stage = "opened", !.build = b]
<1>1. UNCHANGED Database /\ proc' = [proc EXCEPT ![p] = r]
  BY DEF Start, Database
<1>2. r \in ProcessType /\ r.stage = "opened" /\ r.build = b /\ r.listener = "none"
  BY NoSchema \in [Version -> Checksum \cup {Absent}]
     DEF Down, ProcessType, Stage, Starting, Up, NoSchema
<1>3. Sound(r)
  BY <1>2 DEF Sound, Migrating, Seeding, Stopping, Up
<1>4. /\ Grown /\ SchemaIsPrefix'
      /\ applied' \in [Version -> Checksum \cup {Absent}]
      /\ plan' \in [Seeds -> {"absent", "seeded", "tuned"}]
      /\ admins' \in {0, 1}
  BY <1>1, DatabaseStill
<1> HIDE DEF r
<1>5. Sound(r)'
  <2>1. PICK s \in ProcessType : s = r
    BY <1>2
  <2>2. Sound(s)
    BY <2>1, <1>3
  <2> QED BY <2>1, <2>2, <1>4, StillSound
<1> QED BY <1>1, <1>2, <1>4, <1>5, OneMoves

(* The steps of a start, by the record of the process that does them.        *)
LEMMA ReadAppliedKeeps ==
  ASSUME IInv, NEW p \in Process, ReadApplied(p), Disturb(p)
  PROVE  IInv'
<1>1. UNCHANGED Database /\ (Leave(p) \/ ~Leave(p))
  BY DEF ReadApplied, Database
<1>2. alone' \subseteq {p} /\ (p \in alone' => p \in alone)
  BY DEF Disturb
<1>3. CASE Leave(p)
  BY <1>1, <1>3, LeaveKeeps
<1>4. CASE ~Leave(p)
  <2>1. PICK s \in ProcessType : s = proc[p]
    BY DEF IInv, TypeOK
  <2>2. Sound(s) /\ s.stage = "opened"
    BY <2>1 DEF IInv, Sound, ReadApplied, At
  <2> DEFINE r == [s EXCEPT !.stage = "migrating", !.next = 1, !.read = applied]
  <2>3. proc' = [proc EXCEPT ![p] = r]
    BY <2>1, <1>4, Zenon DEF ReadApplied
  <2>4. r \in ProcessType /\ r.stage = "migrating" /\ r.next = 1 /\ r.read = applied
        /\ r.build = s.build /\ r.listener = s.listener
    BY DEF IInv, TypeOK, ProcessType, Stage, Starting
  <2>5. s.build \in Builds
    BY <2>2 DEF Sound, Migrating
  <2>6. \A v \in DOMAIN s.build : v \in Nat /\ v > 0
    BY <2>5, BuildVersions
  <2>7. Sound(r)
    BY <2>2, <2>4, <2>5, <2>6
       DEF Sound, Migrating, Seeding, Stopping, MigratedBelow, ReadTrue, Up
  <2> HIDE DEF r
  <2> QED BY <1>1, <1>2, <2>3, <2>4, <2>7, ProcessMoves
<1> QED BY <1>3, <1>4

(* Move leaves the record as it was, but for the place of the process.       *)
LEMMA Moved ==
  ASSUME IInv, NEW p \in Process, NEW stage, NEW next, Move(p, stage, next),
         NEW s \in ProcessType, s = proc[p], stage \in Stage, next \in Nat
  PROVE  \E r \in ProcessType :
           /\ proc' = [proc EXCEPT ![p] = r]
           /\ r.stage = stage /\ r.next = next /\ r.build = s.build
           /\ r.listener = s.listener /\ r.requests = s.requests
           /\ r.hurried = s.hurried /\ r.loops = s.loops
           /\ stage = "migrating" => r.read = s.read
<1> DEFINE r == [s EXCEPT !.stage = stage, !.next = next,
                          !.read = IF stage = "migrating" THEN s.read ELSE NoSchema]
<1>1. NoSchema \in [Version -> Checksum \cup {Absent}]
  BY DEF NoSchema
<1>2. r \in ProcessType
  BY <1>1 DEF ProcessType
<1>3. proc' = [proc EXCEPT ![p] = r]
  BY DEF Move
<1>4. /\ r.stage = stage /\ r.next = next /\ r.build = s.build
      /\ r.listener = s.listener /\ r.requests = s.requests
      /\ r.hurried = s.hurried /\ r.loops = s.loops
      /\ stage = "migrating" => r.read = s.read
  BY DEF ProcessType
<1> HIDE DEF r
<1> QED BY <1>2, <1>3, <1>4

LEMMA CheckAppliedKeeps ==
  ASSUME IInv, NEW p \in Process, CheckApplied(p), Disturb(p)
  PROVE  IInv'
<1>1. UNCHANGED Database
  BY DEF CheckApplied, Database
<1>2. alone' \subseteq {p} /\ (p \in alone' => p \in alone)
  BY DEF Disturb
<1>3. PICK s \in ProcessType : s = proc[p]
  BY DEF IInv, TypeOK
<1>4. Sound(s) /\ s.stage = "migrating" /\ s.next \in DOMAIN s.build /\ s.read[s.next] # Absent
  BY <1>3 DEF IInv, Sound, CheckApplied, At
<1>5. CASE Leave(p)
  BY <1>1, <1>5, LeaveKeeps
<1>6. CASE Agrees(p, s.next) /\ Move(p, "migrating", s.next + 1)
  <2>1. "migrating" \in Stage /\ s.next + 1 \in Nat
    BY DEF Stage, Starting, ProcessType
  <2>2. PICK r \in ProcessType :
           /\ proc' = [proc EXCEPT ![p] = r]
           /\ r.stage = "migrating" /\ r.next = s.next + 1 /\ r.build = s.build
           /\ r.listener = s.listener /\ r.requests = s.requests
           /\ r.hurried = s.hurried /\ r.loops = s.loops /\ r.read = s.read
    BY <1>3, <1>6, <2>1, Moved
  <2>3. s.build \in Builds
    BY <1>4 DEF Sound, Migrating
  <2>4. \A v \in DOMAIN s.build : v \in Nat /\ v \in Version
    BY <2>3, BuildVersions
  <2>5. applied[s.next] = s.build[s.next]
    BY <1>3, <1>4, <1>6, <2>4 DEF Agrees, Sound, Migrating, ReadTrue
  <2>6. MigratedBelow(s, s.next) /\ ReadTrue(s) /\ s.next > 0 /\ s.next \in Nat
    BY <1>4 DEF Sound, Migrating, ProcessType
  <2>7. MigratedBelow(r, r.next)
    BY <2>2, <2>4, <2>5, <2>6 DEF MigratedBelow
  <2>8. Sound(r)
    BY <1>4, <2>2, <2>3, <2>6, <2>7 DEF Sound, Migrating, Seeding, Stopping, ReadTrue, Up
  <2> QED BY <1>1, <1>2, <2>2, <2>8, ProcessMoves
<1> QED BY <1>3, <1>5, <1>6 DEF CheckApplied

LEMMA ApplyMigrationKeeps ==
  ASSUME IInv, NEW p \in Process, ApplyMigration(p), Disturb(p)
  PROVE  IInv'
<1>2. alone' \subseteq {p} /\ (p \in alone' => p \in alone)
  BY DEF Disturb
<1>3. PICK s \in ProcessType : s = proc[p]
  BY DEF IInv, TypeOK
<1>4. Sound(s) /\ s.stage = "migrating" /\ s.next \in DOMAIN s.build
  BY <1>3 DEF IInv, Sound, ApplyMigration, At
<1>5. CASE Leave(p) /\ UNCHANGED applied
  BY <1>5, LeaveKeeps DEF ApplyMigration, Database
<1>6. CASE /\ applied[s.next] = Absent
           /\ applied' = [applied EXCEPT ![s.next] = s.build[s.next]]
           /\ Move(p, "migrating", s.next + 1)
  <2>1. "migrating" \in Stage /\ s.next + 1 \in Nat
    BY DEF Stage, Starting, ProcessType
  <2>2. PICK r \in ProcessType :
           /\ proc' = [proc EXCEPT ![p] = r]
           /\ r.stage = "migrating" /\ r.next = s.next + 1 /\ r.build = s.build
           /\ r.listener = s.listener /\ r.requests = s.requests
           /\ r.hurried = s.hurried /\ r.loops = s.loops /\ r.read = s.read
    BY <1>3, <1>6, <2>1, Moved
  <2>3. s.build \in Builds
    BY <1>4 DEF Sound, Migrating
  <2>4. /\ \A v \in DOMAIN s.build : /\ v \in Nat /\ v \in Version
                                     /\ s.build[v] \in Checksum /\ s.build[v] # Absent
        /\ DOMAIN s.build = 1..Len(s.build) /\ Len(s.build) \in Nat
    BY <2>3, BuildVersions
  <2>5. MigratedBelow(s, s.next) /\ ReadTrue(s) /\ s.next > 0 /\ s.next \in Nat
    BY <1>4 DEF Sound, Migrating, ProcessType
  <2>6. applied \in [Version -> Checksum \cup {Absent}] /\ SchemaIsPrefix
    BY DEF IInv, TypeOK
  <2>7. /\ applied' \in [Version -> Checksum \cup {Absent}]
        /\ applied'[s.next] = s.build[s.next]
        /\ \A v \in Version : v # s.next => applied'[v] = applied[v]
    BY <1>4, <1>6, <2>4, <2>6
  <2>8. plan' = plan /\ admins' = admins
    BY DEF ApplyMigration
  <2>9. Grown
    BY <1>6, <2>7, <2>8 DEF Grown
  <2>10. \A w \in 1..(s.next - 1) : applied[w] # Absent
    BY <1>4, <2>4, <2>5 DEF MigratedBelow
  <2>11. \A v \in Version : v \in Nat
    BY DeploymentAssumption DEF Version
  <2>12. SchemaIsPrefix'
    <3> SUFFICES ASSUME NEW v \in Version, applied'[v] # Absent, NEW w \in 1..(v - 1)
                 PROVE  applied'[w] # Absent
      BY DEF SchemaIsPrefix
    <3>1. w \in Version /\ w \in Nat
      BY DeploymentAssumption DEF Version
    <3>2. applied[w] # Absent \/ w = s.next
      BY <2>6, <2>7, <2>10, <2>11 DEF SchemaIsPrefix
    <3> QED BY <1>4, <2>4, <2>7, <3>1, <3>2
  <2>13. MigratedBelow(r, r.next)'
    <3> SUFFICES ASSUME NEW v \in DOMAIN s.build, v < s.next + 1
                 PROVE  applied'[v] = s.build[v]
      BY <2>2 DEF MigratedBelow
    <3>1. v \in Nat /\ v \in Version
      BY <2>4
    <3>2. v = s.next \/ v < s.next
      BY <3>1, <2>5
    <3> QED BY <2>5, <2>7, <3>1, <3>2 DEF MigratedBelow
  <2>14. ReadTrue(r)'
    BY <2>2, <2>5, <2>9 DEF ReadTrue, Grown
  <2>15. Sound(r)'
    BY <1>4, <2>2, <2>3, <2>5, <2>13, <2>14 DEF Sound, Migrating, Seeding, Stopping, Up
  <2>16. plan' \in [Seeds -> {"absent", "seeded", "tuned"}] /\ admins' \in {0, 1}
    BY <2>8 DEF IInv, TypeOK
  <2> QED BY <1>2, <2>2, <2>7, <2>9, <2>12, <2>15, <2>16, OneMoves
<1> QED BY <1>3, <1>5, <1>6 DEF ApplyMigration

LEMMA EndMigrationsKeeps ==
  ASSUME IInv, NEW p \in Process, EndMigrations(p), Disturb(p)
  PROVE  IInv'
<1>1. UNCHANGED Database
  BY DEF EndMigrations, Database
<1>2. alone' \subseteq {p} /\ (p \in alone' => p \in alone)
  BY DEF Disturb
<1>3. PICK s \in ProcessType : s = proc[p]
  BY DEF IInv, TypeOK
<1>4. Sound(s) /\ s.stage = "migrating" /\ s.next > Len(s.build) /\ Move(p, "seeding", 1)
  BY <1>3 DEF IInv, Sound, EndMigrations, At
<1>5. "seeding" \in Stage
  BY DEF Stage, Starting
<1>6. PICK r \in ProcessType :
         /\ proc' = [proc EXCEPT ![p] = r]
         /\ r.stage = "seeding" /\ r.next = 1 /\ r.build = s.build
         /\ r.listener = s.listener /\ r.requests = s.requests
         /\ r.hurried = s.hurried /\ r.loops = s.loops
  BY <1>3, <1>4, <1>5, Moved
<1>7. s.build \in Builds
  BY <1>4 DEF Sound, Migrating
<1>8. /\ \A v \in DOMAIN s.build : v \in Nat
      /\ DOMAIN s.build = 1..Len(s.build) /\ Len(s.build) \in Nat
  BY <1>7, BuildVersions
<1>9. \A v \in DOMAIN s.build : applied[v] = s.build[v]
  BY <1>4, <1>8 DEF Sound, Migrating, MigratedBelow, ProcessType
<1>10. \A k \in DOMAIN PlanCodes : ~(k < 1)
  BY PlanNumbers
<1>11. Sound(r)
  BY <1>4, <1>6, <1>7, <1>9, <1>10 DEF Sound, Migrating, Seeding, Stopping, Up
<1> QED BY <1>1, <1>2, <1>6, <1>11, ProcessMoves

LEMMA LookUpPlanKeeps ==
  ASSUME IInv, NEW p \in Process, LookUpPlan(p), Disturb(p)
  PROVE  IInv'
<1>1. UNCHANGED Database
  BY DEF LookUpPlan, Database
<1>2. alone' \subseteq {p} /\ (p \in alone' => p \in alone)
  BY DEF Disturb
<1>3. PICK s \in ProcessType : s = proc[p]
  BY DEF IInv, TypeOK
<1>4. /\ Sound(s) /\ s.stage = "seeding" /\ s.next \in DOMAIN PlanCodes
      /\ \/ plan[PlanCodes[s.next]] # "absent" /\ Move(p, "seeding", s.next + 1)
         \/ plan[PlanCodes[s.next]] = "absent" /\ Move(p, "planting", s.next)
  BY <1>3 DEF IInv, Sound, LookUpPlan, At
<1>5. {"seeding", "planting"} \subseteq Stage /\ s.next \in Nat /\ s.next + 1 \in Nat
  BY DEF Stage, Starting, ProcessType
<1>6. \A k \in DOMAIN PlanCodes : k \in Nat
  BY PlanNumbers
<1>7. CASE plan[PlanCodes[s.next]] # "absent" /\ Move(p, "seeding", s.next + 1)
  <2>1. PICK r \in ProcessType :
         /\ proc' = [proc EXCEPT ![p] = r]
         /\ r.stage = "seeding" /\ r.next = s.next + 1 /\ r.build = s.build
         /\ r.listener = s.listener /\ r.requests = s.requests
         /\ r.hurried = s.hurried /\ r.loops = s.loops
    BY <1>3, <1>5, <1>7, Moved
  <2>2. \A k \in DOMAIN PlanCodes : k < s.next + 1 => plan[PlanCodes[k]] # "absent"
    BY <1>4, <1>5, <1>6, <1>7 DEF Sound, Seeding
  <2>3. Sound(r)
    BY <1>4, <1>5, <2>1, <2>2 DEF Sound, Migrating, Seeding, Stopping, Up
  <2> QED BY <1>1, <1>2, <2>1, <2>3, ProcessMoves
<1>8. CASE plan[PlanCodes[s.next]] = "absent" /\ Move(p, "planting", s.next)
  <2>1. PICK r \in ProcessType :
         /\ proc' = [proc EXCEPT ![p] = r]
         /\ r.stage = "planting" /\ r.next = s.next /\ r.build = s.build
         /\ r.listener = s.listener /\ r.requests = s.requests
         /\ r.hurried = s.hurried /\ r.loops = s.loops
    BY <1>3, <1>5, <1>8, Moved
  <2>2. Sound(r)
    BY <1>4, <2>1 DEF Sound, Migrating, Seeding, Stopping, Up
  <2> QED BY <1>1, <1>2, <1>8, <2>1, <2>2, ProcessMoves
<1> QED BY <1>4, <1>7, <1>8

LEMMA SeedPlanKeeps ==
  ASSUME IInv, NEW p \in Process, SeedPlan(p), Disturb(p)
  PROVE  IInv'
<1>2. alone' \subseteq {p}
  BY DEF Disturb
<1>3. PICK s \in ProcessType : s = proc[p]
  BY DEF IInv, TypeOK
<1>4. /\ Sound(s) /\ s.stage = "planting" /\ Move(p, "seeding", s.next + 1)
      /\ plan' = [plan EXCEPT ![PlanCodes[s.next]] = "seeded"]
      /\ applied' = applied /\ admins' = admins
  BY <1>3 DEF IInv, Sound, SeedPlan, At
<1>5. /\ "seeding" \in Stage /\ s.next \in Nat /\ s.next + 1 \in Nat
      /\ s.next \in DOMAIN PlanCodes
  BY <1>4 DEF Stage, Starting, ProcessType, Sound, Seeding
<1>6. \A k \in DOMAIN PlanCodes : k \in Nat /\ PlanCodes[k] \in Seeds
  BY PlanNumbers
<1>7. PICK r \in ProcessType :
       /\ proc' = [proc EXCEPT ![p] = r]
       /\ r.stage = "seeding" /\ r.next = s.next + 1 /\ r.build = s.build
       /\ r.listener = s.listener /\ r.requests = s.requests
       /\ r.hurried = s.hurried /\ r.loops = s.loops
  BY <1>3, <1>4, <1>5, Moved
<1>8. plan \in [Seeds -> {"absent", "seeded", "tuned"}] /\ SchemaIsPrefix
      /\ applied \in [Version -> Checksum \cup {Absent}] /\ admins \in {0, 1}
  BY DEF IInv, TypeOK
<1>9. /\ plan' \in [Seeds -> {"absent", "seeded", "tuned"}]
      /\ plan'[PlanCodes[s.next]] = "seeded"
      /\ \A c \in Seeds : c # PlanCodes[s.next] => plan'[c] = plan[c]
  BY <1>4, <1>5, <1>6, <1>8
<1>10. Grown
  BY <1>4, <1>9 DEF Grown
<1>11. \A k \in DOMAIN PlanCodes : k < s.next + 1 => plan'[PlanCodes[k]] # "absent"
  <2> SUFFICES ASSUME NEW k \in DOMAIN PlanCodes, k < s.next + 1
               PROVE  plan'[PlanCodes[k]] # "absent"
    OBVIOUS
  <2>1. k = s.next \/ k < s.next
    BY <1>5, <1>6
  <2> QED BY <1>4, <1>6, <1>9, <2>1 DEF Sound, Seeding
<1>12. \A v \in DOMAIN s.build : r.stage \notin {"down", "opened", "migrating"} =>
         applied'[v] = s.build[v]
  BY <1>4 DEF Sound, Migrating
<1>13. Sound(r)'
  BY <1>4, <1>5, <1>7, <1>11, <1>12 DEF Sound, Migrating, Seeding, Stopping, Up
<1>14. SchemaIsPrefix' /\ applied' \in [Version -> Checksum \cup {Absent}]
       /\ admins' \in {0, 1}
  BY <1>4, <1>8 DEF SchemaIsPrefix
<1> QED BY <1>2, <1>7, <1>9, <1>10, <1>13, <1>14, OneMoves

LEMMA EndSeedingKeeps ==
  ASSUME IInv, NEW p \in Process, EndSeeding(p), Disturb(p)
  PROVE  IInv'
<1>1. UNCHANGED Database
  BY DEF EndSeeding, Database
<1>2. alone' \subseteq {p} /\ (p \in alone' => p \in alone)
  BY DEF Disturb
<1>3. PICK s \in ProcessType : s = proc[p]
  BY DEF IInv, TypeOK
<1>4. Sound(s) /\ s.stage = "seeding" /\ s.next > Len(PlanCodes) /\ Move(p, "admin", 0)
  BY <1>3 DEF IInv, Sound, EndSeeding, At
<1>5. "admin" \in Stage /\ s.next \in Nat
  BY DEF Stage, Starting, ProcessType
<1>6. PICK r \in ProcessType :
         /\ proc' = [proc EXCEPT ![p] = r]
         /\ r.stage = "admin" /\ r.next = 0 /\ r.build = s.build
         /\ r.listener = s.listener /\ r.requests = s.requests
         /\ r.hurried = s.hurried /\ r.loops = s.loops
  BY <1>3, <1>4, <1>5, Moved
<1>7. \A c \in Seeds : plan[c] # "absent"
  BY <1>4, <1>5, PlanNumbers DEF Sound, Seeding
<1>8. Sound(r)
  BY <1>4, <1>6, <1>7 DEF Sound, Migrating, Seeding, Stopping, Up
<1> QED BY <1>1, <1>2, <1>6, <1>8, ProcessMoves

(* New returns with the account in place, whoever registered it.             *)
LEMMA RunKeeps ==
  ASSUME IInv, NEW p \in Process, Run(p), Disturb(p),
         NEW s \in ProcessType, s = proc[p], Sound(s),
         s.stage \in {"admin", "registering"},
         applied' = applied, plan' = plan, admins' \in {0, 1},
         admins = 1 => admins' = 1,
         BootstrapEnabled => admins' = 1
  PROVE  IInv'
<1> DEFINE r == [s EXCEPT !.stage = "running", !.loops = Loops]
<1>1. proc' = [proc EXCEPT ![p] = r]
  BY DEF Run
<1>2. /\ r \in ProcessType /\ r.stage = "running" /\ r.build = s.build
      /\ r.next = s.next /\ r.read = s.read
      /\ r.listener = s.listener /\ r.requests = s.requests /\ r.hurried = s.hurried
  BY DEF ProcessType, Stage, Up
<1> HIDE DEF r
<1>3. alone' \subseteq {p}
  BY DEF Disturb
<1>4. /\ plan' \in [Seeds -> {"absent", "seeded", "tuned"}] /\ SchemaIsPrefix'
      /\ applied' \in [Version -> Checksum \cup {Absent}]
  BY DEF IInv, TypeOK, SchemaIsPrefix
<1>5. Grown
  BY DEF Grown
<1>6. Sound(r)'
  BY <1>2 DEF Sound, Migrating, Seeding, Stopping, Up
<1> QED BY <1>1, <1>2, <1>3, <1>4, <1>5, <1>6, OneMoves

LEMMA LookUpAdminKeeps ==
  ASSUME IInv, NEW p \in Process, LookUpAdmin(p), Disturb(p)
  PROVE  IInv'
<1>1. /\ UNCHANGED Database /\ applied' = applied /\ plan' = plan /\ admins' = admins
      /\ admins \in {0, 1}
  BY DEF LookUpAdmin, Database, IInv, TypeOK
<1>2. alone' \subseteq {p} /\ (p \in alone' => p \in alone)
  BY DEF Disturb
<1>3. PICK s \in ProcessType : s = proc[p]
  BY DEF IInv, TypeOK
<1>4. Sound(s) /\ s.stage = "admin"
  BY <1>3 DEF IInv, Sound, LookUpAdmin, At
<1>5. CASE Move(p, "registering", 0)
  <2>1. "registering" \in Stage
    BY DEF Stage, Starting
  <2>2. PICK r \in ProcessType :
         /\ proc' = [proc EXCEPT ![p] = r]
         /\ r.stage = "registering" /\ r.next = 0 /\ r.build = s.build
         /\ r.listener = s.listener /\ r.requests = s.requests
         /\ r.hurried = s.hurried /\ r.loops = s.loops
    BY <1>3, <1>5, <2>1, Moved
  <2>3. Sound(r)
    BY <1>4, <2>2 DEF Sound, Migrating, Seeding, Stopping, Up
  <2> QED BY <1>1, <1>2, <2>2, <2>3, ProcessMoves
<1>6. CASE Run(p) /\ (BootstrapEnabled => admins # 0)
  BY <1>1, <1>3, <1>4, <1>6, RunKeeps
<1> QED BY <1>5, <1>6 DEF LookUpAdmin

LEMMA RegisterAdminKeeps ==
  ASSUME IInv, NEW p \in Process, RegisterAdmin(p), Disturb(p)
  PROVE  IInv'
<1>1. applied' = applied /\ plan' = plan
  BY DEF RegisterAdmin
<1>2. PICK s \in ProcessType : s = proc[p]
  BY DEF IInv, TypeOK
<1>3. Sound(s) /\ s.stage = "registering"
  BY <1>2 DEF IInv, Sound, RegisterAdmin, At
<1>4. CASE admins = 0 /\ admins' = 1 /\ Run(p)
  BY <1>1, <1>2, <1>3, <1>4, RunKeeps
<1>5. CASE UNCHANGED admins /\ Leave(p)
  BY <1>1, <1>5, LeaveKeeps DEF Database
<1> QED BY <1>4, <1>5 DEF RegisterAdmin

(* A process that has come up, or stays at its stage of the start.           *)
LEMMA ServeMoves ==
  ASSUME IInv, UNCHANGED Database, NEW p \in Process, Disturb(p),
         NEW s \in ProcessType, s = proc[p], Sound(s), NEW r \in ProcessType,
         proc' = [proc EXCEPT ![p] = r],
         r.build = s.build, r.next = s.next, r.read = s.read,
         r.stage = s.stage \/ (s.stage \in Up /\ r.stage \in Up \cup {"closed"}),
         Stopping(r)
  PROVE  IInv'
<1>1. alone' \subseteq {p} /\ (p \in alone' => p \in alone)
  BY DEF Disturb
<1>2. Sound(r)
  BY DEF Sound, Migrating, MigratedBelow, ReadTrue, Seeding, Up
<1>3. r.stage = "planting" => proc[p].stage = "planting" /\ r.next = proc[p].next
  BY DEF Up
<1> QED BY <1>1, <1>2, <1>3, ProcessMoves

LEMMA SignalKeeps ==
  ASSUME IInv, NEW p \in Process, Signal(p), Disturb(p)
  PROVE  IInv'
<1>1. PICK s \in ProcessType : s = proc[p]
  BY DEF IInv, TypeOK
<1> DEFINE r == [s EXCEPT !.asked = TRUE]
<1>2. /\ Sound(s)
      /\ proc' = [proc EXCEPT ![p] = r]
  BY <1>1 DEF IInv, Sound, Signal
<1>3. r \in ProcessType
  BY <1>2 DEF ProcessType, Stage, Up
<1>4. /\ r.build = s.build /\ r.next = s.next /\ r.read = s.read
      /\ (r.stage = s.stage \/ (s.stage \in Up /\ r.stage \in Up \cup {"closed"}))
  BY <1>2 DEF ProcessType, Up
<1>5. Stopping(r)
  BY <1>2 DEF ProcessType, Sound, Stopping, Up
<1>6. UNCHANGED Database
  BY DEF Signal, Database
<1> HIDE DEF r
<1> QED BY <1>1, <1>2, <1>3, <1>4, <1>5, <1>6, ServeMoves

LEMMA ListenKeeps ==
  ASSUME IInv, NEW p \in Process, Listen(p), Disturb(p)
  PROVE  IInv'
<1>1. PICK s \in ProcessType : s = proc[p]
  BY DEF IInv, TypeOK
<1> DEFINE r == [s EXCEPT !.listener = IF s.stage = "running" THEN "open" ELSE "closed"]
<1>2. /\ Sound(s)
      /\ proc' = [proc EXCEPT ![p] = r]
      /\ s.stage \in Up
  BY <1>1 DEF IInv, Sound, Listen
<1>3. r \in ProcessType
  BY <1>2 DEF ProcessType, Stage, Up
<1>4. /\ r.build = s.build /\ r.next = s.next /\ r.read = s.read
      /\ (r.stage = s.stage \/ (s.stage \in Up /\ r.stage \in Up \cup {"closed"}))
  BY <1>2 DEF ProcessType, Up
<1>5. Stopping(r)
  BY <1>2 DEF ProcessType, Sound, Stopping, Up
<1>6. UNCHANGED Database
  BY DEF Listen, Database
<1> HIDE DEF r
<1> QED BY <1>1, <1>2, <1>3, <1>4, <1>5, <1>6, ServeMoves

LEMMA ServeFailsKeeps ==
  ASSUME IInv, NEW p \in Process, ServeFails(p), Disturb(p)
  PROVE  IInv'
<1>1. PICK s \in ProcessType : s = proc[p]
  BY DEF IInv, TypeOK
<1> DEFINE r == [s EXCEPT !.listener = "failed"]
<1>2. /\ Sound(s)
      /\ proc' = [proc EXCEPT ![p] = r]
      /\ s.stage \in Up \/ s.listener = "open"
  BY <1>1 DEF IInv, Sound, ServeFails
<1>3. r \in ProcessType
  BY <1>2 DEF ProcessType, Stage, Up
<1>4. /\ r.build = s.build /\ r.next = s.next /\ r.read = s.read
      /\ (r.stage = s.stage \/ (s.stage \in Up /\ r.stage \in Up \cup {"closed"}))
  BY <1>2 DEF ProcessType, Up
<1>5. Stopping(r)
  BY <1>2 DEF ProcessType, Sound, Stopping, Up
<1>6. UNCHANGED Database
  BY DEF ServeFails, Database
<1> HIDE DEF r
<1> QED BY <1>1, <1>2, <1>3, <1>4, <1>5, <1>6, ServeMoves

LEMMA ArriveKeeps ==
  ASSUME IInv, NEW p \in Process, Arrive(p), Disturb(p)
  PROVE  IInv'
<1>1. PICK s \in ProcessType : s = proc[p]
  BY DEF IInv, TypeOK
<1> DEFINE r == [s EXCEPT !.requests = s.requests + 1]
<1>2. /\ Sound(s)
      /\ proc' = [proc EXCEPT ![p] = r]
      /\ s.listener = "open"
  BY <1>1 DEF IInv, Sound, Arrive
<1>3. r \in ProcessType
  BY <1>2 DEF ProcessType, Stage, Up
<1>4. /\ r.build = s.build /\ r.next = s.next /\ r.read = s.read
      /\ (r.stage = s.stage \/ (s.stage \in Up /\ r.stage \in Up \cup {"closed"}))
  BY <1>2 DEF ProcessType, Up
<1>5. Stopping(r)
  BY <1>2 DEF ProcessType, Sound, Stopping, Up
<1>6. UNCHANGED Database
  BY DEF Arrive, Database
<1> HIDE DEF r
<1> QED BY <1>1, <1>2, <1>3, <1>4, <1>5, <1>6, ServeMoves

LEMMA AnswerKeeps ==
  ASSUME IInv, NEW p \in Process, Answer(p), Disturb(p)
  PROVE  IInv'
<1>1. PICK s \in ProcessType : s = proc[p]
  BY DEF IInv, TypeOK
<1> DEFINE r == [s EXCEPT !.requests = s.requests - 1]
<1>2. /\ Sound(s)
      /\ proc' = [proc EXCEPT ![p] = r]
      /\ s.requests > 0
  BY <1>1 DEF IInv, Sound, Answer
<1>3. r \in ProcessType
  BY <1>2 DEF ProcessType, Stage, Up
<1>4. /\ r.build = s.build /\ r.next = s.next /\ r.read = s.read
      /\ (r.stage = s.stage \/ (s.stage \in Up /\ r.stage \in Up \cup {"closed"}))
  BY <1>2 DEF ProcessType, Up
<1>5. Stopping(r)
  BY <1>2 DEF ProcessType, Sound, Stopping, Up
<1>6. UNCHANGED Database
  BY DEF Answer, Database
<1> HIDE DEF r
<1> QED BY <1>1, <1>2, <1>3, <1>4, <1>5, <1>6, ServeMoves

LEMMA EndLoopKeeps ==
  ASSUME IInv, NEW p \in Process, NEW l, EndLoop(p, l), Disturb(p)
  PROVE  IInv'
<1>1. PICK s \in ProcessType : s = proc[p]
  BY DEF IInv, TypeOK
<1> DEFINE r == [s EXCEPT !.loops = s.loops \ {l}]
<1>2. /\ Sound(s)
      /\ proc' = [proc EXCEPT ![p] = r]
  BY <1>1 DEF IInv, Sound, EndLoop
<1>3. r \in ProcessType
  BY <1>2 DEF ProcessType, Stage, Up
<1>4. /\ r.build = s.build /\ r.next = s.next /\ r.read = s.read
      /\ (r.stage = s.stage \/ (s.stage \in Up /\ r.stage \in Up \cup {"closed"}))
  BY <1>2 DEF ProcessType, Up
<1>5. Stopping(r)
  BY <1>2 DEF ProcessType, Sound, Stopping, Up
<1>6. UNCHANGED Database
  BY DEF EndLoop, Database
<1> HIDE DEF r
<1> QED BY <1>1, <1>2, <1>3, <1>4, <1>5, <1>6, ServeMoves

LEMMA DispatcherReturnsKeeps ==
  ASSUME IInv, NEW p \in Process, DispatcherReturns(p), Disturb(p)
  PROVE  IInv'
<1>1. PICK s \in ProcessType : s = proc[p]
  BY DEF IInv, TypeOK
<1> DEFINE r == [s EXCEPT !.loops = s.loops \ {"dispatcher"}]
<1>2. /\ Sound(s)
      /\ proc' = [proc EXCEPT ![p] = r]
  BY <1>1 DEF IInv, Sound, DispatcherReturns
<1>3. r \in ProcessType
  BY <1>2 DEF ProcessType, Stage, Up
<1>4. /\ r.build = s.build /\ r.next = s.next /\ r.read = s.read
      /\ (r.stage = s.stage \/ (s.stage \in Up /\ r.stage \in Up \cup {"closed"}))
  BY <1>2 DEF ProcessType, Up
<1>5. Stopping(r)
  BY <1>2 DEF ProcessType, Sound, Stopping, Up
<1>6. UNCHANGED Database
  BY DEF DispatcherReturns, Database
<1> HIDE DEF r
<1> QED BY <1>1, <1>2, <1>3, <1>4, <1>5, <1>6, ServeMoves

LEMMA GiveUpKeeps ==
  ASSUME IInv, NEW p \in Process, GiveUp(p), Disturb(p)
  PROVE  IInv'
<1>1. PICK s \in ProcessType : s = proc[p]
  BY DEF IInv, TypeOK
<1> DEFINE r == [s EXCEPT !.stage = "waiting", !.stopped = TRUE, !.hurried = TRUE]
<1>2. /\ Sound(s)
      /\ proc' = [proc EXCEPT ![p] = r]
      /\ s.stage = "running" /\ s.listener = "failed"
  BY <1>1 DEF IInv, Sound, GiveUp
<1>3. r \in ProcessType
  BY <1>2 DEF ProcessType, Stage, Up
<1>4. /\ r.build = s.build /\ r.next = s.next /\ r.read = s.read
      /\ (r.stage = s.stage \/ (s.stage \in Up /\ r.stage \in Up \cup {"closed"}))
  BY <1>2 DEF ProcessType, Up
<1>5. Stopping(r)
  BY <1>2 DEF ProcessType, Sound, Stopping, Up
<1>6. UNCHANGED Database
  BY DEF GiveUp, Database
<1> HIDE DEF r
<1> QED BY <1>1, <1>2, <1>3, <1>4, <1>5, <1>6, ServeMoves

LEMMA BeginShutdownKeeps ==
  ASSUME IInv, NEW p \in Process, BeginShutdown(p), Disturb(p)
  PROVE  IInv'
<1>1. PICK s \in ProcessType : s = proc[p]
  BY DEF IInv, TypeOK
<1> DEFINE r == [s EXCEPT !.stage = "shutdown",
               !.listener = IF s.listener = "open" THEN "closed" ELSE s.listener]
<1>2. /\ Sound(s)
      /\ proc' = [proc EXCEPT ![p] = r]
      /\ s.stage = "running"
  BY <1>1 DEF IInv, Sound, BeginShutdown
<1>3. r \in ProcessType
  BY <1>2 DEF ProcessType, Stage, Up
<1>4. /\ r.build = s.build /\ r.next = s.next /\ r.read = s.read
      /\ (r.stage = s.stage \/ (s.stage \in Up /\ r.stage \in Up \cup {"closed"}))
  BY <1>2 DEF ProcessType, Up
<1>5. Stopping(r)
  BY <1>2 DEF ProcessType, Sound, Stopping, Up
<1>6. UNCHANGED Database
  BY DEF BeginShutdown, Database
<1> HIDE DEF r
<1> QED BY <1>1, <1>2, <1>3, <1>4, <1>5, <1>6, ServeMoves

LEMMA EndShutdownKeeps ==
  ASSUME IInv, NEW p \in Process, EndShutdown(p), Disturb(p)
  PROVE  IInv'
<1>1. PICK s \in ProcessType : s = proc[p]
  BY DEF IInv, TypeOK
<1>0. PICK h \in BOOLEAN : h = (s.requests > 0)
  <2>1. (s.requests > 0) \in BOOLEAN
    BY DEF ProcessType
  <2> QED BY <2>1, Zenon
<1> DEFINE r == [s EXCEPT !.stage = "waiting", !.stopped = TRUE,
               !.hurried = h]
<1>2. /\ Sound(s)
      /\ proc' = [proc EXCEPT ![p] = r]
      /\ s.stage = "shutdown"
  <2>1. Sound(s) /\ s.stage = "shutdown"
    BY <1>1 DEF IInv, Sound, EndShutdown
  <2>2. proc' = [proc EXCEPT ![p].stage = "waiting", ![p].stopped = TRUE, ![p].hurried = h]
    BY <1>0, <1>1, Zenon DEF EndShutdown
  <2>3. proc' = [proc EXCEPT ![p] = r]
    BY <1>1, <2>2
  <2> QED BY <2>1, <2>3
<1>3. r \in ProcessType
  BY <1>2 DEF ProcessType, Stage, Up
<1>4. /\ r.build = s.build /\ r.next = s.next /\ r.read = s.read
      /\ (r.stage = s.stage \/ (s.stage \in Up /\ r.stage \in Up \cup {"closed"}))
  BY <1>2 DEF ProcessType, Up
<1>5. Stopping(r)
  BY <1>0, <1>2 DEF ProcessType, Sound, Stopping, Up
<1>6. UNCHANGED Database
  BY DEF EndShutdown, Database
<1> HIDE DEF r
<1> QED BY <1>1, <1>2, <1>3, <1>4, <1>5, <1>6, ServeMoves

LEMMA CloseKeeps ==
  ASSUME IInv, NEW p \in Process, Close(p), Disturb(p)
  PROVE  IInv'
<1>1. PICK s \in ProcessType : s = proc[p]
  BY DEF IInv, TypeOK
<1> DEFINE r == [s EXCEPT !.stage = "closed"]
<1>2. /\ Sound(s)
      /\ proc' = [proc EXCEPT ![p] = r]
      /\ s.stage = "waiting" /\ s.loops = {}
      /\ s.listener \in {"closed", "failed"}
  BY <1>1 DEF IInv, Sound, Close
<1>3. r \in ProcessType
  BY <1>2 DEF ProcessType, Stage, Up
<1>4. /\ r.build = s.build /\ r.next = s.next /\ r.read = s.read
      /\ (r.stage = s.stage \/ (s.stage \in Up /\ r.stage \in Up \cup {"closed"}))
  BY <1>2 DEF ProcessType, Up
<1>5. Stopping(r)
  BY <1>2 DEF ProcessType, Sound, Stopping, Up
<1>6. UNCHANGED Database
  BY DEF Close, Database
<1> HIDE DEF r
<1> QED BY <1>1, <1>2, <1>3, <1>4, <1>5, <1>6, ServeMoves

LEMMA TunePlanKeeps ==
  ASSUME IInv, NEW p \in Process, NEW code \in Seeds, TunePlan(p, code), Disturb(p)
  PROVE  IInv'
<1>1. PICK s \in ProcessType : s = proc[p]
  BY DEF IInv, TypeOK
<1> DEFINE r == [s EXCEPT !.requests = s.requests - 1]
<1>2. /\ Sound(s) /\ s.stage \in Up /\ s.requests > 0
      /\ proc' = [proc EXCEPT ![p] = r]
      /\ plan' = [plan EXCEPT ![code] = "tuned"]
      /\ applied' = applied /\ admins' = admins
  BY <1>1 DEF IInv, Sound, TunePlan
<1>3. /\ r \in ProcessType /\ r.build = s.build /\ r.next = s.next /\ r.read = s.read
      /\ r.stage = s.stage
  BY <1>2 DEF ProcessType
<1>4. Sound(r)
  BY <1>2 DEF ProcessType, Sound, Migrating, MigratedBelow, ReadTrue, Seeding, Stopping, Up
<1> HIDE DEF r
<1>5. /\ plan' \in [Seeds -> {"absent", "seeded", "tuned"}]
      /\ plan'[code] = "tuned" /\ \A c \in Seeds : c # code => plan'[c] = plan[c]
  BY <1>2 DEF IInv, TypeOK
<1>6. Grown
  BY <1>2, <1>5 DEF Grown
<1>7. /\ applied' \in [Version -> Checksum \cup {Absent}] /\ SchemaIsPrefix'
      /\ admins' \in {0, 1}
  BY <1>2 DEF IInv, TypeOK, SchemaIsPrefix
<1>8. Sound(r)'
  <2>1. PICK q \in ProcessType : q = r
    BY <1>3
  <2>2. Sound(q)
    BY <2>1, <1>4
  <2> QED BY <2>1, <2>2, <1>6, StillSound
<1>9. alone' \subseteq {p} /\ r.stage # "planting"
  BY <1>2, <1>3 DEF Disturb, Up
<1> QED BY <1>2, <1>3, <1>5, <1>6, <1>7, <1>8, <1>9, OneMoves

LEMMA StepKeeps ==
  ASSUME IInv, NEW p \in Process, Step(p), Disturb(p)
  PROVE  IInv'
<1>1. CASE StartStep(p)
  BY <1>1, ReadAppliedKeeps, CheckAppliedKeeps, ApplyMigrationKeeps, EndMigrationsKeeps,
     LookUpPlanKeeps, SeedPlanKeeps, EndSeedingKeeps, LookUpAdminKeeps, RegisterAdminKeeps
     DEF StartStep
<1>2. CASE StartFails(p) \/ Exit(p) \/ Crash(p)
  BY <1>2, LeaveKeeps DEF StartFails, Exit, Crash, Database
<1>3. CASE \E l \in Loops : EndLoop(p, l)
  BY <1>3, EndLoopKeeps
<1>4. CASE Listen(p) \/ GiveUp(p) \/ BeginShutdown(p) \/ EndShutdown(p) \/ Close(p)
  BY <1>4, ListenKeeps, GiveUpKeeps, BeginShutdownKeeps, EndShutdownKeeps, CloseKeeps
<1>5. CASE Signal(p) \/ ServeFails(p) \/ DispatcherReturns(p) \/ Arrive(p) \/ Answer(p)
  BY <1>5, SignalKeeps, ServeFailsKeeps, DispatcherReturnsKeeps, ArriveKeeps, AnswerKeeps
<1>6. CASE \E code \in Seeds : TunePlan(p, code)
  BY <1>6, TunePlanKeeps
<1> QED BY <1>1, <1>2, <1>3, <1>4, <1>5, <1>6 DEF Step, StopStep

LEMMA NextKeeps ==
  ASSUME IInv, [Next]_vars
  PROVE  IInv'
<1>1. CASE Next
  BY <1>1, StartKeeps, StepKeeps DEF Next
<1>2. CASE UNCHANGED vars
  BY <1>2 DEF vars, IInv, TypeOK, Migrating, MigratedBelow, ReadTrue, Seeding, Stopping,
              Undisturbed, SchemaIsPrefix
<1> QED BY <1>1, <1>2

LEMMA InitHolds ==
  ASSUME Init
  PROVE  IInv
<1>1. applied = NoSchema /\ \A v \in Version : applied[v] = Absent
  BY DEF Init, NoSchema
<1>2. TypeOK
  BY DownSound DEF Init, TypeOK, NoSchema
<1>3. \A p \in Process : Sound(proc[p]) /\ proc[p].stage = "down"
  BY DownSound DEF Init
<1> QED BY <1>1, <1>2, <1>3 DEF Init, IInv, Sound, Undisturbed, SchemaIsPrefix

LEMMA InvHolds == Spec => []IInv
<1>1. Init => IInv
  BY InitHolds
<1>2. IInv /\ [Next]_vars => IInv'
  BY NextKeeps
<1> QED BY <1>1, <1>2, PTL DEF Spec
-----------------------------------------------------------------------------

(* migrate.go:89-93: whatever the number of processes and builds, a process  *)
(* serves only over the migrations of its own build.                         *)
THEOREM ServersAgree == Spec => []RunningAgrees
<1>1. IInv => RunningAgrees
  BY DEF IInv, Migrating, RunningAgrees, Serving, Up
<1> QED BY <1>1, InvHolds, PTL

(* A Migrate that dies or loses a race leaves an initial segment of the      *)
(* versions, for any builds.                                                 *)
THEOREM SchemaGrowsInOrder == Spec => []SchemaIsPrefix
<1>1. IInv => SchemaIsPrefix
  BY DEF IInv
<1> QED BY <1>1, InvHolds, PTL

(* bootstrap.go:42-43: whoever serves finds every default plan and, when     *)
(* bootstrap is configured, the one operations account.                      *)
THEOREM StartsBootstrap == Spec => []Bootstrapped
<1>1. IInv => Bootstrapped
  BY DEF IInv, TypeOK, Seeding, Bootstrapped, Serving
<1> QED BY <1>1, InvHolds, PTL

(* app.Run closes the database after its loops and its listener have ended.  *)
THEOREM DatabaseClosesLast == Spec => []ClosedLast
<1>1. IInv => ClosedLast
  BY DEF IInv, Stopping, ClosedLast
<1> QED BY <1>1, InvHolds, PTL

(* bootstrap.go:52: SeedPlan writes over nothing that operations tuned when  *)
(* no other process works during the start.                                  *)
LEMMA StepKeepsTuning ==
  ASSUME IInv, [Next]_vars, NEW p \in Process, NEW c \in Seeds,
         p \in alone, proc'[p] # proc[p], plan[c] = "tuned"
  PROVE  plan'[c] = "tuned"
<1>1. PICK q \in Process : \/ \E b \in Builds : Start(q, b)
                           \/ Step(q)
  BY DEF Next, vars
<1>2. CASE UNCHANGED plan
  BY <1>2
<1>3. CASE SeedPlan(q)
  <2>1. proc[q].stage = "planting" /\ proc' = [proc EXCEPT ![q] = proc'[q]]
        /\ plan' = [plan EXCEPT ![PlanCodes[proc[q].next]] = "seeded"]
    BY <1>3 DEF SeedPlan, At, Move, IInv, TypeOK
  <2>2. q = p
    BY <2>1 DEF IInv, TypeOK
  <2>3. plan[PlanCodes[proc[p].next]] = "absent"
    BY <2>1, <2>2 DEF IInv, Undisturbed
  <2> QED BY <2>1, <2>2, <2>3 DEF IInv, TypeOK
<1>4. CASE \E code \in Seeds : TunePlan(q, code)
  BY <1>4 DEF TunePlan, IInv, TypeOK
<1>5. UNCHANGED plan \/ SeedPlan(q) \/ \E code \in Seeds : TunePlan(q, code)
  BY <1>1 DEF Start, Step, StartStep, StopStep, ReadApplied, CheckApplied, ApplyMigration,
              EndMigrations, LookUpPlan, EndSeeding, LookUpAdmin, RegisterAdmin, StartFails,
              Signal, Listen, ServeFails, Arrive, Answer, EndLoop, DispatcherReturns, GiveUp,
              BeginShutdown, EndShutdown, Close, Exit, Crash
<1> QED BY <1>2, <1>3, <1>4, <1>5

(* The seeding of a start never undoes what operations tuned, as long as no  *)
(* other process is at work during that start.                               *)
THEOREM TuningSurvivesRestarts == Spec => RestartKeepsTuning
<1>1. IInv /\ [Next]_vars =>
        [\A p \in Process, c \in Seeds :
           p \in alone /\ proc'[p] # proc[p] /\ plan[c] = "tuned" => plan'[c] = "tuned"]_vars
  BY StepKeepsTuning
<1> QED BY <1>1, InvHolds, PTL DEF Spec, RestartKeepsTuning
==============================================================================
