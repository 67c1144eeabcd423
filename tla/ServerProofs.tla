---------------------------- MODULE ServerProofs ----------------------------
(***************************************************************************)
(* Servers that start, sign-ins, the first choice of a new user and the    *)
(* locks of transactions, for any number of servers, versions, addresses,  *)
(* requests, tour notes, authors, notes and links.                         *)
(***************************************************************************)
EXTENDS Migrate, Accounts, Tour, LockOrder,
        FiniteSetTheorems, SequenceTheorems, WellFoundedInduction, TLAPS

----------------------------------------------------------------------------
(* Migrations *)

Steps == {"down", "apply", "record", "commit", "serves"}
Working == [step : Steps, at : Nat \ {0}, applied : SUBSET Nat, starts : Nat]

\* The fields of a server.
LEMMA WorkingFields ==
    ASSUME NEW x \in Working
    PROVE  x.step \in Steps /\ x.at \in Nat \ {0} /\ x.applied \subseteq Nat /\ x.starts \in Nat
BY DEF Working

\* A server at another step.
LEMMA StepFields ==
    ASSUME NEW x \in Working, NEW st \in Steps
    PROVE  LET y == [x EXCEPT !.step = st] IN
           y \in Working /\ y.step = st /\ y.at = x.at /\ y.applied = x.applied
BY DEF Working

\* A server at the next version.
LEMMA NextFields ==
    ASSUME NEW x \in Working
    PROVE  LET y == [x EXCEPT !.at = x.at + 1] IN
           y \in Working /\ y.step = x.step /\ y.at = x.at + 1 /\ y.applied = x.applied
BY DEF Working

\* What a server between its start and its last migration may rely on: what it
\* read of schema_migrations stays true, what lies before the version it works on
\* is recorded, and the number it has inserted is nobody else's.
ServerInv(s) ==
    /\ server[s].applied \subseteq recorded
    /\ server[s].step # "down" => \A v \in Nat \ {0} : v < server[s].at => v \in recorded
    /\ server[s].step = "serves" => server[s].at > Knows[s]
    /\ server[s].step = "commit" =>
          /\ server[s].at \notin recorded
          /\ \A t \in Servers \ {s} : ~(server[t].step = "commit" /\ server[t].at = server[s].at)

\* The recorded versions are those from 1 to the last that was committed.
SchemaInv ==
    /\ schema \in Seq(Nat)
    /\ recorded = 1 .. Len(schema)
    /\ \A i \in 1 .. Len(schema) : schema[i] = i

\* MigratedOnce says nothing of the versions that are being applied.
MigrateInv ==
    /\ SchemaInv
    /\ server \in [Servers -> Working]
    /\ \A s \in Servers : ServerInv(s)

\* At the start nothing is recorded and no server works on anything.
LEMMA MigrateInitInv == MigrateInit => MigrateInv
<1>1. SUFFICES ASSUME MigrateInit PROVE MigrateInv OBVIOUS
<1>2. SchemaInv BY <1>1 DEF MigrateInit, SchemaInv
<1>3. \A s \in Servers : ServerInv(s) BY <1>1 DEF MigrateInit, ServerInv
<1>4. server \in [Servers -> Working] BY <1>1 DEF MigrateInit, Working, Steps
<1>5. QED BY <1>2, <1>3, <1>4 DEF MigrateInv

\* A server that is not at its COMMIT moves: nothing others rely on changes.
LEMMA OneServerMoves ==
    ASSUME MigrateInv, NEW s \in Servers, UNCHANGED <<schema, recorded>>,
           NEW new, server' = [server EXCEPT ![s] = new],
           new \in Working,
           new.step = "commit" => Recordable(s) /\ new.at = server[s].at,
           new.applied \subseteq recorded,
           new.step # "down" => \A v \in Nat \ {0} : v < new.at => v \in recorded,
           new.step = "serves" => new.at > Knows[s]
    PROVE  MigrateInv'
<1>1. SchemaInv' BY DEF MigrateInv, SchemaInv
<1>2. server'[s] = new /\ \A t \in Servers \ {s} : server'[t] = server[t] BY DEF MigrateInv
<1>3. ServerInv(s)' BY <1>2 DEF ServerInv, Recordable
<1>4. ASSUME NEW t \in Servers \ {s} PROVE ServerInv(t)'
  <2>1. ServerInv(t) BY DEF MigrateInv
  <2>2. server'[t].step = "commit" =>
           \A u \in Servers \ {t} : ~(server'[u].step = "commit" /\ server'[u].at = server'[t].at)
    BY <1>2, <2>1 DEF ServerInv, Recordable
  <2>3. QED BY <1>2, <2>1, <2>2 DEF ServerInv
<1>5. QED BY <1>1, <1>3, <1>4 DEF MigrateInv

\* COMMIT appends the version that was next.
LEMMA CommitInv ==
    ASSUME MigrateInv, NEW s \in Servers, CommitMigration(s)
    PROVE  MigrateInv'
<1> DEFINE v == server[s].at
<1>1. /\ server[s].step = "commit" /\ v \in Nat \ {0} /\ v \notin recorded
      /\ \A u \in Nat \ {0} : u < v => u \in recorded
  BY WorkingFields DEF CommitMigration, MigrateInv, ServerInv
<1>2. /\ schema \in Seq(Nat) /\ Len(schema) \in Nat /\ recorded = 1 .. Len(schema)
      /\ \A i \in 1 .. Len(schema) : schema[i] = i
  BY DEF MigrateInv, SchemaInv
<1>3. v = Len(schema) + 1
  <2>1. ~(v <= Len(schema)) BY <1>1, <1>2
  <2>2. ~(Len(schema) + 1 < v)
    <3>1. Len(schema) + 1 \in Nat \ {0} /\ Len(schema) + 1 \notin recorded BY <1>2
    <3>2. QED BY <1>1, <3>1
  <2>3. QED BY <1>1, <1>2, <2>1, <2>2
<1>4. schema' = Append(schema, v) /\ recorded' = recorded \cup {v} BY DEF CommitMigration
<1>5. SchemaInv'
  <2>1. schema' \in Seq(Nat) /\ Len(schema') = Len(schema) + 1 BY <1>1, <1>2, <1>4
  <2>2. recorded' = 1 .. Len(schema') BY <1>2, <1>3, <1>4, <2>1
  <2>3. \A i \in 1 .. Len(schema') : schema'[i] = i BY <1>2, <1>3, <1>4, <2>1
  <2>4. QED BY <2>1, <2>2, <2>3 DEF SchemaInv
<1> HIDE DEF v
<1>6. PICK new : /\ server' = [server EXCEPT ![s] = new]
                 /\ \/ new = [server[s] EXCEPT !.step = "apply", !.at = v + 1]
                    \/ new = [server[s] EXCEPT !.step = "down"]
  <2>1. CASE server' = [server EXCEPT ![s].step = "apply", ![s].at = @ + 1]
    BY <2>1 DEF v
  <2>2. CASE server' = [server EXCEPT ![s].step = "down"]
    BY <2>2
  <2>3. QED BY <2>1, <2>2 DEF CommitMigration
<1>7. server[s] \in Working
  BY DEF MigrateInv
<1>8. new \in Working
  <2>1. CASE new = [server[s] EXCEPT !.step = "down"] BY <1>7, <2>1, StepFields DEF Steps
  <2>2. CASE new = [server[s] EXCEPT !.step = "apply", !.at = v + 1]
    <3>1. v + 1 \in Nat \ {0} BY <1>1
    <3>2. QED BY <1>7, <2>2, <3>1 DEF Working, Steps
  <2>3. QED BY <1>6, <2>1, <2>2
<1>9. server'[s] = new /\ \A t \in Servers \ {s} : server'[t] = server[t] BY <1>6 DEF MigrateInv
<1>10. ServerInv(s)'
  <2>1. new.applied \subseteq recorded' BY <1>4, <1>6, <1>7 DEF MigrateInv, ServerInv, Working
  <2>2. new.step \in {"apply", "down"} BY <1>6, <1>7 DEF Working
  <2>3. new.step # "down" => \A u \in Nat \ {0} : u < new.at => u \in recorded'
    <3>1. CASE new = [server[s] EXCEPT !.step = "apply", !.at = v + 1]
      <4>1. new.at = v + 1 BY <1>7, <3>1 DEF Working
      <4>2. \A u \in Nat \ {0} : u < v + 1 => u < v \/ u = v BY <1>1
      <4>3. QED BY <1>1, <1>4, <4>1, <4>2
    <3>2. CASE new = [server[s] EXCEPT !.step = "down"]
      <4>1. new.at = v BY <1>7, <3>2 DEF v, Working
      <4>2. QED BY <1>1, <1>4, <4>1
    <3>3. QED BY <1>6, <3>1, <3>2
  <2>4. QED BY <1>9, <2>1, <2>2, <2>3 DEF ServerInv
<1>11. ASSUME NEW t \in Servers \ {s} PROVE ServerInv(t)'
  <2>1. ServerInv(t) BY DEF MigrateInv
  <2>2. server[t].step = "commit" => server[t].at # v BY <1>1, <2>1 DEF ServerInv, v
  <2>3. \A u \in Servers \ {t} : server'[u].step = "commit" => server'[u] = server[u]
    <3>1. new.step # "commit" BY <1>6, <1>7 DEF Working
    <3>2. QED BY <1>9, <3>1
  <2>4. QED BY <1>4, <1>9, <2>1, <2>2, <2>3 DEF ServerInv
<1>12. QED BY <1>5, <1>6, <1>8, <1>10, <1>11 DEF MigrateInv

\* Every step keeps the invariant.
LEMMA MigrateStepInv == MigrateInv /\ [MigrateNext]_migrateVars => MigrateInv'
<1>1. SUFFICES ASSUME MigrateInv, [MigrateNext]_migrateVars PROVE MigrateInv' OBVIOUS
<1>2. CASE UNCHANGED migrateVars
  BY <1>1, <1>2 DEF migrateVars, MigrateInv, SchemaInv, ServerInv
<1>3. CASE MigrateNext
  <2>1. PICK s \in Servers : \/ StartServer(s) \/ Onward(s) \/ ApplyBody(s) \/ Record(s)
                             \/ CommitMigration(s) \/ StopServer(s)
    BY <1>3 DEF MigrateNext
  <2> DEFINE old == server[s]
  <2>2. /\ old \in Working
        /\ ServerInv(s)
    BY <1>1 DEF MigrateInv
  <2>3. CASE StartServer(s)
    <3> DEFINE new == [step |-> "apply", at |-> 1, applied |-> recorded, starts |-> old.starts + 1]
    <3>1. server' = [server EXCEPT ![s] = new] /\ UNCHANGED <<schema, recorded>>
      BY <2>3 DEF StartServer
    <3>2. recorded \in SUBSET Nat BY <1>1 DEF MigrateInv, SchemaInv
    <3>3. \A u \in Nat \ {0} : ~(u < 1) OBVIOUS
    <3>4. new \in Working BY <2>2, <3>2 DEF Working, Steps
    <3>5. new.step = "apply" /\ new.at = 1 /\ new.applied = recorded OBVIOUS
    <3> HIDE DEF new
    <3>6. QED BY <1>1, <3>1, <3>3, <3>4, <3>5, OneServerMoves
  <2>4. CASE Onward(s)
    <3>1. CASE old.at > Knows[s]
      <4> DEFINE new == [old EXCEPT !.step = "serves"]
      <4>1. server' = [server EXCEPT ![s] = new] /\ UNCHANGED <<schema, recorded>>
        BY <2>4, <3>1 DEF Onward
      <4>2. new \in Working /\ new.step = "serves" /\ new.at = old.at /\ new.applied = old.applied
        BY <2>2, StepFields DEF Steps
      <4> HIDE DEF new
      <4>3. old.step = "apply" BY <2>4 DEF Onward
      <4>4. QED BY <1>1, <2>2, <3>1, <4>1, <4>2, <4>3, OneServerMoves DEF ServerInv
    <3>2. CASE ~(old.at > Knows[s])
      <4> DEFINE new == [old EXCEPT !.at = old.at + 1]
      <4>1. server' = [server EXCEPT ![s] = new] /\ UNCHANGED <<schema, recorded>>
        BY <2>4, <3>2 DEF Onward
      <4>2. old.at \in recorded /\ old.step = "apply"
        BY <2>2, <2>4, <3>2 DEF Onward, ServerInv
      <4>3. \A u \in Nat \ {0} : u < old.at + 1 => u < old.at \/ u = old.at
        BY <2>2, WorkingFields
      <4>4. \A u \in Nat \ {0} : u < old.at + 1 => u \in recorded
        BY <2>2, <4>2, <4>3 DEF ServerInv
      <4>5. new \in Working /\ new.step = old.step /\ new.at = old.at + 1 /\ new.applied = old.applied
        BY <2>2, NextFields
      <4> HIDE DEF new
      <4>6. QED BY <1>1, <2>2, <4>1, <4>2, <4>4, <4>5, OneServerMoves DEF ServerInv
    <3>3. QED BY <3>1, <3>2
  <2>5. CASE ApplyBody(s)
    <3> DEFINE new == [old EXCEPT !.step = "record"]
    <3>1. server' = [server EXCEPT ![s] = new] /\ UNCHANGED <<schema, recorded>>
      BY <2>5 DEF ApplyBody
    <3>2. new \in Working /\ new.step = "record" /\ new.at = old.at /\ new.applied = old.applied
      BY <2>2, StepFields DEF Steps
    <3> HIDE DEF new
    <3>3. old.step # "down" BY <2>5 DEF ApplyBody
    <3>4. QED BY <1>1, <2>2, <3>1, <3>2, <3>3, OneServerMoves DEF ServerInv
  <2>6. CASE Record(s)
    <3> DEFINE new == [old EXCEPT !.step = "commit"]
    <3>1. server' = [server EXCEPT ![s] = new] /\ UNCHANGED <<schema, recorded>> /\ Recordable(s)
      BY <2>6 DEF Record
    <3>2. new \in Working /\ new.step = "commit" /\ new.at = old.at /\ new.applied = old.applied
      BY <2>2, StepFields DEF Steps
    <3> HIDE DEF new
    <3>3. old.step # "down" BY <2>6 DEF Record
    <3>4. QED BY <1>1, <2>2, <3>1, <3>2, <3>3, OneServerMoves DEF ServerInv
  <2>7. CASE StopServer(s)
    <3> DEFINE new == [old EXCEPT !.step = "down"]
    <3>1. server' = [server EXCEPT ![s] = new] /\ UNCHANGED <<schema, recorded>>
      BY <2>7 DEF StopServer
    <3>2. new \in Working /\ new.step = "down" /\ new.at = old.at /\ new.applied = old.applied
      BY <2>2, StepFields DEF Steps
    <3> HIDE DEF new
    <3>3. QED BY <1>1, <2>2, <3>1, <3>2, OneServerMoves DEF ServerInv
  <2>8. CASE CommitMigration(s) BY <1>1, <2>8, CommitInv
  <2>9. QED BY <2>1, <2>3, <2>4, <2>5, <2>6, <2>7, <2>8
<1>4. QED BY <1>1, <1>2, <1>3

\* However servers start, crash and start again, each migration is applied once, in
\* order, and a server listens only when all of its own are.
THEOREM MigrationsApplyOnce == MigrateSpec => []MigratedOnce
<1>1. MigrateInv => MigratedOnce
  <2>1. SUFFICES ASSUME MigrateInv PROVE MigratedOnce OBVIOUS
  <2>2. ASSUME NEW s \in Servers, server[s].step = "serves" PROVE 1 .. Knows[s] \subseteq recorded
    <3>1. /\ \A v \in Nat \ {0} : v < server[s].at => v \in recorded
          /\ server[s].at > Knows[s] /\ server[s].at \in Nat /\ Knows[s] \in Nat
      BY <2>1, <2>2, MigrateAssumption, WorkingFields DEF MigrateInv, ServerInv
    <3>2. QED BY <3>1
  <2>3. QED BY <2>1, <2>2 DEF MigrateInv, SchemaInv, MigratedOnce
<1>2. QED BY <1>1, MigrateInitInv, MigrateStepInv, PTL DEF MigrateSpec

\* Only versions a server knows are applied: nothing else is ever recorded.
OnlyKnown ==
    \A s \in Servers : /\ server[s].at # 0
                       /\ server[s].step \in {"record", "commit"} => server[s].at <= Knows[s]

LEMMA MigrateTypeStep == MigrateTypeOK /\ OnlyKnown /\ [MigrateNext]_migrateVars => MigrateTypeOK' /\ OnlyKnown'
<1> SUFFICES ASSUME MigrateTypeOK, OnlyKnown, [MigrateNext]_migrateVars PROVE MigrateTypeOK' /\ OnlyKnown' OBVIOUS
<1>1. CASE UNCHANGED migrateVars BY <1>1 DEF migrateVars, MigrateTypeOK, OnlyKnown
<1>2. ASSUME NEW s \in Servers, UNCHANGED <<schema, recorded>>,
             NEW x \in Server, server' = [server EXCEPT ![s] = x],
             x.at # 0, x.step \in {"record", "commit"} => x.at <= Knows[s]
      PROVE  MigrateTypeOK' /\ OnlyKnown'
  BY <1>2 DEF MigrateTypeOK, OnlyKnown
<1>3. ASSUME NEW s \in Servers, StartServer(s) \/ Onward(s) \/ ApplyBody(s) \/ Record(s)
                                \/ CommitMigration(s) \/ StopServer(s)
      PROVE  MigrateTypeOK' /\ OnlyKnown'
  <2> DEFINE old == server[s]
  <2>1. /\ old \in Server /\ old.at \in Nat \ {0} /\ old.starts \in 0 .. MaxStarts /\ MaxStarts \in Nat
        /\ recorded \subseteq Versions /\ schema \in Seq(Versions) /\ Knows[s] \in Versions
        /\ old.step \in {"record", "commit"} => old.at <= Knows[s]
        /\ server \in [Servers -> Server]
    BY MigrateAssumption, KnowsVersions DEF MigrateTypeOK, OnlyKnown, Server
  <2>2. CASE StartServer(s)
    <3> DEFINE x == [step |-> "apply", at |-> 1, applied |-> recorded, starts |-> old.starts + 1]
    <3>1. server' = [server EXCEPT ![s] = x] /\ UNCHANGED <<schema, recorded>> /\ old.starts < MaxStarts
      BY <2>2 DEF StartServer
    <3>2. x \in Server /\ x.at # 0 /\ x.step = "apply" BY <2>1, <3>1 DEF Server
    <3> HIDE DEF x
    <3>3. QED BY <1>2, <3>1, <3>2
  <2>3. CASE Onward(s) /\ old.at > Knows[s]
    <3> DEFINE x == [old EXCEPT !.step = "serves"]
    <3>1. server' = [server EXCEPT ![s] = x] /\ UNCHANGED <<schema, recorded>> BY <2>3 DEF Onward
    <3>2. x \in Server /\ x.at # 0 /\ x.step = "serves" BY <2>1 DEF Server
    <3> HIDE DEF x
    <3>3. QED BY <1>2, <3>1, <3>2
  <2>4. CASE Onward(s) /\ ~(old.at > Knows[s])
    <3> DEFINE x == [old EXCEPT !.at = old.at + 1]
    <3>1. server' = [server EXCEPT ![s] = x] /\ UNCHANGED <<schema, recorded>> /\ old.step = "apply"
      BY <2>4 DEF Onward
    <3> DEFINE next == old.at + 1
    <3>2. next \in Nat \ {0} BY <2>1
    <3> HIDE DEF next
    <3>3. x = [old EXCEPT !.at = next] BY DEF next
    <3>4. x \in Server /\ x.at # 0 /\ x.step = "apply" BY <2>1, <3>1, <3>2, <3>3 DEF Server
    <3> HIDE DEF x
    <3>5. QED BY <1>2, <3>1, <3>4
  <2>5. CASE ApplyBody(s)
    <3> DEFINE x == [old EXCEPT !.step = "record"]
    <3>1. server' = [server EXCEPT ![s] = x] /\ UNCHANGED <<schema, recorded>> /\ old.at <= Knows[s]
      BY <2>5 DEF ApplyBody
    <3>2. x \in Server /\ x.at # 0 /\ x.at <= Knows[s] BY <2>1, <3>1 DEF Server
    <3> HIDE DEF x
    <3>3. QED BY <1>2, <3>1, <3>2
  <2>6. CASE Record(s)
    <3> DEFINE x == [old EXCEPT !.step = "commit"]
    <3>1. server' = [server EXCEPT ![s] = x] /\ UNCHANGED <<schema, recorded>> /\ old.step = "record"
      BY <2>6 DEF Record
    <3>2. x \in Server /\ x.at # 0 /\ x.at <= Knows[s] BY <2>1, <3>1 DEF Server
    <3> HIDE DEF x
    <3>3. QED BY <1>2, <3>1, <3>2
  <2>7. CASE StopServer(s)
    <3> DEFINE x == [old EXCEPT !.step = "down"]
    <3>1. server' = [server EXCEPT ![s] = x] /\ UNCHANGED <<schema, recorded>> BY <2>7 DEF StopServer
    <3>2. x \in Server /\ x.at # 0 /\ x.step = "down" BY <2>1 DEF Server
    <3> HIDE DEF x
    <3>3. QED BY <1>2, <3>1, <3>2
  <2>8. CASE CommitMigration(s)
    <3>1. /\ old.step = "commit" /\ schema' = Append(schema, old.at) /\ recorded' = recorded \cup {old.at}
          /\ \/ server' = [server EXCEPT ![s] = [old EXCEPT !.step = "apply", !.at = old.at + 1]]
             \/ server' = [server EXCEPT ![s] = [old EXCEPT !.step = "down"]]
      BY <2>8 DEF CommitMigration
    <3>2. old.at \in Versions BY <2>1, <3>1 DEF Versions
    <3>3. schema' \in Seq(Versions) /\ recorded' \subseteq Versions BY <2>1, <3>1, <3>2
    <3>4. PICK x : /\ server' = [server EXCEPT ![s] = x]
                   /\ \/ x = [old EXCEPT !.step = "apply", !.at = old.at + 1]
                      \/ x = [old EXCEPT !.step = "down"]
      BY <3>1
    <3> DEFINE next == old.at + 1
    <3>n. next \in Nat \ {0} BY <2>1
    <3> HIDE DEF next
    <3>5. x \in Server /\ x.at # 0 /\ x.step \in {"apply", "down"}
      <4>1. CASE x = [old EXCEPT !.step = "apply", !.at = next] BY <2>1, <3>n, <4>1 DEF Server
      <4>2. CASE x = [old EXCEPT !.step = "down"] BY <2>1, <4>2 DEF Server
      <4>3. QED BY <3>4, <4>1, <4>2 DEF next
    <3>6. server' \in [Servers -> Server] /\ \A t \in Servers : server'[t] = IF t = s THEN x ELSE server[t]
      BY <2>1, <3>4, <3>5
    <3>7. OnlyKnown' BY <3>5, <3>6 DEF OnlyKnown
    <3>8. QED BY <3>3, <3>6, <3>7 DEF MigrateTypeOK
  <2>9. QED BY <1>3, <2>2, <2>3, <2>4, <2>5, <2>6, <2>7, <2>8
<1>4. QED BY <1>1, <1>3 DEF MigrateNext

\* What is applied, recorded and in progress stays of its type: no version is
\* recorded that no server knows.
THEOREM MigrateTypeCorrect == MigrateSpec => []MigrateTypeOK
<1>1. MigrateInit => MigrateTypeOK /\ OnlyKnown
  BY MigrateAssumption DEF MigrateInit, MigrateTypeOK, OnlyKnown, Server, Versions
<1>2. QED BY <1>1, MigrateTypeStep, PTL DEF MigrateSpec

----------------------------------------------------------------------------
(* Sign-ins *)

----------------------------------------------------------------------------
(* Rows by address *)

AccountsOf(a) == {i \in 1 .. Len(users) : users[i].email[1] = a}

\* The account an address opens, once it has one.
Settled(a, i) == AccountsOf(a) # {} /\ i = Oldest(AccountsOf(a))

\* Every account of it was stored in lower case.
AllLower(a) == \A i \in AccountsOf(a) : users[i].email[2] = "lower"

\* An address and its casing.
LEMMA EmailFields ==
    ASSUME NEW email \in Emails
    PROVE  /\ email[1] \in Addresses /\ email[2] \in {"lower", "mixed"}
           /\ Lower(email) \in Emails
           /\ \A other \in Emails : Lower(email) = Lower(other) <=> email[1] = other[1]
BY DEF Emails, Lower

\* The query of findOrCreateUser goes by address.
LEMMA SameEmailIsAccountsOf ==
    ASSUME users \in Seq(User), NEW email \in Emails
    PROVE  SameEmail(email) = AccountsOf(email[1])
<1>1. \A i \in 1 .. Len(users) : users[i] \in User OBVIOUS
<1>2. \A i \in 1 .. Len(users) : users[i].email \in Emails BY <1>1 DEF User
<1>3. QED BY <1>2, EmailFields DEF SameEmail, AccountsOf

\* A set of positions has a least one.
LEMMA LeastOf ==
    ASSUME NEW S \in SUBSET Nat, S # {}
    PROVE  \E i \in S : \A j \in S : i <= j
<1>1. PICK i \in S : \A j \in S : ~(<<j, i>> \in OpToRel(<, Nat))
  BY NatLessThanWellFounded, WFMin
<1>2. \A j \in S : ~(j < i) BY <1>1 DEF OpToRel
<1>3. QED BY <1>2

\* The oldest of one.
LEMMA OldestOfOne ==
    ASSUME NEW k \in Nat
    PROVE  Oldest({k}) = k
<1>1. \E i \in {k} : \A j \in {k} : i <= j OBVIOUS
<1>2. QED BY <1>1 DEF Oldest

----------------------------------------------------------------------------
(* The invariant *)

\* The link was issued to the address.
OfLink(l, email) == links[l] \in Link /\ links[l].email = email

\* What a sign-in relies on between two statements: the account it found is the
\* one its address opens; if it found none, whatever came up meanwhile was stored
\* in the spelling it will store itself, so that the unique index tells.
SignInInv(e) ==
    /\ signIns[e].step \in {"commit", "cookie"} => Settled(signIns[e].email[1], signIns[e].user)
    /\ signIns[e].step \in {"probe", "insert"} => AllLower(signIns[e].email[1])
    /\ signIns[e].link # Nobody => OfLink(signIns[e].link, signIns[e].email)

AccountsTypes ==
    /\ users \in Seq(User)
    /\ links \in [Links -> Link \cup {Nobody}]
    /\ signIns \in [SignIns -> SignIn \cup {Nobody}]
    /\ sessions \subseteq Session

\* An address whose link is spent has accounts.
SpentSettled ==
    \A l \in Links : links[l] # Nobody /\ links[l].used => AccountsOf(links[l].email[1]) # {}

AccountsInv ==
    /\ AccountsTypes
    /\ \A e \in SignIns : signIns[e] # Nobody => SignInInv(e)
    /\ \A s \in sessions : Settled(s.address, s.user)
    /\ SpentSettled

\* Nobody is signed in at the start.
LEMMA AccountsInitInv == AccountsInit => AccountsInv
BY AccountsAssumption DEF AccountsInit, AccountsInv, AccountsTypes, SpentSettled

\* A sign-in moves on, and may add a row and a session.
LEMMA SignInMoves ==
    ASSUME AccountsInv, NEW e \in SignIns,
           NEW x \in SignIn \cup {Nobody}, signIns' = [signIns EXCEPT ![e] = x],
           users' \in Seq(User),
           \A a, i : Settled(a, i) => Settled(a, i)',
           \A a : AllLower(a) => AllLower(a)',
           links' \in [Links -> Link \cup {Nobody}],
           \A l \in Links : links[l] \in Link => links'[l] \in Link /\ links'[l].email = links[l].email,
           \A l \in Links : \/ links'[l] = links[l]
                            \/ AccountsOf(links[l].email[1])' # {},
           sessions' \subseteq Session,
           \A s \in sessions' \ sessions : Settled(s.address, s.user)',
           x # Nobody =>
              /\ x.step \in {"commit", "cookie"} => Settled(x.email[1], x.user)'
              /\ x.step \in {"probe", "insert"} => AllLower(x.email[1])'
              /\ x.link # Nobody => OfLink(x.link, x.email)
    PROVE  AccountsInv'
<1>1. AccountsTypes' BY DEF AccountsInv, AccountsTypes
<1>2. ASSUME NEW d \in SignIns, signIns'[d] # Nobody PROVE SignInInv(d)'
  <2>1. signIns'[d] = IF d = e THEN x ELSE signIns[d] BY DEF AccountsInv, AccountsTypes
  <2>2. signIns'[d] \in SignIn BY <1>1, <1>2 DEF AccountsTypes
  <2>3. signIns'[d].link \in Links \cup {Nobody} BY <2>2 DEF SignIn
  <2>4. CASE d = e BY <1>2, <2>1, <2>3, <2>4 DEF SignInInv, OfLink
  <2>5. CASE d # e
    <3>1. SignInInv(d) BY <1>2, <2>1, <2>5 DEF AccountsInv
    <3>2. QED BY <2>1, <2>3, <2>5, <3>1 DEF SignInInv, OfLink
  <2>6. QED BY <2>4, <2>5
<1>3. \A s \in sessions' : Settled(s.address, s.user)' BY DEF AccountsInv
<1>4. SpentSettled'
  <2>1. \A a : AccountsOf(a) # {} => AccountsOf(a)' # {}
    <3>1. \A a : AccountsOf(a) # {} => Settled(a, Oldest(AccountsOf(a))) BY DEF Settled
    <3>2. \A a, i : Settled(a, i)' => AccountsOf(a)' # {} BY DEF Settled
    <3>3. QED BY <3>1, <3>2
  <2>2. ASSUME NEW l \in Links, links'[l] # Nobody, links'[l].used
        PROVE  AccountsOf(links[l].email[1])' # {}
    <3>1. CASE links'[l] = links[l]
      <4>1. PICK a : a = links[l].email[1] OBVIOUS
      <4>2. AccountsOf(a) # {} BY <2>2, <3>1, <4>1 DEF AccountsInv, SpentSettled
      <4>3. AccountsOf(a)' # {} BY <2>1, <4>2
      <4>4. QED BY <3>1, <4>1, <4>3
    <3>2. QED BY <3>1
  <2>3. QED BY <2>2 DEF SpentSettled
<1>5. QED BY <1>1, <1>2, <1>3, <1>4 DEF AccountsInv

\* While no row is added nothing is unsettled.
LEMMA SameUsers ==
    ASSUME UNCHANGED users
    PROVE  /\ \A a, i : Settled(a, i) => Settled(a, i)'
           /\ \A a : AllLower(a) => AllLower(a)'
<1>1. \A a : AccountsOf(a)' = AccountsOf(a) BY DEF AccountsOf
<1>2. QED BY <1>1 DEF Settled, AllLower

\* A rename leaves every address where it was.
LEMMA RenamedUsers ==
    ASSUME users \in Seq(User), NEW k \in 1 .. Len(users), NEW h \in Handles,
           users' = [users EXCEPT ![k].handle = h]
    PROVE  /\ users' \in Seq(User)
           /\ \A a, i : Settled(a, i) => Settled(a, i)'
           /\ \A a : AllLower(a) => AllLower(a)'
<1> DEFINE new == [users[k] EXCEPT !.handle = h]
<1>1. users[k] \in User OBVIOUS
<1>2. new \in User /\ new.email = users[k].email BY <1>1 DEF User
<1>3. users' = [users EXCEPT ![k] = new] OBVIOUS
<1> HIDE DEF new
<1>4. users' \in Seq(User) /\ Len(users') = Len(users) BY <1>2, <1>3
<1>5. \A i \in 1 .. Len(users) : users'[i].email = users[i].email BY <1>2, <1>3
<1>6. \A a : AccountsOf(a)' = AccountsOf(a) BY <1>4, <1>5 DEF AccountsOf
<1>7. QED BY <1>4, <1>5, <1>6 DEF Settled, AllLower, AccountsOf

\* A row is added only for an address without one; it settles the address.
LEMMA AddedUser ==
    ASSUME users \in Seq(User), NEW email \in Emails, NEW h \in Handles,
           NEW k \in Nat, k = Len(users) + 1, AllLower(email[1]), Insertable(StoredEmail(email), h),
           users' = Append(users, [email |-> StoredEmail(email), handle |-> h])
    PROVE  /\ users' \in Seq(User)
           /\ \A a, i : Settled(a, i) => Settled(a, i)'
           /\ \A a : AllLower(a) => AllLower(a)'
           /\ Settled(email[1], k)'
<1> DEFINE row == [email |-> Lower(email), handle |-> h]
<1>1. row \in User /\ row.email = <<email[1], "lower">> BY EmailFields DEF User, Lower
<1>2. users' = Append(users, row) BY DEF StoredEmail
<1>3. row.email[1] = email[1] /\ row.email[2] = "lower" BY <1>1
<1> HIDE DEF row
<1>4. /\ users' \in Seq(User) /\ Len(users') = k /\ k \in Nat
      /\ users'[k] = row /\ \A i \in 1 .. Len(users) : users'[i] = users[i]
  BY <1>1, <1>2
<1>5. \A i \in 1 .. Len(users) : users[i] \in User OBVIOUS
<1>6. \A i \in 1 .. Len(users) : users[i].email \in Emails BY <1>5 DEF User
<1>7. AccountsOf(email[1]) = {}
  <2>1. ASSUME NEW i \in AccountsOf(email[1]) PROVE FALSE
    <3>1. i \in 1 .. Len(users) /\ users[i].email[1] = email[1] BY DEF AccountsOf
    <3>2. users[i].email[2] = "lower" BY DEF AllLower
    <3>3. users[i].email = <<email[1], "lower">> BY <1>6, <3>1, <3>2 DEF Emails
    <3>4. users[i].email # <<email[1], "lower">> BY <3>1 DEF Insertable, StoredEmail, Lower
    <3>5. QED BY <3>3, <3>4
  <2>2. QED BY <2>1
<1>8. AccountsOf(email[1])' = {k}
  <2>1. \A i \in 1 .. Len(users') : users'[i].email[1] = email[1] <=> i = k
    <3>1. \A i \in 1 .. Len(users) : users'[i].email[1] # email[1] BY <1>4, <1>7 DEF AccountsOf
    <3>2. QED BY <1>3, <1>4, <3>1
  <2>2. k \in 1 .. Len(users') BY <1>4
  <2>3. QED BY <2>1, <2>2 DEF AccountsOf
<1>9. \A a : a # email[1] => AccountsOf(a)' = AccountsOf(a) BY <1>3, <1>4 DEF AccountsOf
<1>10. Settled(email[1], k)'
  <2>1. Oldest(AccountsOf(email[1]))' = Oldest({k}) BY <1>8 DEF Oldest
  <2>2. QED BY <1>4, <1>8, <2>1, OldestOfOne DEF Settled
<1>11. \A a, i : Settled(a, i) => Settled(a, i)' BY <1>7, <1>9 DEF Settled
<1>12. \A a : AllLower(a) => AllLower(a)'
  <2>1. ASSUME NEW a, AllLower(a), NEW i \in AccountsOf(a)' PROVE users'[i].email[2] = "lower"
    <3>1. CASE a = email[1] BY <1>3, <1>4, <1>8, <2>1, <3>1
    <3>2. CASE a # email[1]
      <4>1. i \in AccountsOf(a) BY <1>9, <2>1, <3>2
      <4>2. QED BY <1>4, <2>1, <4>1 DEF AllLower, AccountsOf
    <3>3. QED BY <3>1, <3>2
  <2>2. QED BY <2>1 DEF AllLower
<1>13. QED BY <1>4, <1>10, <1>11, <1>12

\* Links that change in no request: the same, with no sign-in moving.
LEMMA LinkIssuedInv ==
    ASSUME AccountsInv, NEW l \in Links, NEW a \in Addresses, IssueToken(l, a)
    PROVE  AccountsInv'
<1> DEFINE new == [email |-> <<a, "lower">>, used |-> FALSE]
<1>1. new \in Link BY DEF Link, Emails
<1>2. links' = [links EXCEPT ![l] = new] /\ links[l] = Nobody /\ UNCHANGED <<users, signIns, sessions>>
  BY DEF IssueToken
<1>3. AccountsTypes' BY <1>1, <1>2 DEF AccountsInv, AccountsTypes
<1>4. \A b : AccountsOf(b)' = AccountsOf(b) BY <1>2 DEF AccountsOf
<1>5. \A k \in Links : links'[k] = IF k = l THEN new ELSE links[k]
  BY <1>2 DEF AccountsInv, AccountsTypes
<1>0. ~new.used OBVIOUS
<1> HIDE DEF new
<1>6. ASSUME NEW d \in SignIns, signIns'[d] # Nobody PROVE SignInInv(d)'
  <2>1. SignInInv(d) BY <1>2, <1>6 DEF AccountsInv
  <2>2. signIns[d].link \in Links \cup {Nobody}
    BY <1>2, <1>6 DEF AccountsInv, AccountsTypes, SignIn
  <2>3. signIns'[d] = signIns[d] BY <1>2
  <2>4. CASE signIns[d].link = Nobody BY <1>2, <2>1, <2>3, <2>4, SameUsers DEF SignInInv
  <2>5. CASE signIns[d].link # Nobody
    <3>1. OfLink(signIns[d].link, signIns[d].email) BY <2>1, <2>5 DEF SignInInv
    <3>2. signIns[d].link # l BY <1>2, <3>1, NobodyAssumption DEF OfLink
    <3>3. links'[signIns[d].link] = links[signIns[d].link] BY <1>5, <2>2, <2>5, <3>2
    <3>4. QED BY <1>2, <2>1, <2>3, <2>5, <3>3, SameUsers DEF SignInInv, OfLink
  <2>6. QED BY <2>4, <2>5
<1>7. \A s \in sessions' : Settled(s.address, s.user)' BY <1>2, <1>4 DEF AccountsInv, Settled
<1>8. SpentSettled' BY <1>0, <1>4, <1>5 DEF AccountsInv, SpentSettled
<1>9. QED BY <1>3, <1>6, <1>7, <1>8 DEF AccountsInv

----------------------------------------------------------------------------
(* Every step keeps it *)

\* The fields of a sign-in.
LEMMA SignInFields ==
    ASSUME NEW x \in SignIn
    PROVE  /\ x.email \in Emails /\ x.link \in Links \cup {Nobody}
           /\ x.suffix \in HandleSuffixes /\ x.user \in Nat
           /\ x.email[1] \in Addresses
           /\ \A st \in {"mark", "find", "probe", "insert", "commit", "cookie", "rename"} :
                 LET y == [x EXCEPT !.step = st] IN
                 /\ y \in SignIn /\ y.step = st
                 /\ y.email = x.email /\ y.link = x.link /\ y.user = x.user
BY EmailFields DEF SignIn

\* A candidate for a handle is one.
LEMMA CandidateType ==
    ASSUME NEW e \in SignIns, signIns[e] \in SignIn
    PROVE  Candidate(e) \in Handles
BY SignInFields DEF Candidate, Handles

\* A request that begins a sign-in or a rename, in its first step.
LEMMA BeginsInv ==
    ASSUME AccountsInv, NEW e \in SignIns, UNCHANGED <<users, links, sessions>>,
           NEW x \in SignIn, signIns' = [signIns EXCEPT ![e] = x],
           x.step \in {"mark", "find", "rename"}, x.link # Nobody => OfLink(x.link, x.email)
    PROVE  AccountsInv'
<1>1. users' \in Seq(User) /\ links' \in [Links -> Link \cup {Nobody}] /\ sessions' \subseteq Session
  BY DEF AccountsInv, AccountsTypes
<1>2. QED BY <1>1, SameUsers, SignInMoves

\* A request at another step of its sign-in, with nothing written.
LEMMA GoesOnInv ==
    ASSUME AccountsInv, NEW e \in SignIns, signIns[e] # Nobody,
           UNCHANGED <<users, links, sessions>>,
           NEW x \in SignIn, signIns' = [signIns EXCEPT ![e] = x],
           x.email = signIns[e].email, x.link = signIns[e].link,
           x.step \in {"commit", "cookie"} => Settled(x.email[1], x.user),
           x.step \in {"probe", "insert"} => AllLower(x.email[1])
    PROVE  AccountsInv'
<1>1. users' \in Seq(User) /\ links' \in [Links -> Link \cup {Nobody}] /\ sessions' \subseteq Session
  BY DEF AccountsInv, AccountsTypes
<1>2. x.link # Nobody => OfLink(x.link, x.email) BY DEF AccountsInv, SignInInv
<1>3. QED BY <1>1, <1>2, SameUsers, SignInMoves

\* Reading the link, the mark on it, Google's answer, and a rename that looks first.
LEMMA FirstStepsInv ==
    ASSUME AccountsInv, NEW e \in SignIns,
           \/ \E l \in Links : ConsumeToken(e, l)
           \/ \E email \in Emails : GoogleCallback(e, email)
           \/ \E i \in 1 .. Len(users), s \in HandleSuffixes :
                 RenameCheck(e, i, <<users[i].handle[1], s>>)
           \/ MarkUsed(e)
    PROVE  AccountsInv'
<1>0. /\ \A i \in 1 .. Len(users) : users[i] \in User
      /\ 1 \in HandleSuffixes
  BY AccountsAssumption DEF AccountsInv, AccountsTypes, HandleSuffixes
<1>1. CASE \E l \in Links : ConsumeToken(e, l)
  <2>1. PICK l \in Links : ConsumeToken(e, l) BY <1>1
  <2> DEFINE x == [step |-> "mark", link |-> l, email |-> links[l].email, user |-> 0, suffix |-> 1]
  <2>2. links[l] \in Link BY <2>1 DEF ConsumeToken, AccountsInv, AccountsTypes
  <2>3. x \in SignIn BY <1>0, <2>2 DEF SignIn, Link
  <2>5. signIns' = [signIns EXCEPT ![e] = x] /\ UNCHANGED <<users, links, sessions>>
    BY <2>1 DEF ConsumeToken
  <2>6. x.step = "mark" /\ x.link = l /\ x.email = links[l].email OBVIOUS
  <2> HIDE DEF x
  <2>7. QED BY <2>2, <2>3, <2>5, <2>6, BeginsInv DEF OfLink
<1>2. CASE \E email \in Emails : GoogleCallback(e, email)
  <2>1. PICK email \in Emails : GoogleCallback(e, email) BY <1>2
  <2> DEFINE x == [step |-> "find", link |-> Nobody, email |-> email, user |-> 0, suffix |-> 1]
  <2>2. x \in SignIn BY <1>0 DEF SignIn
  <2>3. signIns' = [signIns EXCEPT ![e] = x] /\ UNCHANGED <<users, links, sessions>>
    BY <2>1 DEF GoogleCallback
  <2>4. x.step = "find" /\ x.link = Nobody OBVIOUS
  <2> HIDE DEF x
  <2>5. QED BY <2>2, <2>3, <2>4, BeginsInv
<1>3. CASE \E i \in 1 .. Len(users), s \in HandleSuffixes :
               RenameCheck(e, i, <<users[i].handle[1], s>>)
  <2>1. PICK i \in 1 .. Len(users), s \in HandleSuffixes :
                RenameCheck(e, i, <<users[i].handle[1], s>>)
    BY <1>3
  <2> DEFINE x == [step |-> "rename", link |-> Nobody, email |-> users[i].email,
                   user |-> i, suffix |-> s]
  <2>2. x \in SignIn
    <3>1. users[i] \in User /\ i \in Nat BY <1>0
    <3>2. users[i].email \in Emails BY <3>1 DEF User
    <3>3. QED BY <3>1, <3>2 DEF SignIn
  <2>3. signIns' = [signIns EXCEPT ![e] = x] /\ UNCHANGED <<users, links, sessions>>
    BY <2>1 DEF RenameCheck
  <2>4. x.step = "rename" /\ x.link = Nobody OBVIOUS
  <2> HIDE DEF x
  <2>5. QED BY <2>2, <2>3, <2>4, BeginsInv
<1>4. CASE MarkUsed(e)
  <2> DEFINE x == [signIns[e] EXCEPT !.step = "find"]
  <2>1. signIns[e] \in SignIn /\ signIns[e] # Nobody
    BY <1>4 DEF MarkUsed, AccountsInv, AccountsTypes
  <2>2. x \in SignIn /\ x.step = "find" /\ x.email = signIns[e].email /\ x.link = signIns[e].link
    BY <2>1, SignInFields
  <2>3. signIns' = [signIns EXCEPT ![e] = x] /\ UNCHANGED <<users, links, sessions>>
    BY <1>4 DEF MarkUsed, Goto
  <2> HIDE DEF x
  <2>4. QED BY <2>1, <2>2, <2>3, GoesOnInv
<1>5. QED BY <1>1, <1>2, <1>3, <1>4

\* The lookup of the address.
LEMMA FindUserInv ==
    ASSUME AccountsInv, NEW e \in SignIns, FindUser(e)
    PROVE  AccountsInv'
<1> DEFINE found == SameEmail(signIns[e].email)
           x == [signIns[e] EXCEPT !.step = IF found = {} THEN "probe" ELSE "commit",
                                   !.user = IF found = {} THEN 0 ELSE Oldest(found)]
<1>1. signIns[e] \in SignIn /\ signIns[e] # Nobody /\ users \in Seq(User)
  BY DEF FindUser, AccountsInv, AccountsTypes
<1>2. signIns' = [signIns EXCEPT ![e] = x] /\ UNCHANGED <<users, links, sessions>>
  BY DEF FindUser
<1>3. found = AccountsOf(signIns[e].email[1])
  BY <1>1, SameEmailIsAccountsOf, SignInFields
<1>4. found # {} => Oldest(found) \in Nat
  <2>1. found \subseteq Nat BY DEF SameEmail
  <2>2. found # {} => \E i \in found : \A j \in found : i <= j BY <2>1, LeastOf
  <2>3. QED BY <2>1, <2>2 DEF Oldest
<1>5. /\ x \in SignIn
      /\ x.step = IF found = {} THEN "probe" ELSE "commit"
      /\ x.user = IF found = {} THEN 0 ELSE Oldest(found)
      /\ x.email = signIns[e].email /\ x.link = signIns[e].link
  BY <1>1, <1>4 DEF SignIn
<1> HIDE DEF x
<1>6. x.step \in {"commit", "cookie"} => Settled(x.email[1], x.user) BY <1>3, <1>5 DEF Settled
<1>7. x.step \in {"probe", "insert"} => AllLower(x.email[1]) BY <1>3, <1>5 DEF AllLower
<1>8. QED BY <1>1, <1>2, <1>5, <1>6, <1>7, GoesOnInv

\* A round of uniqueHandle.
LEMMA ProbeHandleInv ==
    ASSUME AccountsInv, NEW e \in SignIns, ProbeHandle(e)
    PROVE  AccountsInv'
<1>1. /\ signIns[e] \in SignIn /\ signIns[e] # Nobody /\ signIns[e].step = "probe"
      /\ AllLower(signIns[e].email[1])
  BY DEF ProbeHandle, AccountsInv, AccountsTypes, SignInInv
<1>2. UNCHANGED <<users, links, sessions>> BY DEF ProbeHandle
<1>3. CASE HandleTaken(Candidate(e))
  <2> DEFINE x == [signIns[e] EXCEPT !.suffix = signIns[e].suffix + 1]
  <2>1. signIns[e].suffix + 1 \in HandleSuffixes
    <3>0. signIns[e].suffix \in HandleSuffixes BY <1>1, SignInFields
    <3>1. signIns[e].suffix \in Nat \ {0} BY <3>0, AccountsAssumption DEF HandleSuffixes
    <3>2. signIns[e].suffix <= MaxCollisions - 2 /\ MaxCollisions \in Nat
      BY AccountsAssumption DEF ProbeHandle
    <3>3. QED BY <3>1, <3>2 DEF HandleSuffixes
  <2>2. /\ x \in SignIn /\ x.step = "probe"
        /\ x.email = signIns[e].email /\ x.link = signIns[e].link
    BY <1>1, <2>1 DEF SignIn
  <2>3. signIns' = [signIns EXCEPT ![e] = x] BY <1>3 DEF ProbeHandle
  <2> HIDE DEF x
  <2>4. QED BY <1>1, <1>2, <2>2, <2>3, GoesOnInv
<1>4. CASE ~HandleTaken(Candidate(e))
  <2> DEFINE x == [signIns[e] EXCEPT !.step = "insert"]
  <2>1. x \in SignIn /\ x.step = "insert" /\ x.email = signIns[e].email /\ x.link = signIns[e].link
    BY <1>1, SignInFields
  <2>2. signIns' = [signIns EXCEPT ![e] = x] BY <1>4 DEF ProbeHandle, Goto
  <2> HIDE DEF x
  <2>3. QED BY <1>1, <1>2, <2>1, <2>2, GoesOnInv
<1>5. QED BY <1>3, <1>4

\* COMMIT marks the link of the request used, and changes nothing else of the links.
LEMMA SpentLinks ==
    ASSUME AccountsInv, NEW e \in SignIns, signIns[e] # Nobody, NEW k, Committed(e, k)
    PROVE  /\ links' \in [Links -> Link \cup {Nobody}]
           /\ \A l \in Links : links[l] \in Link => links'[l] \in Link /\ links'[l].email = links[l].email
           /\ \A l \in Links : links'[l] = links[l] \/ links'[l].email = signIns[e].email
<1>1. /\ links \in [Links -> Link \cup {Nobody}] /\ signIns[e] \in SignIn
      /\ signIns[e].link # Nobody => OfLink(signIns[e].link, signIns[e].email)
  BY DEF AccountsInv, AccountsTypes, SignInInv
<1>2. CASE signIns[e].link = Nobody
  BY <1>1, <1>2 DEF Committed
<1>3. CASE signIns[e].link # Nobody
  <2> DEFINE l == signIns[e].link
             new == [links[l] EXCEPT !.used = TRUE]
  <2>1. l \in Links /\ links[l] \in Link /\ links[l].email = signIns[e].email
    BY <1>1, <1>3, SignInFields DEF OfLink
  <2>2. new \in Link /\ new.email = signIns[e].email BY <2>1 DEF Link
  <2>3. links' = [links EXCEPT ![l] = new] BY <1>3 DEF Committed
  <2> HIDE DEF new
  <2>4. links' \in [Links -> Link \cup {Nobody}] BY <1>1, <2>2, <2>3
  <2>5. \A m \in Links : links'[m] = IF m = l THEN new ELSE links[m] BY <1>1, <2>3
  <2>6. QED BY <2>1, <2>2, <2>4, <2>5
<1>4. QED BY <1>2, <1>3

\* Both ends of a transaction: the account was there, or its row is inserted now.
LEMMA CommittedInv ==
    ASSUME AccountsInv, NEW e \in SignIns, CommitSignIn(e) \/ InsertUser(e)
    PROVE  AccountsInv'
<1> DEFINE x == signIns[e]
<1>1. x \in SignIn /\ x # Nobody /\ SignInInv(e) /\ users \in Seq(User) /\ sessions \subseteq Session
  BY DEF CommitSignIn, InsertUser, AccountsInv, AccountsTypes
<1>2. x.email \in Emails /\ x.user \in Nat BY <1>1, SignInFields
<1>0. PICK m \in Emails : m = x.email BY <1>2
<1>3. PICK k \in Nat :
        /\ Committed(e, k) /\ users' \in Seq(User)
        /\ \A a, i : Settled(a, i) => Settled(a, i)'
        /\ \A a : AllLower(a) => AllLower(a)'
        /\ Settled(m[1], k)'
  <2>1. CASE CommitSignIn(e)
    <3>1. PICK k \in Nat : k = x.user BY <1>2
    <3>2. Committed(e, k) /\ users' = users /\ Settled(m[1], k)
      BY <1>0, <1>1, <2>1, <3>1 DEF CommitSignIn, SignInInv
    <3>3. QED BY <1>1, <3>2, SameUsers
  <2>2. CASE InsertUser(e)
    <3>1. PICK k \in Nat : k = Len(users) + 1 BY <1>1
    <3>2. AllLower(m[1]) BY <1>0, <1>1, <2>2 DEF InsertUser, SignInInv
    <3>3. PICK h \in Handles : h = Candidate(e) BY <1>1, CandidateType
    <3>4. /\ Insertable(StoredEmail(m), h)
          /\ users' = Append(users, [email |-> StoredEmail(m), handle |-> h])
          /\ Committed(e, k)
      BY <1>0, <2>2, <3>1, <3>3 DEF InsertUser
    <3>5. QED BY <1>1, <3>1, <3>2, <3>4, AddedUser
  <2>3. QED BY <2>1, <2>2
<1>4. /\ links' \in [Links -> Link \cup {Nobody}]
      /\ \A l \in Links : links[l] \in Link => links'[l] \in Link /\ links'[l].email = links[l].email
      /\ \A l \in Links : links'[l] = links[l] \/ links'[l].email = m
  BY <1>0, <1>1, <1>3, SpentLinks
<1>5. \A l \in Links : links'[l] = links[l] \/ AccountsOf(links[l].email[1])' # {}
  <2>1. AccountsOf(m[1])' # {} BY <1>3 DEF Settled
  <2>2. ASSUME NEW l \in Links, links'[l] # links[l] PROVE AccountsOf(links[l].email[1])' # {}
    <3>1. links'[l].email = m BY <1>4, <2>2
    <3>2. QED BY <2>1, <3>1
  <2>3. QED BY <2>2
<1>6. sessions' = sessions BY <1>3 DEF Committed
<1> DEFINE y == [x EXCEPT !.step = "cookie", !.user = k]
<1>7. /\ y \in SignIn /\ y.step = "cookie" /\ y.email = m /\ y.user = k /\ y.link = x.link
  BY <1>0, <1>1 DEF SignIn
<1>8. CASE signIns' = [signIns EXCEPT ![e] = Nobody]
  BY <1>1, <1>3, <1>4, <1>5, <1>6, <1>8, SignInMoves
<1>9. CASE signIns' = [signIns EXCEPT ![e].step = "cookie", ![e].user = k]
  <2>1. signIns' = [signIns EXCEPT ![e] = y] BY <1>9 DEF AccountsInv, AccountsTypes
  <2>2. PICK z \in SignIn : z = y BY <1>7
  <2>3. /\ z.step = "cookie" /\ z.email = m /\ z.user = k /\ signIns' = [signIns EXCEPT ![e] = z]
        /\ z.link # Nobody => OfLink(z.link, z.email)
    BY <1>0, <1>1, <1>7, <2>1, <2>2 DEF SignInInv
  <2> HIDE DEF y
  <2>4. QED BY <1>1, <1>3, <1>4, <1>5, <1>6, <2>3, SignInMoves
<1>10. QED BY <1>3, <1>8, <1>9 DEF Committed

\* The cookie is set for the account that was committed.
LEMMA SetSessionInv ==
    ASSUME AccountsInv, NEW e \in SignIns, SetSession(e)
    PROVE  AccountsInv'
<1> DEFINE x == signIns[e]
<1>1. /\ x \in SignIn /\ x # Nobody /\ Settled(x.email[1], x.user)
      /\ users \in Seq(User) /\ sessions \subseteq Session /\ links \in [Links -> Link \cup {Nobody}]
  BY DEF SetSession, AccountsInv, AccountsTypes, SignInInv
<1>2. x.email[1] \in Addresses /\ x.user \in Nat BY <1>1, SignInFields
<1>3. PICK a \in Addresses, k \in Nat : a = x.email[1] /\ k = x.user BY <1>2
<1>4. /\ signIns' = [signIns EXCEPT ![e] = Nobody] /\ UNCHANGED <<users, links>>
      /\ sessions' = sessions \cup {[address |-> a, user |-> k]}
  BY <1>3 DEF SetSession
<1>5. sessions' \subseteq Session BY <1>1, <1>4 DEF Session
<1>6. \A s \in sessions' \ sessions : Settled(s.address, s.user)'
  <2>1. TAKE s \in sessions' \ sessions
  <2>2. s.address = a /\ s.user = k BY <1>4
  <2>3. QED BY <1>1, <1>3, <1>4, <2>2, SameUsers
<1>7. QED BY <1>1, <1>4, <1>5, <1>6, SameUsers, SignInMoves

\* A sign-in or a rename that is given up leaves no trace.
LEMMA AbandonInv ==
    ASSUME AccountsInv, NEW e \in SignIns, Abandon(e)
    PROVE  AccountsInv'
<1>1. signIns' = [signIns EXCEPT ![e] = Nobody] /\ UNCHANGED <<users, links, sessions>>
  BY DEF Abandon, Abandoned
<1>2. users' \in Seq(User) /\ links' \in [Links -> Link \cup {Nobody}] /\ sessions' \subseteq Session
  BY <1>1 DEF AccountsInv, AccountsTypes
<1>3. QED BY <1>1, <1>2, SameUsers, SignInMoves

\* A handle changes; addresses do not.
LEMMA RenameInv ==
    ASSUME AccountsInv, NEW e \in SignIns, Rename(e)
    PROVE  AccountsInv'
<1>1. /\ signIns[e] \in SignIn /\ users \in Seq(User)
      /\ signIns' = [signIns EXCEPT ![e] = Nobody] /\ UNCHANGED <<links, sessions>>
      /\ users' = [users EXCEPT ![signIns[e].user].handle = Candidate(e)]
  BY DEF Rename, AccountsInv, AccountsTypes
<1>2. links' \in [Links -> Link \cup {Nobody}] /\ sessions' \subseteq Session
  BY <1>1 DEF AccountsInv, AccountsTypes
<1>4. Candidate(e) \in Handles BY <1>1, CandidateType
<1>5. PICK i \in Nat : i = signIns[e].user BY <1>1, SignInFields
<1>6. users' = [users EXCEPT ![i].handle = Candidate(e)] BY <1>1, <1>5
<1>7. CASE i \in 1 .. Len(users)
  <2>1. PICK h \in Handles : h = Candidate(e) BY <1>4
  <2>2. users' = [users EXCEPT ![i].handle = h] BY <1>6, <2>1
  <2>3. QED BY <1>1, <1>2, <1>7, <2>2, RenamedUsers, SignInMoves
<1>8. CASE i \notin 1 .. Len(users)
  <2>1. users' = users BY <1>1, <1>6, <1>8
  <2>2. QED BY <1>1, <1>2, <2>1, SameUsers, SignInMoves
<1>9. QED BY <1>7, <1>8

\* Every step keeps the invariant.
LEMMA AccountsStepInv == AccountsInv /\ [AccountsNext]_accountsVars => AccountsInv'
<1>1. SUFFICES ASSUME AccountsInv, [AccountsNext]_accountsVars PROVE AccountsInv' OBVIOUS
<1>2. CASE UNCHANGED accountsVars
  <2>1. AccountsTypes'
    BY <1>1, <1>2 DEF accountsVars, AccountsInv, AccountsTypes
  <2>2. \A e \in SignIns : signIns'[e] # Nobody => SignInInv(e)'
    BY <1>1, <1>2, SameUsers DEF accountsVars, AccountsInv, SignInInv, OfLink
  <2>3. \A s \in sessions' : Settled(s.address, s.user)'
    BY <1>1, <1>2, SameUsers DEF accountsVars, AccountsInv
  <2>4. SpentSettled' BY <1>1, <1>2 DEF accountsVars, AccountsInv, SpentSettled, AccountsOf
  <2>5. QED BY <2>1, <2>2, <2>3, <2>4 DEF AccountsInv
<1>3. CASE AccountsNext
  BY <1>1, <1>3, LinkIssuedInv, FirstStepsInv, FindUserInv, ProbeHandleInv, CommittedInv,
     SetSessionInv,
     AbandonInv, RenameInv DEF AccountsNext
<1>4. QED BY <1>1, <1>2, <1>3

\* In every reachable state of sign-in and renames, whatever links are clicked
\* twice, mistyped or left behind, the inductive invariant holds: what a request
\* has read of the account or the link still describes it.
THEOREM AccountsInvariant == AccountsSpec => []AccountsInv
BY AccountsInitInv, AccountsStepInv, PTL DEF AccountsSpec

\* All sessions opened with one address are of one account, whatever its casing and
\* however many first sign-ins race for it, and where old rows differ in casing
\* alone: those stay two rows, and one of them is never signed in to.
THEOREM OneAccountPerAddress == AccountsSpec => []SameEmailSameAccount
<1>1. AccountsInv => SameEmailSameAccount BY DEF AccountsInv, Settled, SameEmailSameAccount
<1>2. QED BY <1>1, AccountsInvariant, PTL

\* A magic link that is spent, with or without anybody signed in, has its account.
THEOREM SpentLinksHaveAccounts == AccountsSpec => []SpentLinkHasAccount
<1>1. AccountsInv => SpentLinkHasAccount
  <2>1. SUFFICES ASSUME AccountsInv, NEW l \in Links, links[l] # Nobody, links[l].used
                 PROVE  SameEmail(links[l].email) # {}
    BY DEF SpentLinkHasAccount
  <2>2. users \in Seq(User) /\ links[l].email \in Emails /\ AccountsOf(links[l].email[1]) # {}
    BY <2>1 DEF AccountsInv, AccountsTypes, SpentSettled, Link
  <2>3. QED BY <2>2, SameEmailIsAccountsOf
<1>2. QED BY <1>1, AccountsInvariant, PTL

\* The table within its bound, and locks on links alone: only a sign-in that came
\* with a link takes one.
LocksOfLinks ==
    /\ Len(users) <= MaxUsers
    /\ linkLocks \subseteq Links
    /\ \A e \in SignIns : signIns[e] # Nobody /\ signIns[e].step = "mark" => signIns[e].link \in Links

LEMMA LocksOfLinksStep == AccountsInv /\ LocksOfLinks /\ [AccountsNext]_accountsVars => LocksOfLinks'
<1> SUFFICES ASSUME AccountsInv, LocksOfLinks, [AccountsNext]_accountsVars PROVE LocksOfLinks' OBVIOUS
<1>0. /\ users \in Seq(User) /\ signIns \in [SignIns -> SignIn \cup {Nobody}] /\ MaxUsers \in Nat
      /\ Len(users) <= MaxUsers /\ linkLocks \subseteq Links
      /\ \A e \in SignIns : signIns[e] # Nobody /\ signIns[e].step = "mark" => signIns[e].link \in Links
  BY AccountsAssumption DEF AccountsInv, AccountsTypes, LocksOfLinks
<1>1. ASSUME NEW e \in SignIns, NEW x, signIns' = [signIns EXCEPT ![e] = x],
             x # Nobody /\ x.step = "mark" => x.link \in Links,
             Len(users') <= MaxUsers, linkLocks' \subseteq Links
      PROVE  LocksOfLinks'
  BY <1>0, <1>1 DEF LocksOfLinks
<1>2. CASE UNCHANGED accountsVars BY <1>0, <1>2 DEF accountsVars, LocksOfLinks
<1>3. ASSUME NEW l \in Links, NEW a \in Addresses, IssueToken(l, a) PROVE LocksOfLinks'
  BY <1>0, <1>3 DEF IssueToken, LocksOfLinks
<1>4. ASSUME NEW e \in SignIns, NEW l \in Links, ConsumeToken(e, l) PROVE LocksOfLinks'
  BY <1>0, <1>1, <1>4 DEF ConsumeToken
<1>5. ASSUME NEW e \in SignIns, NEW email \in Emails, GoogleCallback(e, email) PROVE LocksOfLinks'
  BY <1>0, <1>1, <1>5 DEF GoogleCallback
<1>6. ASSUME NEW e \in SignIns, MarkUsed(e) \/ FindUser(e) \/ ProbeHandle(e) PROVE LocksOfLinks'
  <2> DEFINE old == signIns[e]
  <2>1. old \in SignIn BY <1>0, <1>6 DEF MarkUsed, FindUser, ProbeHandle
  <2>2. CASE MarkUsed(e)
    <3> DEFINE x == [old EXCEPT !.step = "find"]
    <3>1. /\ signIns' = [signIns EXCEPT ![e] = x] /\ users' = users
          /\ linkLocks' = linkLocks \cup {old.link} /\ old.link \in Links
      BY <1>0, <2>2 DEF MarkUsed, Goto
    <3>2. x.step = "find" BY <2>1 DEF SignIn
    <3> HIDE DEF x
    <3>3. QED BY <1>0, <1>1, <3>1, <3>2
  <2>3. CASE FindUser(e)
    <3> DEFINE st == IF SameEmail(old.email) = {} THEN "probe" ELSE "commit"
               u == IF SameEmail(old.email) = {} THEN 0 ELSE Oldest(SameEmail(old.email))
               x == [old EXCEPT !.step = st, !.user = u]
    <3>1. signIns' = [signIns EXCEPT ![e].step = st, ![e].user = u] /\ users' = users /\ linkLocks' = linkLocks
      BY <2>3 DEF FindUser
    <3>2. st # "mark" OBVIOUS
    <3> HIDE DEF st, u
    <3>3. signIns' = [signIns EXCEPT ![e] = x] BY <1>0, <3>1
    <3>4. x.step = st BY <2>1 DEF SignIn
    <3> HIDE DEF x
    <3>5. QED BY <1>0, <1>1, <3>1, <3>2, <3>3, <3>4
  <2>4. CASE ProbeHandle(e)
    <3>1. old.step = "probe" /\ users' = users /\ linkLocks' = linkLocks BY <2>4 DEF ProbeHandle
    <3>2. PICK x : /\ signIns' = [signIns EXCEPT ![e] = x]
                   /\ x = [old EXCEPT !.suffix = old.suffix + 1] \/ x = [old EXCEPT !.step = "insert"]
      BY <2>4 DEF ProbeHandle, Goto
    <3>3. x.step # "mark" BY <2>1, <3>1, <3>2 DEF SignIn
    <3>4. QED BY <1>0, <1>1, <3>1, <3>2, <3>3
  <2>5. QED BY <1>6, <2>2, <2>3, <2>4
<1>7. ASSUME NEW e \in SignIns, signIns[e] # Nobody, NEW k, Committed(e, k), Len(users') <= MaxUsers
      PROVE  LocksOfLinks'
  <2>1. linkLocks' \subseteq Links BY <1>0, <1>7 DEF Committed
  <2>2. CASE signIns' = [signIns EXCEPT ![e] = Nobody] BY <1>1, <1>7, <2>1, <2>2
  <2>3. CASE signIns' = [signIns EXCEPT ![e].step = "cookie", ![e].user = k]
    <3>1. /\ \A d \in SignIns \ {e} : signIns'[d] = signIns[d]
          /\ signIns'[e] = [signIns[e] EXCEPT !.step = "cookie", !.user = k]
      BY <1>0, <2>3
    <3>2. CASE signIns[e] \in SignIn
      <4>1. signIns'[e].step = "cookie" BY <3>1, <3>2 DEF SignIn
      <4>2. QED BY <1>0, <1>7, <2>1, <3>1, <4>1 DEF LocksOfLinks
    <3>3. QED BY <1>0, <1>7, <3>2
  <2>4. QED BY <1>7, <2>2, <2>3 DEF Committed
<1>8. ASSUME NEW e \in SignIns, InsertUser(e) \/ CommitSignIn(e) \/ SetSession(e) \/ Abandon(e)
      PROVE  LocksOfLinks'
  <2> DEFINE row == [email |-> StoredEmail(signIns[e].email), handle |-> Candidate(e)]
  <2>1. CASE InsertUser(e)
    <3>1. /\ Len(users) < MaxUsers /\ users' = Append(users, row) /\ Committed(e, Len(users) + 1)
      BY <2>1 DEF InsertUser
    <3> HIDE DEF row
    <3>2. Len(users) \in Nat /\ Len(users') = Len(users) + 1 BY <1>0, <3>1
    <3>3. QED BY <1>0, <1>7, <2>1, <3>1, <3>2 DEF InsertUser
  <2>2. CASE CommitSignIn(e) BY <1>0, <1>7, <2>2 DEF CommitSignIn
  <2>3. CASE SetSession(e) \/ Abandon(e)
    <3>1. /\ users' = users /\ signIns' = [signIns EXCEPT ![e] = Nobody]
          /\ linkLocks' \subseteq linkLocks
      BY <2>3 DEF SetSession, Abandon
    <3>2. QED BY <1>0, <1>1, <3>1
  <2>4. QED BY <1>8, <2>1, <2>2, <2>3
<1>9. ASSUME NEW e \in SignIns, Rename(e) PROVE LocksOfLinks'
  <2>1. /\ users' = [users EXCEPT ![signIns[e].user].handle = Candidate(e)]
        /\ signIns' = [signIns EXCEPT ![e] = Nobody] /\ linkLocks' = linkLocks
    BY <1>9 DEF Rename
  <2>2. Len(users') = Len(users) BY <1>0, <2>1
  <2>3. QED BY <1>0, <1>1, <2>1, <2>2
<1>10. ASSUME NEW e \in SignIns, NEW i, NEW handle, RenameCheck(e, i, handle) PROVE LocksOfLinks'
  <2> DEFINE x == [step |-> "rename", link |-> Nobody, email |-> users[i].email,
                   user |-> i, suffix |-> handle[2]]
  <2>1. signIns' = [signIns EXCEPT ![e] = x] /\ users' = users /\ linkLocks' = linkLocks
    BY <1>10 DEF RenameCheck
  <2>2. x.step = "rename" OBVIOUS
  <2> HIDE DEF x
  <2>3. QED BY <1>0, <1>1, <2>1, <2>2
<1>11. QED BY <1>2, <1>3, <1>4, <1>5, <1>6, <1>7, <1>8, <1>9, <1>10 DEF AccountsNext

\* Accounts, links, requests, sessions and locks stay of their types: a session is
\* always of an account that exists.
THEOREM AccountsTypeCorrect == AccountsSpec => []AccountsTypeOK
<1>1. AccountsInit => LocksOfLinks BY AccountsAssumption DEF AccountsInit, LocksOfLinks
<1>2. AccountsInv /\ LocksOfLinks => AccountsTypeOK
  <2>1. SUFFICES ASSUME AccountsInv, LocksOfLinks PROVE AccountsTypeOK OBVIOUS
  <2>2. \A s \in sessions : s \in Session /\ s.user \in 1 .. Len(users)
    <3>1. TAKE s \in sessions
    <3>2. s \in Session /\ AccountsOf(s.address) # {} /\ s.user = Oldest(AccountsOf(s.address))
      BY <2>1 DEF AccountsInv, AccountsTypes, Settled
    <3> DEFINE S == AccountsOf(s.address)
    <3>3. S \in SUBSET Nat /\ S \subseteq 1 .. Len(users) /\ S # {} BY <3>2 DEF AccountsOf
    <3> HIDE DEF S
    <3>4. \E i \in S : \A j \in S : i <= j BY <3>3, LeastOf
    <3>5. Oldest(S) \in S BY <3>4 DEF Oldest
    <3>6. QED BY <3>2, <3>3, <3>5 DEF S
  <2>3. QED BY <2>1, <2>2 DEF AccountsTypeOK, AccountsInv, AccountsTypes, LocksOfLinks
<1>3. QED BY <1>1, <1>2, LocksOfLinksStep, AccountsInvariant, PTL DEF AccountsSpec

----------------------------------------------------------------------------
(* The tour *)

----------------------------------------------------------------------------
(* Tables of notes and of links *)

Tables == UNION {[D -> Slugs \cup OtherSlugs] : D \in SUBSET Note}
LinkTables == UNION {[D -> Note \cup {NoNote}] : D \in SUBSET (Note \X Slugs)}

LEMMA TableFields ==
    ASSUME NEW f \in Tables
    PROVE  DOMAIN f \subseteq Note /\ (\A n \in DOMAIN f : f[n] \in Slugs \cup OtherSlugs) /\ RowsOf(f)
BY DEF Tables, RowsOf

LEMMA LinkTableFields ==
    ASSUME NEW f \in LinkTables
    PROVE  DOMAIN f \subseteq Note \X Slugs /\ (\A e \in DOMAIN f : f[e] \in Note \cup {NoNote}) /\ EdgesOf(f)
BY DEF LinkTables, EdgesOf

LEMMA EmptyTables ==
    DOMAIN << >> = {} /\ << >> \in Tables /\ << >> \in LinkTables
<1>1. << >> = [x \in {} |-> NoNote] OBVIOUS
<1>2. [x \in {} |-> NoNote] \in [{} -> Slugs \cup OtherSlugs] /\ [x \in {} |-> NoNote] \in [{} -> Note \cup {NoNote}]
  OBVIOUS
<1>3. {} \in SUBSET Note /\ {} \in SUBSET (Note \X Slugs) OBVIOUS
<1>4. QED BY <1>1, <1>2, <1>3 DEF Tables, LinkTables

LEMMA WithType ==
    ASSUME NEW f, NEW g
    PROVE  /\ f \in Tables /\ g \in Tables => With(f, g) \in Tables
           /\ f \in LinkTables /\ g \in LinkTables => With(f, g) \in LinkTables
<1>1. ASSUME f \in Tables, g \in Tables PROVE With(f, g) \in Tables
  <2>1. With(f, g) \in [DOMAIN f \cup DOMAIN g -> Slugs \cup OtherSlugs]
    BY <1>1, TableFields DEF With
  <2>2. DOMAIN f \cup DOMAIN g \in SUBSET Note BY <1>1, TableFields
  <2>3. QED BY <2>1, <2>2 DEF Tables
<1>2. ASSUME f \in LinkTables, g \in LinkTables PROVE With(f, g) \in LinkTables
  <2>1. With(f, g) \in [DOMAIN f \cup DOMAIN g -> Note \cup {NoNote}]
    BY <1>2, LinkTableFields DEF With
  <2>2. DOMAIN f \cup DOMAIN g \in SUBSET (Note \X Slugs) BY <1>2, LinkTableFields
  <2>3. QED BY <2>1, <2>2 DEF LinkTables
<1>3. QED BY <1>1, <1>2

LEMMA BackfilledFields ==
    ASSUME NEW f \in LinkTables, NEW s, NEW n \in Note, NEW known \in BOOLEAN,
           NEW g, g = Backfilled(f, s, n, known)
    PROVE  /\ g \in LinkTables /\ DOMAIN g = DOMAIN f
           /\ \A e \in DOMAIN f : g[e] = IF known /\ f[e] = NoNote /\ e[2] = s THEN n ELSE f[e]
<1>1. DOMAIN g = DOMAIN f /\ g = [e \in DOMAIN f |-> g[e]] BY DEF Backfilled
<1>2. \A e \in DOMAIN f : g[e] = IF known /\ f[e] = NoNote /\ e[2] = s THEN n ELSE f[e] BY DEF Backfilled
<1>3. \A e \in DOMAIN f : g[e] \in Note \cup {NoNote} BY <1>2, LinkTableFields
<1>4. g \in [DOMAIN f -> Note \cup {NoNote}] BY <1>1, <1>3
<1>5. DOMAIN f \in SUBSET (Note \X Slugs) BY LinkTableFields
<1>6. QED BY <1>1, <1>2, <1>4, <1>5 DEF LinkTables

LEMMA HolderFields ==
    ASSUME NEW f, NEW s
    PROVE  /\ Has(f, s) => Holder(f, s) \in DOMAIN f /\ f[Holder(f, s)] = s
           /\ ~Has(f, s) => Holder(f, s) = NoNote
BY DEF Holder, Has

\* The links of n are those of its text, and the other links stay.
Replaces(g, f, n, own, table) ==
    /\ g \in LinkTables
    /\ \A e : e \in DOMAIN g <=> e \in own \/ (e \in DOMAIN f /\ e[1] # n)
    /\ \A e \in own : g[e] = Holder(table, e[2])
    /\ \A e \in DOMAIN f : e[1] # n => g[e] = f[e]

LEMMA RecomputedFields ==
    ASSUME NEW f \in LinkTables, NEW n \in Note, NEW body \in SUBSET Slugs, NEW known \in BOOLEAN,
           NEW table \in Tables, NEW own, own = {n} \X (IF known THEN body ELSE {}),
           NEW g, g = Recomputed(f, n, body, known, table)
    PROVE  Replaces(g, f, n, own, table)
<1> DEFINE kept == {e \in DOMAIN f : e[1] # n}
<1>1. g = [e \in kept \cup own |-> IF e \in own THEN Holder(table, e[2]) ELSE f[e]] BY DEF Recomputed
<1>2. \A e \in own : e[1] = n OBVIOUS
<1>3. own \in SUBSET (Note \X Slugs) OBVIOUS
<1>4. \A l : Holder(table, l) \in Note \cup {NoNote} BY HolderFields, TableFields
<1>5. \A e \in DOMAIN f : f[e] \in Note \cup {NoNote} BY LinkTableFields
<1>6. kept \cup own \in SUBSET (Note \X Slugs) BY <1>3, LinkTableFields
<1>k. \A e : e \in kept <=> e \in DOMAIN f /\ e[1] # n OBVIOUS
<1> HIDE DEF kept
<1>7. g \in [kept \cup own -> Note \cup {NoNote}] BY <1>1, <1>4, <1>5, <1>k
<1>8. DOMAIN g = kept \cup own BY <1>7
<1>9. \A e \in own : g[e] = Holder(table, e[2]) BY <1>1
<1>10. \A e \in DOMAIN f : e[1] # n => g[e] = f[e] BY <1>1, <1>2, <1>k
<1>11. g \in LinkTables BY <1>6, <1>7 DEF LinkTables
<1>12. QED BY <1>8, <1>9, <1>10, <1>11, <1>k DEF Replaces

----------------------------------------------------------------------------
(* The invariant *)

Phases == {"asked", "copying", "copied", "marked", "failed"}
Fork == [phase : Phases, handle : Nat, slugOf : Tables, leads : LinkTables, calm : BOOLEAN]

TourTypes ==
    /\ slugOf \in Tables
    /\ leads \in LinkTables
    /\ adrift \subseteq Note \X Slugs
    /\ handles \in 1 .. MaxHandles
    /\ pinned \in {NoNote} \cup DOMAIN slugOf
    /\ onboarded \in BOOLEAN
    /\ forks \in [Forks -> Fork]
    /\ \A w \in Forks : forks[w].handle \in 0 .. handles
    /\ renames \in 0 .. MaxRenamed

\* The first c notes of the tour.
FirstCopies(w, c) == {<<w, TourNotes[k]>> : k \in 1 .. c}

Copied(w, s) == <<w, s>> \in DOMAIN forks[w].slugOf

\* The slugs of her notes differ.
Distinct == \A m, n \in DOMAIN slugOf : slugOf[m] = slugOf[n] => m = n

\* Links are those of notes that are there.
Sourced == \A e \in DOMAIN leads : e[1] \in DOMAIN slugOf

\* A link that waits for a slug that the fork has.
Open(w, e) == e \in DOMAIN leads /\ leads[e] = NoNote /\ Copied(w, e[2])

\* A fork under way has copied the first notes, under slugs nobody else has; it fills
\* only links that wait for them, and unless she renamed something the links of the
\* copies lead to copies, or wait for them.
UnderWay(w) ==
    /\ \E c \in 0 .. Len(TourNotes) :
          /\ DOMAIN forks[w].slugOf = FirstCopies(w, c)
          /\ IsFiniteSet(DOMAIN forks[w].slugOf) /\ Cardinality(DOMAIN forks[w].slugOf) = c
    /\ \A s \in Slugs : Copied(w, s) => forks[w].slugOf[<<w, s>>] = s /\ ~Has(slugOf, s)
    /\ \A e \in DOMAIN forks[w].leads : e[1] \in Copies(w) \/ Open(w, e)
    /\ forks[w].calm =>
          /\ forks[w].handle = handles
          /\ \A s \in Slugs : \A l \in TourLinks[s] : Copied(w, s) =>
                /\ <<<<w, s>>, l>> \in DOMAIN forks[w].leads
                /\ Copied(w, l) => forks[w].leads[<<<<w, s>>, l>>] = <<w, l>>
                /\ ~Copied(w, l) /\ ~Has(slugOf, l) => forks[w].leads[<<<<w, s>>, l>>] = NoNote

TourInv ==
    /\ TourTypes
    /\ \A w \in Forks : IF forks[w].phase = "copying" THEN UnderWay(w)
                        ELSE forks[w].slugOf = << >> /\ forks[w].leads = << >>
    /\ \A v, w \in Forks : \A s \in Slugs : Copied(v, s) /\ Copied(w, s) => v = w
    /\ Distinct
    /\ Sourced
    /\ TourIsWhole

LEMMA CopiesAreNotes ==
    ASSUME NEW w \in Forks
    PROVE  /\ Copies(w) \subseteq Note
           /\ \A x : x \in Copies(w) <=> \E s \in Slugs : x = <<w, s>>
           /\ \A s \in Slugs : <<w, s>> \in Note /\ <<w, s>> # NoNote
           /\ \A k \in 1 .. Len(TourNotes) : TourNotes[k] \in Slugs
<1>1. \A k \in 1 .. Len(TourNotes) : TourNotes[k] \in Slugs BY TourAssumption
<1>2. QED BY <1>1, NoNoteAssumption DEF Copies, Note

LEMMA TourInitially == TourInit => TourInv
<1> SUFFICES ASSUME TourInit PROVE TourInv OBVIOUS
<1> USE DEF TourInit
<1>1. NotForked \in Fork BY EmptyTables DEF NotForked, Fork, Phases
<1>n. /\ NotForked.handle = 0 /\ NotForked.phase = "asked"
      /\ NotForked.slugOf = << >> /\ NotForked.leads = << >>
  BY DEF NotForked
<1>f. forks \in [Forks -> Fork] /\ \A w \in Forks : forks[w] = NotForked BY <1>1
<1>m. handles \in 1 .. MaxHandles /\ renames \in 0 .. MaxRenamed /\ 0 \in 0 .. handles
  BY TourAssumption
<1>2. TourTypes BY <1>n, <1>f, <1>m, EmptyTables DEF TourTypes
<1>3. \A w \in Forks : forks[w].phase = "asked" /\ forks[w].slugOf = << >> /\ forks[w].leads = << >>
  BY <1>n, <1>f
<1>4. TourIsWhole BY <1>3, EmptyTables DEF TourIsWhole
<1>5. \A w \in Forks, s \in Slugs : ~Copied(w, s) BY <1>3, EmptyTables DEF Copied
<1>6. Distinct /\ Sourced BY EmptyTables DEF Distinct, Sourced
<1>7. QED BY <1>2, <1>3, <1>4, <1>5, <1>6 DEF TourInv

LEMMA TourTypeHolds == TourInv => TourTypeOK
<1> SUFFICES ASSUME TourInv PROVE TourTypeOK OBVIOUS
<1>1. TourTypes BY DEF TourInv
<1>2. RowsOf(slugOf) /\ EdgesOf(leads) BY <1>1, TableFields, LinkTableFields DEF TourTypes
<1>3. \A w \in Forks : forks[w] \in Fork BY <1>1 DEF TourTypes
<1>4. \A w \in Forks :
        /\ DOMAIN forks[w] = {"phase", "handle", "slugOf", "leads", "calm"}
        /\ forks[w].phase \in Phases /\ forks[w].calm \in BOOLEAN
        /\ forks[w].slugOf \in Tables /\ forks[w].leads \in LinkTables
  BY <1>3 DEF Fork
<1>5. \A w \in Forks : RowsOf(forks[w].slugOf) /\ EdgesOf(forks[w].leads)
  BY <1>4, TableFields, LinkTableFields
<1>6. QED BY <1>1, <1>2, <1>4, <1>5 DEF TourTypes, TourTypeOK, Phases

----------------------------------------------------------------------------
(* Every step keeps it *)

\* A step that ends no fork disturbs none of those that ended.
LEMMA WholeStays ==
    ASSUME TourIsWhole,
           \A w \in Forks :
              /\ forks'[w].phase \in {"copied", "marked"} <=> forks[w].phase \in {"copied", "marked"}
              /\ Copies(w) \cap DOMAIN slugOf' \subseteq DOMAIN slugOf,
           DOMAIN slugOf \subseteq DOMAIN slugOf',
           DOMAIN leads \subseteq DOMAIN leads', adrift' = adrift,
           \A e \in DOMAIN leads : leads[e] # NoNote => leads'[e] = leads[e],
           pinned' = pinned, onboarded => onboarded'
    PROVE  TourIsWhole'
<1>1. \A w \in Forks, s \in Slugs : <<w, s>> # NoNote BY CopiesAreNotes
<1>2. \A s \in Slugs : TourLinks[s] \subseteq Slugs BY TourAssumption
<1>3. ASSUME NEW w \in Forks, forks[w].phase \in {"copied", "marked"},
             NEW s \in Slugs, NEW l \in TourLinks[s], <<<<w, s>>, l>> \notin adrift
      PROVE  <<<<w, s>>, l>> \in DOMAIN leads' /\ leads'[<<<<w, s>>, l>>] = <<w, l>>
  <2>1. <<<<w, s>>, l>> \in DOMAIN leads /\ leads[<<<<w, s>>, l>>] = <<w, l>>
    BY <1>3 DEF TourIsWhole
  <2>2. <<w, l>> # NoNote BY <1>1, <1>2
  <2>3. QED BY <2>1, <2>2
<1>4. ASSUME NEW w \in Forks
      PROVE  IF forks'[w].phase \in {"copied", "marked"} THEN Copies(w) \subseteq DOMAIN slugOf'
             ELSE Copies(w) \cap DOMAIN slugOf' = {}
  <2>1. CASE forks[w].phase \in {"copied", "marked"} BY <2>1 DEF TourIsWhole
  <2>2. CASE forks[w].phase \notin {"copied", "marked"} BY <2>2 DEF TourIsWhole
  <2>3. QED BY <2>1, <2>2
<1>5. pinned' # NoNote => onboarded' /\ pinned'[2] = Welcome /\ pinned' \in DOMAIN slugOf'
  BY DEF TourIsWhole
<1>6. QED BY <1>3, <1>4, <1>5 DEF TourIsWhole

\* A fork that goes on under way is so whatever takes slugs it has not.
LEMMA UnderWayStays ==
    ASSUME NEW w \in Forks, UnderWay(w),
           forks'[w].slugOf = forks[w].slugOf, forks'[w].leads = forks[w].leads,
           forks'[w].calm => forks[w].calm /\ forks'[w].handle = forks[w].handle /\ handles' = handles
                             /\ \A s \in Slugs : Has(slugOf, s) => Has(slugOf', s),
           \A s \in Slugs : Copied(w, s) /\ Has(slugOf', s) => Has(slugOf, s),
           \A e \in DOMAIN forks[w].leads :
              Open(w, e) => e \in DOMAIN leads' /\ leads'[e] = NoNote
    PROVE  UnderWay(w)'
<1>1. \A s : Copied(w, s)' <=> Copied(w, s) BY DEF Copied
<1>2. \A s \in Slugs : TourLinks[s] \subseteq Slugs BY TourAssumption
<1>3. \E c \in 0 .. Len(TourNotes) :
          /\ DOMAIN forks'[w].slugOf = FirstCopies(w, c)
          /\ IsFiniteSet(DOMAIN forks'[w].slugOf) /\ Cardinality(DOMAIN forks'[w].slugOf) = c
  BY DEF UnderWay
<1>4. \A s \in Slugs : Copied(w, s)' => forks'[w].slugOf[<<w, s>>] = s /\ ~Has(slugOf', s)
  BY <1>1 DEF UnderWay
<1>5. \A e \in DOMAIN forks'[w].leads : e[1] \in Copies(w) \/ Open(w, e)' BY <1>1 DEF UnderWay, Open
<1>6. ASSUME forks'[w].calm
      PROVE  /\ forks'[w].handle = handles'
             /\ \A s \in Slugs : \A l \in TourLinks[s] : Copied(w, s)' =>
                   /\ <<<<w, s>>, l>> \in DOMAIN forks'[w].leads
                   /\ Copied(w, l)' => forks'[w].leads[<<<<w, s>>, l>>] = <<w, l>>
                   /\ ~Copied(w, l)' /\ ~Has(slugOf', l) => forks'[w].leads[<<<<w, s>>, l>>] = NoNote
  BY <1>1, <1>2, <1>6 DEF UnderWay
<1>7. QED BY <1>3, <1>4, <1>5, <1>6 DEF UnderWay

\* A fork under way copies notes of the tour.
LEMMA CopiedAreSlugs ==
    ASSUME NEW w \in Forks, UnderWay(w), NEW s, Copied(w, s)
    PROVE  s \in Slugs
<1>1. PICK c \in 0 .. Len(TourNotes) : DOMAIN forks[w].slugOf = FirstCopies(w, c) BY DEF UnderWay
<1>2. PICK k \in 1 .. c : <<w, s>> = <<w, TourNotes[k]>> BY <1>1 DEF Copied, FirstCopies
<1>3. Len(TourNotes) \in Nat BY TourAssumption
<1>4. k \in 1 .. Len(TourNotes) BY <1>2, <1>3
<1>5. QED BY <1>2, <1>4, CopiesAreNotes

\* A fork moves and the others stay where they are.
LEMMA OneForkMoves ==
    ASSUME TourTypes, NEW w \in Forks, NEW g \in Fork, forks' = [forks EXCEPT ![w] = g]
    PROVE  /\ forks' \in [Forks -> Fork]
           /\ \A v \in Forks : forks'[v] = IF v = w THEN g ELSE forks[v]
BY DEF TourTypes

LEMMA BeginStep ==
    ASSUME TourInv, NEW w \in Forks, BeginFork(w)
    PROVE  TourInv'
<1> DEFINE f == forks[w]
           g == [f EXCEPT !.phase = "copying", !.handle = handles]
<1>0. TourTypes /\ TourIsWhole BY DEF TourInv
<1>1. f.phase = "asked" /\ UNCHANGED <<slugOf, leads, adrift, handles, pinned, onboarded, renames>>
  BY DEF BeginFork
<1>2. forks' = [forks EXCEPT ![w] = g] BY DEF BeginFork
<1>3. f \in Fork /\ handles \in Nat /\ handles \in 0 .. handles BY <1>0, TourAssumption DEF TourTypes
<1>4. /\ g \in Fork /\ g.phase = "copying" /\ g.handle = handles /\ g.slugOf = f.slugOf
      /\ g.leads = f.leads /\ g.calm = f.calm
  BY <1>3, EmptyTables DEF Phases, Fork, NotForked
<1>5. f.slugOf = << >> /\ f.leads = << >> BY <1>1 DEF TourInv
<1>6. \A v \in Forks : v # w => forks'[v] = forks[v] BY <1>0, <1>2, <1>4, OneForkMoves
<1>7. forks'[w] = g /\ forks' \in [Forks -> Fork] BY <1>0, <1>2, <1>4, OneForkMoves
<1>f. \A v \in Forks : /\ forks'[v].slugOf = forks[v].slugOf /\ forks'[v].leads = forks[v].leads
                       /\ forks'[v].calm = forks[v].calm
  BY <1>4, <1>6, <1>7
<1> HIDE DEF g
<1>8. TourTypes' BY <1>0, <1>1, <1>3, <1>4, <1>6, <1>7 DEF TourTypes
<1>9. \A v \in Forks, s \in Slugs : Copied(v, s)' <=> Copied(v, s) BY <1>f DEF Copied
<1>10. UnderWay(w)'
  <2>1. 1 .. 0 = {} OBVIOUS
  <2>2. FirstCopies(w, 0) = {} BY <2>1 DEF FirstCopies
  <2>3. /\ DOMAIN forks'[w].slugOf = FirstCopies(w, 0)
        /\ IsFiniteSet(DOMAIN forks'[w].slugOf) /\ Cardinality(DOMAIN forks'[w].slugOf) = 0
    BY <1>4, <1>5, <1>7, <2>2, EmptyTables, FS_EmptySet
  <2>4. 0 \in 0 .. Len(TourNotes) BY TourAssumption
  <2>5. \A s \in Slugs : ~Copied(w, s)' BY <1>4, <1>5, <1>7, EmptyTables DEF Copied
  <2>6. DOMAIN forks'[w].leads = {} BY <1>4, <1>5, <1>7, EmptyTables
  <2>7. forks'[w].handle = handles' BY <1>1, <1>4, <1>7
  <2>8. QED BY <2>3, <2>4, <2>5, <2>6, <2>7 DEF UnderWay
<1>11. ASSUME NEW v \in Forks
       PROVE  IF forks'[v].phase = "copying" THEN UnderWay(v)'
              ELSE forks'[v].slugOf = << >> /\ forks'[v].leads = << >>
  <2>1. CASE v = w BY <1>4, <1>7, <1>10, <2>1
  <2>2. CASE v # w /\ forks[v].phase = "copying"
    <3>1. UnderWay(v) BY <2>2 DEF TourInv
    <3>2. UnderWay(v)' BY <1>1, <1>6, <2>2, <3>1, UnderWayStays DEF Open
    <3>3. QED BY <1>6, <2>2, <3>2
  <2>3. CASE v # w /\ forks[v].phase # "copying" BY <1>6, <2>3 DEF TourInv
  <2>4. QED BY <2>1, <2>2, <2>3
<1>12. TourIsWhole'
  <2>1. \A v \in Forks :
              forks'[v].phase \in {"copied", "marked"} <=> forks[v].phase \in {"copied", "marked"}
    BY <1>1, <1>4, <1>6, <1>7
  <2>2. QED BY <1>0, <1>1, <2>1, WholeStays
<1>13. Distinct' /\ Sourced' BY <1>1 DEF TourInv, Distinct, Sourced
<1>14. QED BY <1>8, <1>9, <1>11, <1>12, <1>13 DEF TourInv

LEMMA FailStep ==
    ASSUME TourInv, NEW w \in Forks, FailFork(w)
    PROVE  TourInv'
<1> DEFINE g == [NotForked EXCEPT !.phase = "failed"]
<1>0. TourTypes /\ TourIsWhole BY DEF TourInv
<1>1. forks[w].phase = "copying" /\ UNCHANGED <<slugOf, leads, adrift, handles, pinned, onboarded, renames>>
  BY DEF FailFork, RolledBack
<1>2. forks' = [forks EXCEPT ![w] = g] BY DEF FailFork
<1>3. forks[w] \in Fork /\ 0 \in 0 .. handles BY <1>0, TourAssumption DEF TourTypes
<1>4. g \in Fork /\ g.phase = "failed" /\ g.handle = 0 /\ g.slugOf = << >> /\ g.leads = << >>
  BY <1>3, EmptyTables DEF Phases, Fork, NotForked
<1>6. \A v \in Forks : v # w => forks'[v] = forks[v] BY <1>0, <1>2, <1>4, OneForkMoves
<1>7. forks'[w] = g /\ forks' \in [Forks -> Fork] BY <1>0, <1>2, <1>4, OneForkMoves
<1> HIDE DEF g
<1>8. TourTypes' BY <1>0, <1>1, <1>3, <1>4, <1>6, <1>7 DEF TourTypes
<1>9. \A v \in Forks, s \in Slugs : Copied(v, s)' => Copied(v, s)
  BY <1>4, <1>6, <1>7, EmptyTables DEF Copied
<1>11. ASSUME NEW v \in Forks
       PROVE  IF forks'[v].phase = "copying" THEN UnderWay(v)'
              ELSE forks'[v].slugOf = << >> /\ forks'[v].leads = << >>
  <2>1. CASE v = w BY <1>4, <1>7, <2>1
  <2>2. CASE v # w /\ forks[v].phase = "copying"
    <3>1. UnderWay(v) BY <2>2 DEF TourInv
    <3>2. UnderWay(v)' BY <1>1, <1>6, <2>2, <3>1, UnderWayStays DEF Open
    <3>3. QED BY <1>6, <2>2, <3>2
  <2>3. CASE v # w /\ forks[v].phase # "copying" BY <1>6, <2>3 DEF TourInv
  <2>4. QED BY <2>1, <2>2, <2>3
<1>12. TourIsWhole'
  <2>1. \A v \in Forks :
              forks'[v].phase \in {"copied", "marked"} <=> forks[v].phase \in {"copied", "marked"}
    BY <1>1, <1>4, <1>6, <1>7
  <2>2. QED BY <1>0, <1>1, <2>1, WholeStays
<1>13. Distinct' /\ Sourced' BY <1>1 DEF TourInv, Distinct, Sourced
<1>14. QED BY <1>8, <1>9, <1>11, <1>12, <1>13 DEF TourInv

LEMMA MarkStep ==
    ASSUME TourInv, NEW w \in Forks, MarkForked(w)
    PROVE  TourInv'
<1> DEFINE f == forks[w]
           g == [f EXCEPT !.phase = "marked"]
<1>0. TourTypes /\ TourIsWhole BY DEF TourInv
<1>1. /\ f.phase = "copied" /\ pinned' = <<w, Welcome>> /\ onboarded' = TRUE
      /\ UNCHANGED <<slugOf, leads, adrift, handles, renames>>
  BY DEF MarkForked
<1>2. forks' = [forks EXCEPT ![w] = g] BY DEF MarkForked
<1>3. f \in Fork /\ handles \in Nat BY <1>0, TourAssumption DEF TourTypes
<1>4. /\ g \in Fork /\ g.phase = "marked" /\ g.handle = f.handle /\ g.slugOf = f.slugOf
      /\ g.leads = f.leads /\ g.calm = f.calm
  BY <1>3, EmptyTables DEF Phases, Fork, NotForked
<1>6. \A v \in Forks : v # w => forks'[v] = forks[v] BY <1>0, <1>2, <1>4, OneForkMoves
<1>7. forks'[w] = g /\ forks' \in [Forks -> Fork] BY <1>0, <1>2, <1>4, OneForkMoves
<1>f. \A v \in Forks : /\ forks'[v].slugOf = forks[v].slugOf /\ forks'[v].leads = forks[v].leads
                       /\ forks'[v].calm = forks[v].calm /\ forks'[v].handle = forks[v].handle
  BY <1>4, <1>6, <1>7
<1>p. pinned' \in DOMAIN slugOf' /\ pinned'[2] = Welcome
  <2>1. Copies(w) \subseteq DOMAIN slugOf BY <1>0, <1>1 DEF TourIsWhole
  <2>2. <<w, Welcome>> \in Copies(w) BY TourAssumption, CopiesAreNotes
  <2>3. QED BY <1>1, <2>1, <2>2
<1> HIDE DEF g
<1>8. TourTypes' BY <1>0, <1>1, <1>f, <1>p, <1>7 DEF TourTypes
<1>9. \A v \in Forks, s \in Slugs : Copied(v, s)' <=> Copied(v, s) BY <1>f DEF Copied
<1>11. ASSUME NEW v \in Forks
       PROVE  IF forks'[v].phase = "copying" THEN UnderWay(v)'
              ELSE forks'[v].slugOf = << >> /\ forks'[v].leads = << >>
  <2>1. CASE v = w BY <1>1, <1>4, <1>7, <2>1 DEF TourInv
  <2>2. CASE v # w /\ forks[v].phase = "copying"
    <3>1. UnderWay(v) BY <2>2 DEF TourInv
    <3>2. UnderWay(v)' BY <1>1, <1>6, <2>2, <3>1, UnderWayStays DEF Open
    <3>3. QED BY <1>6, <2>2, <3>2
  <2>3. CASE v # w /\ forks[v].phase # "copying" BY <1>6, <2>3 DEF TourInv
  <2>4. QED BY <2>1, <2>2, <2>3
<1>12. TourIsWhole'
  <2>1. \A v \in Forks :
              forks'[v].phase \in {"copied", "marked"} <=> forks[v].phase \in {"copied", "marked"}
    BY <1>1, <1>4, <1>6, <1>7
  <2>2. QED BY <1>0, <1>1, <1>p, <2>1 DEF TourIsWhole
<1>13. Distinct' /\ Sourced' BY <1>1 DEF TourInv, Distinct, Sourced
<1>14. QED BY <1>8, <1>9, <1>11, <1>12, <1>13 DEF TourInv

LEMMA CopyStep ==
    ASSUME TourInv, NEW w \in Forks, CopyNote(w)
    PROVE  TourInv'
<1> DEFINE f == forks[w]
           c == Cardinality(DOMAIN f.slugOf)
           s == TourNotes[c + 1]
           n == <<w, s>>
           one == [x \in {n} |-> s]
           mine == With(f.slugOf, one)
           known == f.handle = handles
           fresh == {n} \X (IF known THEN TourLinks[s] ELSE {})
           edges == Recomputed(f.leads, n, TourLinks[s], known, With(slugOf, mine))
           filled == Backfilled(edges, s, n, known)
           stubs == {e \in DOMAIN leads : known /\ leads[e] = NoNote /\ e[2] = s}
           late == [e \in stubs |-> n]
           new == With(filled, late)
           g == [f EXCEPT !.slugOf = mine, !.leads = new]
<1>0. TourTypes /\ TourIsWhole BY DEF TourInv
<1>1. /\ f.phase = "copying" /\ c < Len(TourNotes) /\ ~Has(slugOf, s) /\ ~Awaited(w, s)
      /\ UNCHANGED <<slugOf, leads, adrift, handles, pinned, onboarded, renames>>
  BY DEF CopyNote
<1>2. forks' = [forks EXCEPT ![w] = g] BY DEF CopyNote
<1>3. f \in Fork /\ f.slugOf \in Tables /\ f.leads \in LinkTables BY <1>0 DEF TourTypes, Fork
<1>4. UnderWay(w) BY <1>1 DEF TourInv
<1>5. /\ DOMAIN f.slugOf = FirstCopies(w, c) /\ IsFiniteSet(DOMAIN f.slugOf) /\ c \in 0 .. Len(TourNotes)
  BY <1>4 DEF UnderWay
<1>l. Len(TourNotes) \in Nat /\ DOMAIN TourNotes = 1 .. Len(TourNotes) BY TourAssumption
<1>6. c \in Nat /\ c + 1 \in 1 .. Len(TourNotes) BY <1>1, <1>5, <1>l
<1>7. s \in Slugs /\ n \in Note /\ n # NoNote BY <1>6, CopiesAreNotes
<1>8. n \notin DOMAIN f.slugOf
  <2>1. SUFFICES ASSUME NEW k \in 1 .. c, TourNotes[k] = s PROVE FALSE BY <1>5 DEF FirstCopies
  <2>2. k \in DOMAIN TourNotes /\ c + 1 \in DOMAIN TourNotes BY <1>6, <1>l
  <2>3. k = c + 1 BY <2>1, <2>2, TourAssumption
  <2>4. QED BY <1>6, <2>3
<1>9. one \in Tables /\ DOMAIN one = {n} /\ one[n] = s
  <2>1. one \in [{n} -> Slugs \cup OtherSlugs] /\ {n} \in SUBSET Note BY <1>7
  <2>2. QED BY <2>1 DEF Tables
<1>10. known \in BOOLEAN OBVIOUS
<1>s. /\ TourLinks[s] \in SUBSET Slugs /\ (f.calm => known)
      /\ \A t \in Slugs : TourLinks[t] \in SUBSET Slugs
      /\ f.calm \in BOOLEAN
  BY <1>3, <1>4, <1>7, TourAssumption DEF UnderWay, Fork
<1>w. mine = With(f.slugOf, one) OBVIOUS
<1> HIDE DEF f, c, s, one, mine
<1>11. /\ mine \in Tables /\ DOMAIN mine = DOMAIN f.slugOf \cup {n} /\ mine[n] = s
       /\ \A x \in DOMAIN f.slugOf : mine[x] = f.slugOf[x]
  <2>1. mine \in Tables BY <1>3, <1>9, <1>w, WithType
  <2>2. QED BY <1>8, <1>9, <1>w, <2>1 DEF With
<1> DEFINE T == With(slugOf, mine)
<1>t. T = With(slugOf, mine) OBVIOUS
<1> HIDE DEF T
<1>12. /\ T \in Tables /\ DOMAIN T = DOMAIN slugOf \cup DOMAIN mine
       /\ \A x \in DOMAIN mine : T[x] = mine[x]
       /\ \A x \in DOMAIN slugOf \ DOMAIN mine : T[x] = slugOf[x]
  <2>1. T \in Tables BY <1>0, <1>11, <1>t, WithType DEF TourTypes
  <2>2. QED BY <1>t, <2>1 DEF With
<1>13. /\ edges \in LinkTables
       /\ \A e : e \in DOMAIN edges <=> e \in fresh \/ (e \in DOMAIN f.leads /\ e[1] # n)
       /\ \A e \in fresh : edges[e] = Holder(T, e[2])
       /\ \A e \in DOMAIN f.leads : e[1] # n => edges[e] = f.leads[e]
  <2>1. edges = Recomputed(f.leads, n, TourLinks[s], known, T) BY DEF T
  <2>2. fresh = {n} \X (IF known THEN TourLinks[s] ELSE {}) OBVIOUS
  <2> HIDE DEF edges, fresh, known, n
  <2>3. Replaces(edges, f.leads, n, fresh, T)
    BY <1>3, <1>7, <1>10, <1>12, <1>s, <2>1, <2>2, RecomputedFields
  <2>4. QED BY <2>3 DEF Replaces
<1>14. \A e : e \in fresh <=> \E l \in TourLinks[s] : known /\ e = <<n, l>> OBVIOUS
<1>15. /\ stubs \subseteq DOMAIN leads
       /\ \A e \in stubs : known /\ leads[e] = NoNote /\ e[2] = s
  OBVIOUS
<1>l1. late \in LinkTables /\ DOMAIN late = stubs /\ \A e \in stubs : late[e] = n
  <2>1. DOMAIN leads \subseteq Note \X Slugs BY <1>0, LinkTableFields DEF TourTypes
  <2>2. stubs \in SUBSET (Note \X Slugs) BY <1>15, <2>1
  <2> HIDE DEF stubs
  <2>3. late \in [stubs -> Note \cup {NoNote}] BY <1>7
  <2>4. QED BY <2>2, <2>3 DEF LinkTables
<1>f. filled = Backfilled(edges, s, n, known) OBVIOUS
<1>e. new = With(filled, late) OBVIOUS
<1> HIDE DEF known, fresh, n, edges, filled, stubs, late, new
<1>b. /\ filled \in LinkTables /\ DOMAIN filled = DOMAIN edges
      /\ \A e \in DOMAIN edges : filled[e] = IF known /\ edges[e] = NoNote /\ e[2] = s THEN n ELSE edges[e]
  BY <1>7, <1>10, <1>13, <1>f, BackfilledFields
<1>16. /\ new \in LinkTables /\ DOMAIN new = DOMAIN edges \cup stubs
       /\ \A e \in stubs : new[e] = n
       /\ \A e \in DOMAIN edges \ stubs :
             new[e] = IF known /\ edges[e] = NoNote /\ e[2] = s THEN n ELSE edges[e]
  <2>1. new \in LinkTables BY <1>l1, <1>b, <1>e, WithType
  <2>2. QED BY <1>l1, <1>b, <1>e, <2>1 DEF With
<1>17. /\ g \in Fork /\ g.phase = f.phase /\ g.handle = f.handle /\ g.slugOf = mine
       /\ g.leads = new /\ g.calm = f.calm
  BY <1>3, <1>11, <1>16, <1>0, TourAssumption DEF Fork
<1> HIDE DEF g
<1>18. /\ forks' \in [Forks -> Fork] /\ forks'[w] = g
       /\ \A v \in Forks : v # w => forks'[v] = forks[v]
  BY <1>0, <1>2, <1>17, OneForkMoves
<1>19. \A t : Copied(w, t)' <=> Copied(w, t) \/ t = s
  BY <1>11, <1>17, <1>18 DEF Copied, f, n
<1>20. TourTypes'
  <2>1. forks[w].handle \in 0 .. handles BY <1>0 DEF TourTypes
  <2>2. QED BY <1>0, <1>1, <1>17, <1>18, <2>1 DEF TourTypes, f
<1>21. UnderWay(w)'
  <2>1. DOMAIN forks'[w].slugOf = FirstCopies(w, c + 1)
    <3>1. 1 .. c + 1 = 1 .. c \cup {c + 1} BY <1>6
    <3>2. FirstCopies(w, c + 1) = FirstCopies(w, c) \cup {n} BY <3>1 DEF FirstCopies, n, s
    <3>3. QED BY <1>5, <1>11, <1>17, <1>18, <3>2
  <2>2. IsFiniteSet(DOMAIN forks'[w].slugOf) /\ Cardinality(DOMAIN forks'[w].slugOf) = c + 1
    <3>1. DOMAIN forks'[w].slugOf = DOMAIN f.slugOf \cup {n} BY <1>11, <1>17, <1>18
    <3>2. c = Cardinality(DOMAIN f.slugOf) BY DEF c
    <3>3. QED BY <1>5, <1>8, <3>1, <3>2, FS_AddElement DEF n
  <2>3. c + 1 \in 0 .. Len(TourNotes) BY <1>6
  <2>4. ASSUME NEW t \in Slugs, Copied(w, t)' PROVE forks'[w].slugOf[<<w, t>>] = t /\ ~Has(slugOf', t)
    <3>1. CASE t = s BY <1>1, <1>11, <1>17, <1>18, <3>1 DEF n
    <3>2. CASE t # s
      <4>1. Copied(w, t) BY <1>19, <2>4, <3>2
      <4>2. f.slugOf[<<w, t>>] = t /\ ~Has(slugOf, t) /\ <<w, t>> \in DOMAIN f.slugOf
        BY <1>4, <4>1 DEF UnderWay, f, Copied
      <4>3. QED BY <1>1, <1>11, <1>17, <1>18, <4>2
    <3>3. QED BY <3>1, <3>2
  <2>5. ASSUME NEW e \in DOMAIN forks'[w].leads PROVE e[1] \in Copies(w) \/ Open(w, e)'
    <3>1. e \in DOMAIN edges \/ e \in stubs BY <1>16, <1>17, <1>18, <2>5
    <3>2. CASE e \in stubs BY <1>1, <1>15, <1>19, <3>2 DEF Open
    <3>3. CASE e \in fresh
      <4>1. n \in Copies(w) BY <1>7, CopiesAreNotes DEF n
      <4>2. QED BY <1>14, <3>3, <4>1
    <3>4. CASE e \in DOMAIN f.leads
      <4>1. e[1] \in Copies(w) \/ Open(w, e) BY <1>4, <3>4 DEF UnderWay, f
      <4>2. QED BY <1>1, <1>19, <4>1 DEF Open
    <3>5. QED BY <1>13, <3>1, <3>2, <3>3, <3>4
  <2>6. ASSUME f.calm, NEW t \in Slugs, NEW l \in TourLinks[t], Copied(w, t)'
        PROVE  /\ <<<<w, t>>, l>> \in DOMAIN new
               /\ Copied(w, l)' => new[<<<<w, t>>, l>>] = <<w, l>>
               /\ ~Copied(w, l)' /\ ~Has(slugOf, l) => new[<<<<w, t>>, l>>] = NoNote
    <3>1. known /\ l \in Slugs /\ <<w, l>> # NoNote BY <1>s, <2>6, CopiesAreNotes
    <3> DEFINE e == <<<<w, t>>, l>>
    <3>e. e[2] = l /\ e[1] = <<w, t>> OBVIOUS
    <3>s. CASE e \in stubs
      <4>1. l = s /\ e \in DOMAIN new /\ new[e] = n BY <1>15, <1>16, <3>e, <3>s
      <4>2. QED BY <1>19, <4>1 DEF n, e
    <3>2. CASE t = s /\ e \notin stubs
      <4>1. e \in fresh BY <1>14, <2>6, <3>1, <3>2 DEF n
      <4>2. e \in DOMAIN edges /\ edges[e] = Holder(T, l) BY <1>13, <3>e, <4>1
      <4>3. \A m \in DOMAIN mine : \E q \in Slugs : m = <<w, q>> /\ mine[m] = q /\ Copied(w, q)'
        <5>1. SUFFICES ASSUME NEW m \in DOMAIN mine PROVE \E q \in Slugs : m = <<w, q>> /\ mine[m] = q /\ Copied(w, q)'
          OBVIOUS
        <5>2. CASE m = n BY <1>7, <1>11, <1>19, <5>2 DEF n
        <5>3. CASE m # n
          <6>1. m \in FirstCopies(w, c) /\ m \in DOMAIN f.slugOf BY <1>5, <1>11, <5>3
          <6>2. PICK k \in 1 .. c : m = <<w, TourNotes[k]>> BY <6>1 DEF FirstCopies
          <6>3. k \in 1 .. Len(TourNotes) BY <1>6, <1>l
          <6>4. TourNotes[k] \in Slugs BY <6>3, CopiesAreNotes
          <6>5. Copied(w, TourNotes[k]) BY <6>1, <6>2 DEF Copied, f
          <6>6. f.slugOf[m] = TourNotes[k] BY <1>4, <6>2, <6>4, <6>5 DEF UnderWay, f
          <6>7. QED BY <1>11, <1>19, <6>1, <6>2, <6>4, <6>5, <6>6
        <5>4. QED BY <5>2, <5>3
      <4>4. ASSUME Copied(w, l)' PROVE Holder(T, l) = <<w, l>>
        <5>1. <<w, l>> \in DOMAIN mine BY <1>17, <1>18, <4>4 DEF Copied
        <5>2. mine[<<w, l>>] = l BY <4>3, <5>1
        <5>3. Has(T, l) BY <1>12, <5>1, <5>2 DEF Has
        <5>4. Holder(T, l) \in DOMAIN T /\ T[Holder(T, l)] = l BY <5>3, HolderFields
        <5>5. ~Has(slugOf, l) BY <1>1, <2>4, <3>1, <4>4
        <5>6. Holder(T, l) \in DOMAIN mine
          <6>1. CASE Holder(T, l) \in DOMAIN slugOf \ DOMAIN mine
            <7>1. slugOf[Holder(T, l)] = l BY <1>12, <5>4, <6>1
            <7>2. QED BY <5>5, <6>1, <7>1 DEF Has
          <6>2. QED BY <1>12, <5>4, <6>1
        <5>7. QED BY <1>12, <4>3, <5>4, <5>6
      <4>5. ASSUME ~Copied(w, l)', ~Has(slugOf, l) PROVE Holder(T, l) = NoNote
        <5>1. ASSUME NEW m \in DOMAIN T, T[m] = l PROVE FALSE
          <6>1. CASE m \in DOMAIN mine BY <1>12, <4>3, <4>5, <5>1, <6>1
          <6>2. CASE m \in DOMAIN slugOf \ DOMAIN mine BY <1>12, <4>5, <5>1, <6>2 DEF Has
          <6>3. QED BY <1>12, <6>1, <6>2
        <5>2. ~Has(T, l) BY <5>1 DEF Has
        <5>3. QED BY <5>2, HolderFields
      <4>6. ~Copied(w, l)' => l # s BY <1>19
      <4> HIDE DEF e
      <4>7. e \in DOMAIN new /\ (edges[e] # NoNote \/ l # s => new[e] = edges[e])
        BY <1>16, <3>2, <3>e, <4>2
      <4>8. QED BY <3>1, <4>2, <4>4, <4>5, <4>6, <4>7 DEF e
    <3>3. CASE t # s /\ e \notin stubs
      <4>1. Copied(w, t) BY <1>19, <2>6, <3>3
      <4>2. /\ e \in DOMAIN f.leads
            /\ Copied(w, l) => f.leads[e] = <<w, l>>
            /\ ~Copied(w, l) /\ ~Has(slugOf, l) => f.leads[e] = NoNote
        BY <1>4, <2>6, <4>1 DEF UnderWay, f
      <4>3. e[1] # n BY <3>3, <3>e DEF n
      <4>4. e \in DOMAIN edges /\ edges[e] = f.leads[e] BY <1>13, <4>2, <4>3
      <4> HIDE DEF e
      <4>5. e \in DOMAIN new /\ new[e] = IF known /\ edges[e] = NoNote /\ l = s THEN n ELSE edges[e]
        BY <1>16, <3>3, <3>e, <4>4
      <4>6. CASE l = s
        <5>1. ~Copied(w, l) BY <1>8, <4>6 DEF Copied, f, n
        <5>2. f.leads[e] = NoNote BY <1>1, <4>2, <4>6, <5>1
        <5>3. new[e] = <<w, l>> BY <3>1, <4>4, <4>5, <4>6, <5>2 DEF n
        <5>4. QED BY <1>19, <4>5, <4>6, <5>3 DEF e
      <4>7. CASE l # s BY <1>19, <4>2, <4>4, <4>5, <4>7 DEF e
      <4>8. QED BY <4>6, <4>7
    <3>4. QED BY <3>s, <3>2, <3>3
  <2>7. f.calm => forks'[w].handle = handles' BY <1>1, <1>4, <1>17, <1>18 DEF UnderWay, f
  <2>8. forks'[w].leads = new /\ forks'[w].calm = f.calm BY <1>17, <1>18
  <2>9. slugOf' = slugOf BY <1>1
  <2>10. QED BY <2>1, <2>2, <2>3, <2>4, <2>5, <2>6, <2>7, <2>8, <2>9 DEF UnderWay
<1>22. ASSUME NEW v \in Forks
       PROVE  IF forks'[v].phase = "copying" THEN UnderWay(v)'
              ELSE forks'[v].slugOf = << >> /\ forks'[v].leads = << >>
  <2>1. CASE v = w BY <1>1, <1>17, <1>18, <1>21, <2>1
  <2>2. CASE v # w /\ forks[v].phase = "copying"
    <3>1. UnderWay(v) BY <2>2 DEF TourInv
    <3>2. UnderWay(v)' BY <1>1, <1>18, <2>2, <3>1, UnderWayStays DEF Open
    <3>3. QED BY <1>18, <2>2, <3>2
  <2>3. CASE v # w /\ forks[v].phase # "copying" BY <1>18, <2>3 DEF TourInv
  <2>4. QED BY <2>1, <2>2, <2>3
<1>23. ASSUME NEW v \in Forks, v # w, Copied(v, s) PROVE FALSE
  <2>1. forks[v].phase = "copying"
    <3>1. SUFFICES ASSUME forks[v].phase # "copying" PROVE FALSE OBVIOUS
    <3>2. forks[v].slugOf = << >> BY <3>1 DEF TourInv
    <3>3. QED BY <1>23, <3>2, EmptyTables DEF Copied
  <2>2. UnderWay(v) BY <2>1 DEF TourInv
  <2>3. forks[v].slugOf[<<v, s>>] = s BY <1>7, <1>23, <2>2 DEF UnderWay
  <2>4. Has(forks[v].slugOf, s) BY <1>23, <2>3 DEF Has, Copied
  <2>5. QED BY <1>1, <1>23, <2>1, <2>4 DEF Awaited
<1>24. ASSUME NEW u \in Forks, NEW v \in Forks, NEW t \in Slugs, Copied(u, t)', Copied(v, t)' PROVE u = v
  <2>1. \A q \in Forks : q # w => (Copied(q, t)' <=> Copied(q, t)) BY <1>18 DEF Copied
  <2>2. QED BY <1>19, <1>23, <1>24, <2>1 DEF TourInv
<1>25. TourIsWhole'
  <2>1. \A v \in Forks :
              forks'[v].phase \in {"copied", "marked"} <=> forks[v].phase \in {"copied", "marked"}
    BY <1>1, <1>17, <1>18 DEF f
  <2>2. QED BY <1>0, <1>1, <2>1, WholeStays
<1>26. Distinct' /\ Sourced' BY <1>1 DEF TourInv, Distinct, Sourced
<1>27. QED BY <1>20, <1>22, <1>24, <1>25, <1>26 DEF TourInv

\* Back-filling links leaves those that lead somewhere, and those to other slugs.
Fills(g, f, s) ==
    /\ g \in LinkTables
    /\ DOMAIN g = DOMAIN f
    /\ \A e \in DOMAIN f : f[e] # NoNote \/ e[2] # s => g[e] = f[e]

LEMMA FilledLeads ==
    ASSUME NEW f \in LinkTables, NEW n \in Note, NEW s, NEW g, g = Backfilled(f, s, n, TRUE)
    PROVE  Fills(g, f, s)
<1>1. PICK D \in SUBSET (Note \X Slugs) : f \in [D -> Note \cup {NoNote}] BY DEF LinkTables
<1>2. g = [e \in DOMAIN f |-> IF TRUE /\ f[e] = NoNote /\ e[2] = s THEN n ELSE f[e]]
  BY DEF Backfilled
<1>3. g \in [D -> Note \cup {NoNote}] BY <1>1, <1>2
<1>4. g \in LinkTables BY <1>3 DEF LinkTables
<1>5. QED BY <1>2, <1>4 DEF Fills

LEMMA CommitStep ==
    ASSUME TourInv, NEW w \in Forks, CommitFork(w)
    PROVE  TourInv'
<1> DEFINE f == forks[w]
           g == [NotForked EXCEPT !.phase = "copied"]
<1>0. TourTypes /\ TourIsWhole BY DEF TourInv
<1>1. /\ f.phase = "copying" /\ Cardinality(DOMAIN f.slugOf) = Len(TourNotes)
      /\ slugOf' = With(slugOf, f.slugOf) /\ leads' = With(leads, f.leads)
      /\ adrift' = IF f.calm THEN adrift ELSE adrift \cup Copies(w) \X Slugs
      /\ UNCHANGED <<handles, pinned, onboarded, renames>>
  BY DEF CommitFork
<1>2. forks' = [forks EXCEPT ![w] = g] BY DEF CommitFork
<1>3. f \in Fork /\ f.slugOf \in Tables /\ f.leads \in LinkTables /\ 0 \in 0 .. handles
  BY <1>0, TourAssumption DEF TourTypes, Fork
<1>4. g \in Fork /\ g.phase = "copied" /\ g.handle = 0 /\ g.slugOf = << >> /\ g.leads = << >>
  BY <1>3, EmptyTables DEF Phases, Fork, NotForked
<1>5. UnderWay(w) BY <1>1 DEF TourInv
<1>6. \A v \in Forks : v # w => forks'[v] = forks[v] BY <1>0, <1>2, <1>4, OneForkMoves
<1>7. forks'[w] = g /\ forks' \in [Forks -> Fork] BY <1>0, <1>2, <1>4, OneForkMoves
<1> HIDE DEF g
<1>8. DOMAIN f.slugOf = Copies(w)
  <2>1. DOMAIN f.slugOf = FirstCopies(w, Len(TourNotes)) BY <1>1, <1>5 DEF UnderWay
  <2>2. DOMAIN TourNotes = 1 .. Len(TourNotes) BY TourAssumption
  <2>3. QED BY <2>1, <2>2, CopiesAreNotes DEF FirstCopies, Slugs
<1>9. \A s \in Slugs : Copied(w, s) /\ f.slugOf[<<w, s>>] = s /\ ~Has(slugOf, s)
  BY <1>5, <1>8, CopiesAreNotes DEF UnderWay, Copied
<1>10. Copies(w) \cap DOMAIN slugOf = {} BY <1>0, <1>1 DEF TourIsWhole
<1>11. /\ DOMAIN slugOf' = DOMAIN slugOf \cup Copies(w)
       /\ \A x \in Copies(w) : slugOf'[x] = f.slugOf[x]
       /\ \A x \in DOMAIN slugOf : slugOf'[x] = slugOf[x]
  BY <1>1, <1>8, <1>10 DEF With
<1>12. /\ DOMAIN leads' = DOMAIN leads \cup DOMAIN f.leads
       /\ \A e \in DOMAIN f.leads : leads'[e] = f.leads[e]
       /\ \A e \in DOMAIN leads \ DOMAIN f.leads : leads'[e] = leads[e]
  BY <1>1 DEF With
<1>13. slugOf' \in Tables /\ leads' \in LinkTables BY <1>0, <1>1, <1>3, WithType DEF TourTypes
<1>14. \A s \in Slugs : /\ Has(slugOf, s) => Has(slugOf', s)
                        /\ Has(slugOf', s) => Has(slugOf, s) \/ Copied(w, s)
  BY <1>9, <1>11 DEF Has
<1>15. \A v \in Forks, s \in Slugs : Copied(v, s)' => Copied(v, s)
  BY <1>4, <1>6, <1>7, EmptyTables DEF Copied
<1>o. \A e \in DOMAIN f.leads : e[1] \in Copies(w) \/ Open(w, e) BY <1>5 DEF UnderWay
<1>a. adrift \subseteq adrift' /\ adrift' \subseteq Note \X Slugs
  BY <1>0, <1>1, CopiesAreNotes DEF TourTypes
<1>16. TourTypes' BY <1>0, <1>1, <1>3, <1>4, <1>6, <1>7, <1>11, <1>13, <1>a DEF TourTypes
<1>17. ASSUME NEW v \in Forks
       PROVE  IF forks'[v].phase = "copying" THEN UnderWay(v)'
              ELSE forks'[v].slugOf = << >> /\ forks'[v].leads = << >>
  <2>1. CASE v = w BY <1>4, <1>7, <2>1
  <2>2. CASE v # w /\ forks[v].phase = "copying"
    <3>1. UnderWay(v) BY <2>2 DEF TourInv
    <3>2. \A s \in Slugs : Copied(v, s) /\ Has(slugOf', s) => Has(slugOf, s)
      BY <1>9, <2>2 DEF TourInv
    <3>3. ASSUME NEW e \in DOMAIN forks[v].leads, Open(v, e)
          PROVE  e \in DOMAIN leads' /\ leads'[e] = NoNote
      <4>1. e \in DOMAIN leads /\ leads[e] = NoNote /\ Copied(v, e[2]) /\ e[2] \in Slugs
        BY <1>0, <3>3, LinkTableFields DEF Open, TourTypes
      <4>2. e[1] \notin Copies(w) BY <1>10, <4>1 DEF TourInv, Sourced
      <4>3. ~Copied(w, e[2]) BY <2>2, <4>1 DEF TourInv
      <4>4. e \notin DOMAIN f.leads BY <1>o, <4>2, <4>3 DEF Open
      <4>5. QED BY <1>12, <4>1, <4>4
    <3>4. UnderWay(v)' BY <1>1, <1>6, <1>14, <2>2, <3>1, <3>2, <3>3, UnderWayStays
    <3>5. QED BY <1>6, <2>2, <3>4
  <2>3. CASE v # w /\ forks[v].phase # "copying" BY <1>6, <2>3 DEF TourInv
  <2>4. QED BY <2>1, <2>2, <2>3
<1>18. TourIsWhole'
  <2>1. ASSUME NEW v \in Forks, v # w
        PROVE  Copies(v) \cap DOMAIN slugOf' = Copies(v) \cap DOMAIN slugOf
    BY <1>11, <2>1, CopiesAreNotes
  <2>2. ASSUME NEW v \in Forks
        PROVE  IF forks'[v].phase \in {"copied", "marked"} THEN Copies(v) \subseteq DOMAIN slugOf'
               ELSE Copies(v) \cap DOMAIN slugOf' = {}
    <3>1. CASE v = w BY <1>4, <1>7, <1>11, <3>1
    <3>2. CASE v # w /\ forks[v].phase \in {"copied", "marked"}
      BY <1>0, <1>6, <1>11, <3>2 DEF TourIsWhole
    <3>3. CASE v # w /\ forks[v].phase \notin {"copied", "marked"}
      BY <1>0, <1>6, <2>1, <3>3 DEF TourIsWhole
    <3>4. QED BY <3>1, <3>2, <3>3
  <2>3. ASSUME NEW v \in Forks, forks'[v].phase \in {"copied", "marked"},
               NEW s \in Slugs, NEW l \in TourLinks[s], <<<<v, s>>, l>> \notin adrift'
        PROVE  <<<<v, s>>, l>> \in DOMAIN leads' /\ leads'[<<<<v, s>>, l>>] = <<v, l>>
    <3>0. l \in Slugs BY TourAssumption
    <3>1. CASE v = w
      <4>1. f.calm
        <5>1. <<v, s>> \in Copies(w) BY <3>1, CopiesAreNotes
        <5>2. QED BY <1>1, <2>3, <3>0, <5>1
      <4>2. <<<<w, s>>, l>> \in DOMAIN f.leads /\ f.leads[<<<<w, s>>, l>>] = <<w, l>>
        BY <1>5, <1>9, <3>0, <4>1 DEF UnderWay
      <4>3. QED BY <1>12, <3>1, <4>2
    <3>2. CASE v # w
      <4>1. forks[v].phase \in {"copied", "marked"} BY <1>6, <2>3, <3>2
      <4>2. <<<<v, s>>, l>> \in DOMAIN leads /\ leads[<<<<v, s>>, l>>] = <<v, l>>
        BY <1>0, <1>a, <2>3, <4>1 DEF TourIsWhole
      <4>3. <<<<v, s>>, l>> \notin DOMAIN f.leads
        <5>1. <<v, s>> \notin Copies(w) BY <3>2, CopiesAreNotes
        <5>2. <<v, l>> # NoNote BY <3>0, CopiesAreNotes
        <5>3. ~Open(w, <<<<v, s>>, l>>) BY <4>2, <5>2 DEF Open
        <5>4. QED BY <1>o, <5>1, <5>3
      <4>4. QED BY <1>12, <4>2, <4>3
    <3>3. QED BY <3>1, <3>2
  <2>4. pinned' # NoNote => onboarded' /\ pinned'[2] = Welcome /\ pinned' \in DOMAIN slugOf'
    BY <1>0, <1>1, <1>11 DEF TourIsWhole
  <2>5. QED BY <2>2, <2>3, <2>4 DEF TourIsWhole
<1>19. Distinct'
  <2>1. \A x \in Copies(w) : \E q \in Slugs : x = <<w, q>> /\ slugOf'[x] = q /\ ~Has(slugOf, q)
    BY <1>9, <1>11, CopiesAreNotes
  <2>2. \A x \in Copies(w) : \A y \in DOMAIN slugOf : slugOf'[x] # slugOf'[y] BY <1>11, <2>1 DEF Has
  <2>3. \A x, y \in Copies(w) : slugOf'[x] = slugOf'[y] => x = y BY <2>1
  <2>4. \A x, y \in DOMAIN slugOf : slugOf'[x] = slugOf'[y] => x = y BY <1>11 DEF TourInv, Distinct
  <2>5. QED BY <1>11, <2>2, <2>3, <2>4 DEF Distinct
<1>20. Sourced' BY <1>11, <1>12, <1>o DEF TourInv, Sourced, Open
<1>21. QED BY <1>15, <1>16, <1>17, <1>18, <1>19, <1>20 DEF TourInv

LEMMA WriteStep ==
    ASSUME TourInv, NEW i \in 1 .. MaxOwn, NEW s \in Slugs \cup OtherSlugs, WriteOwn(i, s)
    PROVE  TourInv'
<1> DEFINE n == <<NoNote, i>>
           one == [x \in {n} |-> s]
<1>0. TourTypes /\ TourIsWhole BY DEF TourInv
<1>1. /\ n \notin DOMAIN slugOf /\ MayTake(s) /\ slugOf' = With(slugOf, one)
      /\ leads' = Backfilled(leads, s, n, TRUE)
      /\ UNCHANGED <<adrift, handles, pinned, onboarded, forks, renames>>
  BY DEF WriteOwn
<1>2. n \in Note /\ \A w \in Forks : n \notin Copies(w) BY NoNoteAssumption, CopiesAreNotes DEF Note
<1>3. one \in Tables /\ DOMAIN one = {n} /\ one[n] = s
  <2>1. one \in [{n} -> Slugs \cup OtherSlugs] /\ {n} \in SUBSET Note BY <1>2
  <2>2. QED BY <2>1 DEF Tables
<1> HIDE DEF n, one
<1>4. /\ leads' \in LinkTables /\ DOMAIN leads' = DOMAIN leads
      /\ \A e \in DOMAIN leads : leads[e] # NoNote \/ e[2] # s => leads'[e] = leads[e]
  <2>1. leads \in LinkTables BY <1>0 DEF TourTypes
  <2>2. PICK g : g = leads' OBVIOUS
  <2>3. g = Backfilled(leads, s, n, TRUE) BY <1>1, <2>2
  <2>4. Fills(g, leads, s) BY <1>2, <2>1, <2>3, FilledLeads
  <2>5. QED BY <2>2, <2>4 DEF Fills
<1>5. /\ slugOf' \in Tables /\ DOMAIN slugOf' = DOMAIN slugOf \cup {n} /\ slugOf'[n] = s
      /\ \A x \in DOMAIN slugOf : slugOf'[x] = slugOf[x]
  <2>1. slugOf' \in Tables BY <1>0, <1>1, <1>3, WithType DEF TourTypes
  <2>2. QED BY <1>1, <1>3, <2>1 DEF With
<1>6. \A t : /\ Has(slugOf, t) => Has(slugOf', t)
             /\ Has(slugOf', t) => Has(slugOf, t) \/ t = s
  BY <1>5 DEF Has
<1>7. TourTypes' BY <1>0, <1>1, <1>4, <1>5 DEF TourTypes
<1>8. \A v \in Forks, t \in Slugs : Copied(v, t)' <=> Copied(v, t) BY <1>1 DEF Copied
<1>9. ASSUME NEW v \in Forks
      PROVE  IF forks'[v].phase = "copying" THEN UnderWay(v)'
             ELSE forks'[v].slugOf = << >> /\ forks'[v].leads = << >>
  <2>1. CASE forks[v].phase = "copying"
    <3>1. UnderWay(v) BY <2>1 DEF TourInv
    <3>2. ASSUME NEW t \in Slugs, Copied(v, t), Has(slugOf', t) PROVE Has(slugOf, t)
      <4>1. SUFFICES ASSUME t = s PROVE FALSE BY <1>6, <3>2
      <4>2. forks[v].slugOf[<<v, t>>] = t /\ <<v, t>> \in DOMAIN forks[v].slugOf
        BY <3>1, <3>2 DEF UnderWay, Copied
      <4>3. QED BY <1>1, <4>1, <4>2 DEF MayTake, Has
    <3>3. ~Copied(v, s)
      <4>1. SUFFICES ASSUME Copied(v, s), s \in Slugs PROVE FALSE
        BY <2>1, CopiedAreSlugs DEF TourInv
      <4>2. forks[v].slugOf[<<v, s>>] = s /\ <<v, s>> \in DOMAIN forks[v].slugOf
        BY <3>1, <4>1 DEF UnderWay, Copied
      <4>3. QED BY <1>1, <4>2 DEF MayTake, Has
    <3>4. \A e \in DOMAIN forks[v].leads : Open(v, e) => e \in DOMAIN leads' /\ leads'[e] = NoNote
      BY <1>4, <3>3 DEF Open
    <3>5. UnderWay(v)' BY <1>1, <1>6, <3>1, <3>2, <3>4, UnderWayStays
    <3>6. QED BY <1>1, <2>1, <3>5
  <2>2. CASE forks[v].phase # "copying" BY <1>1, <2>2 DEF TourInv
  <2>3. QED BY <2>1, <2>2
<1>10. TourIsWhole' BY <1>0, <1>1, <1>2, <1>4, <1>5, WholeStays
<1>11. Distinct' BY <1>1, <1>5 DEF TourInv, Distinct, MayTake, Has
<1>12. Sourced' BY <1>4, <1>5 DEF TourInv, Sourced
<1>13. QED BY <1>7, <1>8, <1>9, <1>10, <1>11, <1>12 DEF TourInv

\* What a rename does to forks: those under way are disturbed.
LEMMA DisturbedForks ==
    ASSUME TourTypes, forks' = Disturbed
    PROVE  /\ forks' \in [Forks -> Fork]
           /\ \A w \in Forks :
                 /\ forks'[w].phase = forks[w].phase /\ forks'[w].handle = forks[w].handle
                 /\ forks'[w].slugOf = forks[w].slugOf /\ forks'[w].leads = forks[w].leads
                 /\ forks[w].phase = "copying" => forks'[w].calm = FALSE
                 /\ forks[w].phase # "copying" => forks'[w] = forks[w]
<1>1. \A w \in Forks : forks[w] \in Fork BY DEF TourTypes
<1>2. ASSUME NEW w \in Forks
      PROVE  /\ forks'[w] \in Fork
             /\ forks'[w].phase = forks[w].phase /\ forks'[w].handle = forks[w].handle
             /\ forks'[w].slugOf = forks[w].slugOf /\ forks'[w].leads = forks[w].leads
             /\ forks[w].phase = "copying" => forks'[w].calm = FALSE
             /\ forks[w].phase # "copying" => forks'[w] = forks[w]
  <2>1. CASE forks[w].phase = "copying"
    <3>1. forks'[w] = [forks[w] EXCEPT !.calm = FALSE] BY <2>1 DEF Disturbed
    <3>2. QED BY <1>1, <2>1, <3>1 DEF Fork
  <2>2. CASE forks[w].phase # "copying" BY <1>1, <2>2 DEF Disturbed
  <2>3. QED BY <2>1, <2>2
<1>3. forks' = [w \in Forks |-> forks'[w]] BY DEF Disturbed
<1>4. QED BY <1>2, <1>3

LEMMA SaveStep ==
    ASSUME TourInv, NEW n \in Note, NEW s \in Slugs \cup OtherSlugs, NEW known \in BOOLEAN,
           NEW body \in SUBSET Slugs, SaveDraft(n, s, body, known)
    PROVE  TourInv'
<1> DEFINE own == {n} \X (IF known THEN body ELSE {})
           edges == Recomputed(leads, n, body, known, slugOf')
           lost == {l \in Slugs : ~(known /\ l \in body /\ Borne(n, l, slugOf'))}
<1>0. TourTypes /\ TourIsWhole BY DEF TourInv
<1>1. /\ n \in DOMAIN slugOf /\ ~Filling(n)
      /\ slugOf' = [slugOf EXCEPT ![n] = s] /\ leads' = Backfilled(edges, s, n, TRUE)
      /\ adrift' = (adrift \ ({n} \X Slugs)) \cup {n} \X lost
      /\ \/ s = slugOf[n] /\ UNCHANGED <<forks, renames>>
         \/ MayTake(s) /\ renames < MaxRenamed /\ renames' = renames + 1 /\ forks' = Disturbed
      /\ UNCHANGED <<handles, pinned, onboarded>>
  BY DEF SaveDraft
<1>2. renames' \in 0 .. MaxRenamed BY <1>0, <1>1, TourAssumption DEF TourTypes
<1>3. /\ forks' \in [Forks -> Fork]
      /\ \A w \in Forks :
            /\ forks'[w].phase = forks[w].phase /\ forks'[w].handle = forks[w].handle
            /\ forks'[w].slugOf = forks[w].slugOf /\ forks'[w].leads = forks[w].leads
            /\ forks[w].phase = "copying" => (s = slugOf[n] /\ forks' = forks) \/ forks'[w].calm = FALSE
            /\ forks[w].phase # "copying" => forks'[w] = forks[w]
  <2>1. CASE s = slugOf[n] /\ forks' = forks BY <1>0, <2>1 DEF TourTypes
  <2>2. CASE forks' = Disturbed BY <1>0, <2>2, DisturbedForks
  <2>3. QED BY <1>1, <2>1, <2>2
<1>4. /\ slugOf' \in Tables /\ DOMAIN slugOf' = DOMAIN slugOf /\ slugOf'[n] = s
      /\ \A x \in DOMAIN slugOf \ {n} : slugOf'[x] = slugOf[x]
  <2>1. \E D \in SUBSET Note : slugOf \in [D -> Slugs \cup OtherSlugs] BY <1>0 DEF TourTypes, Tables
  <2>2. PICK D \in SUBSET Note : slugOf \in [D -> Slugs \cup OtherSlugs] BY <2>1
  <2>3. slugOf' \in [D -> Slugs \cup OtherSlugs] BY <1>1, <2>2
  <2>4. QED BY <1>1, <2>2, <2>3 DEF Tables
<1>5. (s = slugOf[n] /\ forks' = forks) \/ MayTake(s) BY <1>1
<1>6. \A t : Has(slugOf', t) => Has(slugOf, t) \/ t = s BY <1>4 DEF Has
<1>7. Distinct' BY <1>1, <1>4, <1>5 DEF TourInv, Distinct, MayTake, Has
<1>8. /\ edges \in LinkTables
      /\ \A e : e \in DOMAIN edges <=> e \in own \/ (e \in DOMAIN leads /\ e[1] # n)
      /\ \A e \in own : edges[e] = Holder(slugOf', e[2])
      /\ \A e \in DOMAIN leads : e[1] # n => edges[e] = leads[e]
  <2>1. edges = Recomputed(leads, n, body, known, slugOf') /\ own = {n} \X (IF known THEN body ELSE {})
    OBVIOUS
  <2> HIDE DEF edges, own
  <2>2. leads \in LinkTables BY <1>0 DEF TourTypes
  <2>3. Replaces(edges, leads, n, own, slugOf') BY <1>4, <2>1, <2>2, RecomputedFields
  <2>4. QED BY <2>3 DEF Replaces
<1>l. lost \subseteq Slugs /\ \A l \in Slugs : l \notin lost => known /\ l \in body /\ Borne(n, l, slugOf')
  OBVIOUS
<1>w. \A e : e \in own <=> \E l \in body : known /\ e = <<n, l>> OBVIOUS
<1> HIDE DEF edges, own, lost
<1>9. /\ leads' \in LinkTables /\ DOMAIN leads' = DOMAIN edges
      /\ \A e \in DOMAIN edges : edges[e] # NoNote \/ e[2] # s => leads'[e] = edges[e]
  <2>1. PICK g : g = leads' OBVIOUS
  <2>2. PICK f : f = edges OBVIOUS
  <2>3. g = Backfilled(f, s, n, TRUE) /\ f \in LinkTables BY <1>1, <1>8, <2>1, <2>2
  <2>4. Fills(g, f, s) BY <2>3, FilledLeads
  <2>5. QED BY <2>1, <2>2, <2>4 DEF Fills
<1>10. adrift' \subseteq Note \X Slugs BY <1>0, <1>1, <1>l DEF TourTypes
<1>11. TourTypes' BY <1>0, <1>1, <1>2, <1>3, <1>4, <1>9, <1>10 DEF TourTypes
<1>12. \A v \in Forks, t \in Slugs : Copied(v, t)' <=> Copied(v, t) BY <1>3 DEF Copied
<1>13. ASSUME NEW v \in Forks
       PROVE  IF forks'[v].phase = "copying" THEN UnderWay(v)'
              ELSE forks'[v].slugOf = << >> /\ forks'[v].leads = << >>
  <2>1. CASE forks[v].phase = "copying"
    <3>1. UnderWay(v) BY <2>1 DEF TourInv
    <3>2. ~Copied(v, s)
      <4>1. SUFFICES ASSUME Copied(v, s) PROVE FALSE OBVIOUS
      <4>2. s \in Slugs BY <3>1, <4>1, CopiedAreSlugs
      <4>3. forks[v].slugOf[<<v, s>>] = s /\ <<v, s>> \in DOMAIN forks[v].slugOf /\ ~Has(slugOf, s)
        BY <3>1, <4>1, <4>2 DEF UnderWay, Copied
      <4>4. QED BY <1>1, <1>5, <4>3 DEF MayTake, Has
    <3>3. \A t \in Slugs : Copied(v, t) /\ Has(slugOf', t) => Has(slugOf, t) BY <1>6, <3>2
    <3>4. ASSUME NEW e \in DOMAIN forks[v].leads, Open(v, e)
          PROVE  e \in DOMAIN leads' /\ leads'[e] = NoNote
      <4>1. e[1] # n BY <1>1, <3>4 DEF Filling
      <4>2. e \in DOMAIN edges /\ edges[e] = NoNote BY <1>8, <3>4, <4>1 DEF Open
      <4>3. e[2] # s BY <3>2, <3>4 DEF Open
      <4>4. QED BY <1>9, <4>2, <4>3
    <3>5. forks'[v].calm => /\ forks[v].calm /\ forks'[v].handle = forks[v].handle /\ handles' = handles
                            /\ \A t \in Slugs : Has(slugOf, t) => Has(slugOf', t)
      <4>1. SUFFICES ASSUME forks'[v].calm PROVE s = slugOf[n] /\ forks' = forks
        BY <1>1, <1>4 DEF Has
      <4>2. QED BY <1>3, <2>1, <4>1
    <3>6. UnderWay(v)' BY <1>3, <3>1, <3>3, <3>4, <3>5, UnderWayStays
    <3>7. QED BY <1>3, <2>1, <3>6
  <2>2. CASE forks[v].phase # "copying" BY <1>3, <2>2 DEF TourInv
  <2>3. QED BY <2>1, <2>2
<1>14. ASSUME NEW w \in Forks, forks[w].phase \in {"copied", "marked"},
              NEW q \in Slugs, NEW l \in TourLinks[q], <<<<w, q>>, l>> \notin adrift'
       PROVE  <<<<w, q>>, l>> \in DOMAIN leads' /\ leads'[<<<<w, q>>, l>>] = <<w, l>>
  <2> DEFINE e == <<<<w, q>>, l>>
  <2>0. l \in Slugs /\ <<w, l>> # NoNote BY TourAssumption, CopiesAreNotes
  <2>1. CASE <<w, q>> = n
    <3>1. known /\ l \in body /\ Borne(n, l, slugOf') BY <1>1, <1>14, <1>l, <2>0, <2>1
    <3>2. n[1] = w BY <2>1
    <3>3. <<w, l>> \in DOMAIN slugOf' /\ slugOf'[<<w, l>>] = l BY <3>1, <3>2 DEF Borne
    <3>4. Has(slugOf', l) BY <3>3 DEF Has
    <3>5. Holder(slugOf', l) = <<w, l>> BY <1>7, <3>3, <3>4, HolderFields DEF Distinct
    <3>6. e \in own /\ e[2] = l BY <1>w, <2>1, <3>1
    <3>7. e \in DOMAIN edges /\ edges[e] = <<w, l>> BY <1>8, <3>5, <3>6
    <3>8. QED BY <1>9, <2>0, <3>7
  <2>2. CASE <<w, q>> # n
    <3>1. e \notin adrift BY <1>1, <1>14, <2>2
    <3>2. e \in DOMAIN leads /\ leads[e] = <<w, l>> BY <1>0, <1>14, <3>1 DEF TourIsWhole
    <3>3. e \in DOMAIN edges /\ edges[e] = <<w, l>> BY <1>8, <2>2, <3>2
    <3>4. QED BY <1>9, <2>0, <3>3
  <2>3. QED BY <2>1, <2>2
<1>15. TourIsWhole'
  <2>1. ASSUME NEW w \in Forks
        PROVE  IF forks'[w].phase \in {"copied", "marked"} THEN Copies(w) \subseteq DOMAIN slugOf'
               ELSE Copies(w) \cap DOMAIN slugOf' = {}
    BY <1>0, <1>3, <1>4 DEF TourIsWhole
  <2>2. pinned' # NoNote => onboarded' /\ pinned'[2] = Welcome /\ pinned' \in DOMAIN slugOf'
    BY <1>0, <1>1, <1>4 DEF TourIsWhole
  <2>3. \A w \in Forks : forks'[w].phase = forks[w].phase BY <1>3
  <2>4. ASSUME NEW w \in Forks, forks'[w].phase \in {"copied", "marked"},
               NEW q \in Slugs, NEW l \in TourLinks[q], <<<<w, q>>, l>> \notin adrift'
        PROVE  <<<<w, q>>, l>> \in DOMAIN leads' /\ leads'[<<<<w, q>>, l>>] = <<w, l>>
    BY <1>14, <2>3, <2>4
  <2>5. QED BY <2>1, <2>2, <2>4 DEF TourIsWhole
<1>16. Sourced'
  <2>1. SUFFICES ASSUME NEW e \in DOMAIN leads' PROVE e[1] \in DOMAIN slugOf' BY DEF Sourced
  <2>2. e \in own \/ e \in DOMAIN leads BY <1>8, <1>9, <2>1
  <2>3. CASE e \in own BY <1>1, <1>4, <1>w, <2>3
  <2>4. CASE e \in DOMAIN leads BY <1>4, <2>4 DEF TourInv, Sourced
  <2>5. QED BY <2>2, <2>3, <2>4
<1>17. QED BY <1>7, <1>11, <1>12, <1>13, <1>15, <1>16 DEF TourInv

LEMMA RenameHandleStep ==
    ASSUME TourInv, RenameHandle
    PROVE  TourInv'
<1>0. TourTypes /\ TourIsWhole BY DEF TourInv
<1>1. /\ handles < MaxHandles /\ handles' = handles + 1 /\ forks' = Disturbed
      /\ UNCHANGED <<slugOf, leads, adrift, pinned, onboarded, renames>>
  BY DEF RenameHandle
<1>2. handles' \in 1 .. MaxHandles /\ 0 .. handles \subseteq 0 .. handles'
  BY <1>0, <1>1, TourAssumption DEF TourTypes
<1>3. /\ forks' \in [Forks -> Fork]
      /\ \A w \in Forks :
            /\ forks'[w].phase = forks[w].phase /\ forks'[w].handle = forks[w].handle
            /\ forks'[w].slugOf = forks[w].slugOf /\ forks'[w].leads = forks[w].leads
            /\ forks[w].phase = "copying" => forks'[w].calm = FALSE
            /\ forks[w].phase # "copying" => forks'[w] = forks[w]
  BY <1>0, <1>1, DisturbedForks
<1>7. TourTypes' BY <1>0, <1>1, <1>2, <1>3 DEF TourTypes
<1>8. \A v \in Forks, t \in Slugs : Copied(v, t)' <=> Copied(v, t) BY <1>3 DEF Copied
<1>9. ASSUME NEW v \in Forks
      PROVE  IF forks'[v].phase = "copying" THEN UnderWay(v)'
             ELSE forks'[v].slugOf = << >> /\ forks'[v].leads = << >>
  <2>1. CASE forks[v].phase = "copying"
    <3>1. UnderWay(v) BY <2>1 DEF TourInv
    <3>2. UnderWay(v)' BY <1>1, <1>3, <2>1, <3>1, UnderWayStays DEF Open
    <3>3. QED BY <1>3, <2>1, <3>2
  <2>2. CASE forks[v].phase # "copying" BY <1>3, <2>2 DEF TourInv
  <2>3. QED BY <2>1, <2>2
<1>10. TourIsWhole'
  <2>1. \A w \in Forks :
           forks'[w].phase \in {"copied", "marked"} <=> forks[w].phase \in {"copied", "marked"}
    BY <1>3
  <2>2. QED BY <1>0, <1>1, <2>1, WholeStays
<1>11. Distinct' /\ Sourced' BY <1>1 DEF TourInv, Distinct, Sourced
<1>12. QED BY <1>7, <1>8, <1>9, <1>10, <1>11 DEF TourInv

LEMMA TourStep == TourInv /\ [TourNext]_tourVars => TourInv'
<1> SUFFICES ASSUME TourInv, [TourNext]_tourVars PROVE TourInv' OBVIOUS
<1>1. CASE Skip
  <2>1. onboarded' = TRUE /\ UNCHANGED <<slugOf, leads, adrift, handles, pinned, forks, renames>> BY <1>1 DEF Skip
  <2>2. TourTypes' BY <2>1 DEF TourInv, TourTypes
  <2>3. TourIsWhole' BY <2>1 DEF TourInv, TourIsWhole
  <2>4. QED BY <2>1, <2>2, <2>3 DEF TourInv, UnderWay, Copied, Open, Distinct, Sourced
<1>2. CASE UNCHANGED tourVars
  <2>1. UNCHANGED <<slugOf, leads, adrift, handles, pinned, onboarded, forks, renames>> BY <1>2 DEF tourVars
  <2>2. TourTypes' BY <2>1 DEF TourInv, TourTypes
  <2>3. TourIsWhole' BY <2>1 DEF TourInv, TourIsWhole
  <2>4. QED BY <2>1, <2>2, <2>3 DEF TourInv, UnderWay, Copied, Open, Distinct, Sourced
<1>3. ASSUME NEW n \in Note, NEW s \in Slugs \cup OtherSlugs, NEW known \in BOOLEAN,
             NEW body \in Texts(n), SaveDraft(n, s, body, known)
      PROVE  TourInv'
  <2>1. n[1] \in Forks => n[2] \in Slugs BY NoNoteAssumption DEF Note
  <2>2. body \in SUBSET Slugs BY <2>1, TourAssumption DEF Texts
  <2>3. QED BY <1>3, <2>2, SaveStep
<1>4. QED
  BY <1>1, <1>2, <1>3, BeginStep, CopyStep, CommitStep, FailStep, MarkStep, WriteStep, RenameHandleStep
  DEF TourNext

\* A request leaves all copies of the tour or none, linked among each other, and what
\* is pinned is the first page of a whole one, whatever runs or fails meanwhile.
THEOREM ToursAreWhole == TourSpec => []TourIsWhole
<1>1. TourInv => TourIsWhole BY DEF TourInv
<1>2. QED BY <1>1, TourInitially, TourStep, PTL DEF TourSpec

\* Notes, links and requests stay of their types.
THEOREM TourTypeCorrect == TourSpec => []TourTypeOK
<1>1. QED BY TourTypeHolds, TourInitially, TourStep, PTL DEF TourSpec

----------------------------------------------------------------------------
(* The order of locks *)

----------------------------------------------------------------------------
(* Statements *)

\* Statements that lock authors lock these.
Fits(steps, as) ==
    /\ steps \in Seq(SUBSET Lock)
    /\ \A i \in DOMAIN steps : \A b \in LockAuthors : LockAuthor(b) \in steps[i] => b \in as

\* No lock of another kind is one of an author.
LEMMA LocksApart ==
    ASSUME NEW b
    PROVE  /\ \A c : LockAuthor(b) = LockAuthor(c) => b = c
           /\ \A c : LockAuthor(b) # SpaceRow(c) /\ LockAuthor(b) # LinkRow(c)
           /\ \A n : LockAuthor(b) # ForUpdate(n) /\ LockAuthor(b) # Update(n) /\ LockAuthor(b) # KeyShare(n)
<1> DEFINE on(l) == l.on
<1>1. \A c, s : Exclusive(<<s, c>>).on = <<s, c>> BY DEF Exclusive
<1>2. \A s, c, r, e : <<s, c>> = <<r, e>> => s = r /\ c = e OBVIOUS
<1>3. /\ LockAuthor(b).on = <<"author", b>>
      /\ \A c : SpaceRow(c).on = <<"space", c>> /\ LinkRow(c).on = <<"link", c>>
      /\ \A n : /\ ForUpdate(n).on = <<"note", n>> /\ Update(n).on = <<"note", n>>
                /\ KeyShare(n).on = <<"note", n>>
  BY DEF LockAuthor, SpaceRow, LinkRow, ForUpdate, Update, KeyShare, Exclusive
<1>4. \A c : LockAuthor(c).on = <<"author", c>> BY DEF LockAuthor, Exclusive
<1>5. "author" # "space" /\ "author" # "link" /\ "author" # "note" OBVIOUS
<1>6. QED BY <1>2, <1>3, <1>4, <1>5

\* Statements after statements.
Joined(u, s, t) == u = s \o t

LEMMA JoinedFit ==
    ASSUME NEW as, NEW s, NEW t, Fits(s, as), Fits(t, as), NEW u, Joined(u, s, t)
    PROVE  Fits(u, as)
<1>0. u = s \o t BY DEF Joined
<1>1. s \in Seq(SUBSET Lock) /\ t \in Seq(SUBSET Lock) BY DEF Fits
<1>2. /\ s \o t \in Seq(SUBSET Lock) /\ Len(s \o t) = Len(s) + Len(t)
      /\ \A i \in 1 .. Len(s) + Len(t) : (s \o t)[i] = IF i <= Len(s) THEN s[i] ELSE t[i - Len(s)]
  BY <1>1, ConcatProperties
<1>3. ASSUME NEW i \in DOMAIN (s \o t), NEW b \in LockAuthors, LockAuthor(b) \in (s \o t)[i]
      PROVE  b \in as
  <2>1. i \in 1 .. Len(s) + Len(t) /\ Len(s) \in Nat /\ Len(t) \in Nat BY <1>1, <1>2
  <2>2. CASE i <= Len(s)
    <3>1. i \in DOMAIN s /\ (s \o t)[i] = s[i] BY <1>1, <1>2, <2>1, <2>2
    <3>2. QED BY <1>3, <3>1 DEF Fits
  <2>3. CASE ~(i <= Len(s))
    <3>1. i - Len(s) \in DOMAIN t /\ (s \o t)[i] = t[i - Len(s)] BY <1>1, <1>2, <2>1, <2>3
    <3>2. QED BY <1>3, <3>1 DEF Fits
  <2>4. QED BY <2>2, <2>3
<1>4. QED BY <1>0, <1>2, <1>3 DEF Fits

\* A statement on its own.
LEMMA OneFits ==
    ASSUME NEW as, NEW S \in SUBSET Lock, \A b \in LockAuthors : LockAuthor(b) \in S => b \in as
    PROVE  Fits(<<S>>, as) /\ Len(<<S>>) = 1
<1> DEFINE s == <<S>>
<1>1. s \in Seq(SUBSET Lock) /\ Len(s) = 1 /\ s[1] = S OBVIOUS
<1> HIDE DEF s
<1>2. DOMAIN s = 1 .. 1 BY <1>1
<1>3. \A i \in DOMAIN s : s[i] = S BY <1>1, <1>2
<1>4. Fits(s, as) BY <1>1, <1>3 DEF Fits
<1>5. QED BY <1>1, <1>4 DEF s

\* Locks of notes are no locks of authors.
LEMMA NoteLocks ==
    ASSUME NEW S \in SUBSET (Rows \cup NewRows), NEW as
    PROVE  /\ Fits(<<{ForUpdate(n) : n \in S}>>, as) /\ Fits(<<{Update(n) : n \in S}>>, as)
           /\ \A n \in S : Fits(<<{ForUpdate(n)}>>, as)
<1>1. \A n \in S : ForUpdate(n) \in Lock /\ Update(n) \in Lock BY DEF Lock
<1>2. /\ {ForUpdate(n) : n \in S} \in SUBSET Lock /\ {Update(n) : n \in S} \in SUBSET Lock
      /\ \A n \in S : {ForUpdate(n)} \in SUBSET Lock
  BY <1>1
<1>3. \A b \in LockAuthors : /\ LockAuthor(b) \notin {ForUpdate(n) : n \in S}
                             /\ LockAuthor(b) \notin {Update(n) : n \in S}
                             /\ \A n \in S : LockAuthor(b) \notin {ForUpdate(n)}
  BY LocksApart
<1>4. QED BY <1>2, <1>3, OneFits

\* Nor are those of links and of the targets they share.
LEMMA LinkLocks ==
    ASSUME NEW T \in SUBSET Cites, NEW as
    PROVE  Fits(<<{LinkRow(e) : e \in T}>>, as) /\ Fits(<<{KeyShare(e[2]) : e \in T}>>, as)
<1>1. \A e \in T : LinkRow(e) \in Lock BY DEF Lock
<1>2. \A e \in T : e[2] \in Rows \cup NewRows BY LockAssumption
<1>3. \A e \in T : KeyShare(e[2]) \in Lock BY <1>2 DEF Lock
<1>4. {LinkRow(e) : e \in T} \in SUBSET Lock /\ {KeyShare(e[2]) : e \in T} \in SUBSET Lock BY <1>1, <1>3
<1>5. \A b \in LockAuthors : LockAuthor(b) \notin {LinkRow(e) : e \in T} /\ LockAuthor(b) \notin {KeyShare(e[2]) : e \in T}
  BY LocksApart
<1>6. QED BY <1>4, <1>5, OneFits

\* An author's own lock, and that of her space.
LEMMA AuthorFits ==
    ASSUME NEW a \in LockAuthors, NEW as, a \in as
    PROVE  Fits(<<{LockAuthor(a)}>>, as) /\ Fits(<<{SpaceRow(a)}>>, as)
<1>1. LockAuthor(a) \in Lock /\ SpaceRow(a) \in Lock BY DEF Lock
<1>2. \A b \in LockAuthors : /\ LockAuthor(b) \in {LockAuthor(a)} => b \in as
                             /\ LockAuthor(b) \notin {SpaceRow(a)}
  BY LocksApart
<1>3. QED BY <1>1, <1>2, OneFits

\* The statements that link a note.
LEMMA RewiredFits ==
    ASSUME NEW n, NEW as
    PROVE  Fits(Rewired(n), as) /\ Len(Rewired(n)) = 3
<1> DEFINE A == {LinkRow(e) : e \in {e \in Cites : e[1] = n}}
           B == {KeyShare(e[2]) : e \in {e \in Cites \ Stubs : e[1] = n}}
           C == {LinkRow(e) : e \in {e \in Stubs : e[2] = n}}
<1>1. Rewired(n) = <<A, B, C>> BY DEF Rewired
<1>2. Fits(<<A>>, as) /\ Fits(<<B>>, as) /\ Fits(<<C>>, as) BY LinkLocks, LockAssumption
<1> HIDE DEF A, B, C
<1>3. /\ A \in SUBSET Lock /\ B \in SUBSET Lock /\ C \in SUBSET Lock
      /\ \A b \in LockAuthors : LockAuthor(b) \in A \cup B \cup C => b \in as
  <2>1. ASSUME NEW X, Fits(<<X>>, as)
        PROVE  X \in SUBSET Lock /\ \A b \in LockAuthors : LockAuthor(b) \in X => b \in as
    <3> DEFINE s == <<X>>
    <3>1. Len(s) = 1 /\ s[1] = X OBVIOUS
    <3>2. Fits(s, as) BY <2>1
    <3> HIDE DEF s
    <3>3. s \in Seq(SUBSET Lock) BY <3>2 DEF Fits
    <3>4. 1 \in DOMAIN s BY <3>1, <3>3
    <3>5. s[1] \in SUBSET Lock BY <3>3, <3>4, ElementOfSeq
    <3>6. QED BY <3>1, <3>2, <3>4, <3>5 DEF Fits
  <2>2. QED BY <1>2, <2>1
<1> DEFINE s == <<A, B, C>>
<1>4. s \in Seq(SUBSET Lock) /\ Len(s) = 3 /\ s[1] = A /\ s[2] = B /\ s[3] = C BY <1>3
<1> HIDE DEF s
<1>5. DOMAIN s = 1 .. 3 BY <1>4
<1>6. \A i \in DOMAIN s : s[i] \subseteq A \cup B \cup C
  <2>1. \A i \in DOMAIN s : i = 1 \/ i = 2 \/ i = 3 BY <1>5
  <2>2. QED BY <1>4, <2>1
<1>7. Fits(s, as)
  <2>1. \A i \in DOMAIN s : \A b \in LockAuthors : LockAuthor(b) \in s[i] => b \in as BY <1>3, <1>6
  <2>2. QED BY <1>4, <2>1 DEF Fits
<1>8. QED BY <1>1, <1>4, <1>7 DEF s

\* Every note has an author.
LEMMA AuthorsOfRows == \A n \in Rows \cup NewRows : RowAuthor[n] \in LockAuthors /\ RowAuthor[n] \in Int
BY LockAssumption DEF LockAuthors

\* The statements that publish a note, its author ranked among them.
LEMMA PublishedFits ==
    ASSUME NEW n \in Rows, NEW as, RowAuthor[n] \in as
    PROVE  Fits(Published(n), as) /\ Len(Published(n)) = 5
<1> DEFINE A == AssignLocks(<<RowAuthor[n]>>)
<1>1. A = <<{LockAuthor(RowAuthor[n])}>> BY DEF AssignLocks
<1>2. Fits(A, as) /\ Len(A) = 1 BY <1>1, AuthorFits, AuthorsOfRows
<1> HIDE DEF A
<1> DEFINE F == <<{ForUpdate(n)}>>
           R == Rewired(n)
<1>3. Len(F) = 1 OBVIOUS
<1>4. Fits(F, as)
  <2>1. {n} \in SUBSET (Rows \cup NewRows) /\ n \in {n} OBVIOUS
  <2>2. QED BY <2>1, NoteLocks
<1>5. Fits(R, as) /\ Len(R) = 3 BY RewiredFits
<1> HIDE DEF F, R
<1> DEFINE FA == F \o A
           P == FA \o R
<1>6. Published(n) = P BY DEF Published, A, F, R
<1>7. Joined(FA, F, A) BY DEF Joined
<1>8. Joined(P, FA, R) BY DEF Joined
<1>9. Len(P) = 5
  <2>1. F \in Seq(SUBSET Lock) /\ A \in Seq(SUBSET Lock) /\ R \in Seq(SUBSET Lock)
    BY <1>2, <1>4, <1>5 DEF Fits
  <2>2. FA \in Seq(SUBSET Lock) /\ Len(FA) = Len(F) + Len(A) BY <2>1, ConcatProperties
  <2> HIDE DEF FA
  <2>3. Len(P) = Len(FA) + Len(R) BY <2>1, <2>2, ConcatProperties
  <2> HIDE DEF P
  <2>4. QED BY <1>2, <1>3, <1>5, <2>2, <2>3
<1> HIDE DEF FA, P
<1>10. Fits(FA, as) BY <1>2, <1>4, <1>7, JoinedFit
<1>11. Fits(P, as) BY <1>5, <1>8, <1>10, JoinedFit
<1>12. QED BY <1>6, <1>9, <1>11

\* Statements given one by one.
LEMMA ListedFit ==
    ASSUME NEW k \in Nat, NEW s, NEW as, s = [i \in 1 .. k |-> s[i]],
           \A i \in 1 .. k : \E S : \E j \in Nat : Fits(S, as) /\ j \in 1 .. Len(S) /\ s[i] = S[j]
    PROVE  Fits(s, as)
<1>1. ASSUME NEW i \in 1 .. k
      PROVE  s[i] \in SUBSET Lock /\ \A b \in LockAuthors : LockAuthor(b) \in s[i] => b \in as
  <2>0. PICK S : \E j \in Nat : Fits(S, as) /\ j \in 1 .. Len(S) /\ s[i] = S[j] OBVIOUS
  <2>1. PICK j \in Nat : Fits(S, as) /\ j \in 1 .. Len(S) /\ s[i] = S[j] BY <2>0
  <2>2. S \in Seq(SUBSET Lock) /\ j \in DOMAIN S BY <2>1 DEF Fits
  <2>3. QED BY <2>1, <2>2, ElementOfSeq DEF Fits
<1>2. s \in [1 .. k -> SUBSET Lock] BY <1>1
<1>3. s \in Seq(SUBSET Lock) /\ DOMAIN s = 1 .. k BY <1>2
<1>4. QED BY <1>1, <1>3 DEF Fits

\* Which note a statement belongs to, and which of its statements it is.
LEMMA Indices ==
    ASSUME NEW k \in Nat, NEW i \in Int
    PROVE  /\ i \in 1 .. 3 * k => (i + 2) \div 3 \in 1 .. k /\ (i + 2) % 3 \in 0 .. 2
           /\ i \in 1 .. 5 * k => (i + 4) \div 5 \in 1 .. k /\ (i + 4) % 5 \in 0 .. 4
OBVIOUS

\* The statements of several notes.
LEMMA EachFits ==
    ASSUME NEW S \in SUBSET (Rows \cup NewRows), IsFiniteSet(S), NEW ns \in InAnyOrder(S), NEW as,
           \A n \in S : RowAuthor[n] \in as
    PROVE  /\ Len(ns) \in Nat /\ DOMAIN ns = 1 .. Len(ns) /\ \A i \in 1 .. Len(ns) : ns[i] \in S
           /\ Fits(EachRewired(ns), as)
           /\ S \subseteq Rows => Fits(EachPublished(ns), as)
<1>1. Cardinality(S) \in Nat BY FS_CardinalityType
<1>2. ns \in [1 .. Cardinality(S) -> S] BY DEF InAnyOrder
<1>3. ns \in Seq(S) BY <1>1, <1>2
<1>4. Len(ns) \in Nat /\ DOMAIN ns = 1 .. Len(ns) /\ \A i \in 1 .. Len(ns) : ns[i] \in S
  <2>1. Len(ns) \in Nat /\ DOMAIN ns = 1 .. Len(ns) BY <1>3
  <2>2. \A i \in DOMAIN ns : ns[i] \in S BY <1>2
  <2>3. QED BY <2>1, <2>2
<1> DEFINE r == EachRewired(ns)
           p == EachPublished(ns)
<1>5. r = [i \in 1 .. 3 * Len(ns) |-> r[i]] BY DEF EachRewired
<1>6. \A i \in 1 .. 3 * Len(ns) : r[i] = Rewired(ns[(i + 2) \div 3])[((i + 2) % 3) + 1] BY DEF EachRewired
<1>7. p = [i \in 1 .. 5 * Len(ns) |-> p[i]] BY DEF EachPublished
<1>8. \A i \in 1 .. 5 * Len(ns) : p[i] = Published(ns[(i + 4) \div 5])[((i + 4) % 5) + 1] BY DEF EachPublished
<1> HIDE DEF r, p
<1>9. Fits(r, as)
  <2>1. ASSUME NEW i \in 1 .. 3 * Len(ns)
        PROVE  \E s : \E j \in Nat : Fits(s, as) /\ j \in 1 .. Len(s) /\ r[i] = s[j]
    <3>1. (i + 2) % 3 \in 0 .. 2 BY <1>4, Indices
    <3> DEFINE s == Rewired(ns[(i + 2) \div 3])
               j == ((i + 2) % 3) + 1
    <3>2. Fits(s, as) /\ Len(s) = 3 BY RewiredFits
    <3>3. r[i] = s[j] BY <1>6
    <3>4. j \in Nat /\ j \in 1 .. 3 BY <3>1
    <3> HIDE DEF s, j
    <3>5. j \in 1 .. Len(s) BY <3>2, <3>4
    <3>6. QED BY <3>2, <3>3, <3>4, <3>5
  <2>2. 3 * Len(ns) \in Nat BY <1>4
  <2>3. QED BY <1>5, <2>1, <2>2, ListedFit
<1>10. ASSUME S \subseteq Rows PROVE Fits(p, as)
  <2>1. ASSUME NEW i \in 1 .. 5 * Len(ns)
        PROVE  \E s : \E j \in Nat : Fits(s, as) /\ j \in 1 .. Len(s) /\ p[i] = s[j]
    <3>1. (i + 4) % 5 \in 0 .. 4 /\ (i + 4) \div 5 \in 1 .. Len(ns) BY <1>4, Indices
    <3> DEFINE n == ns[(i + 4) \div 5]
               s == Published(n)
               j == ((i + 4) % 5) + 1
    <3>2. n \in Rows /\ RowAuthor[n] \in as BY <1>4, <1>10, <3>1
    <3>3. p[i] = s[j] BY <1>8
    <3>4. j \in Nat /\ j \in 1 .. 5 BY <3>1
    <3>5. Fits(s, as) /\ Len(s) = 5
      <4> HIDE DEF n
      <4>1. QED BY <3>2, PublishedFits
    <3> HIDE DEF s, j
    <3>6. j \in 1 .. Len(s) BY <3>4, <3>5
    <3>7. QED BY <3>3, <3>4, <3>5, <3>6
  <2>2. 5 * Len(ns) \in Nat BY <1>4
  <2>3. QED BY <1>7, <2>1, <2>2, ListedFit
<1>11. QED BY <1>4, <1>9, <1>10 DEF r, p

----------------------------------------------------------------------------
(* Transactions *)

Backend == [authors : SUBSET LockAuthors, ranks : BOOLEAN, left : Seq(SUBSET Lock),
            wants : Lock \cup {None}, held : SUBSET Lock]

\* Authors whose lock it is still to take.
Owed(x) == {b \in x.authors : LockAuthor(b) \notin x.held}

\* Before the lock of author c it takes nothing but those of lesser ones.
ComesTo(x, c) ==
    \E i \in DOMAIN x.left :
        /\ x.left[i] = {LockAuthor(c)}
        /\ \A j \in 1 .. i - 1 : x.left[j] = {} \/ \E b \in x.authors : b < c /\ x.left[j] = {LockAuthor(b)}

\* It locks authors in their order, and nothing else before.
AuthorsFirst(x) ==
    Owed(x) # {} =>
        /\ \A l \in x.held : \E b \in x.authors : l = LockAuthor(b)
        /\ \A b \in x.authors \ Owed(x), c \in Owed(x) : b < c
        /\ \A c \in Owed(x) : ComesTo(x, c)

BackendInv(x) ==
    /\ x \in Backend
    /\ x.wants # None => \E i \in AtWork(x) : x.wants \in x.left[i]
    /\ x.ranks => Fits(x.left, x.authors) /\ AuthorsFirst(x)

\* Authors are numbers, in the order AssignLocks takes them.
LEMMA LockAuthorsAreInts == LockAuthors \subseteq Int
BY AuthorsOfRows DEF LockAuthors

\* A transaction that ranks nobody may lock in any order.
LEMMA UnrankedInv ==
    ASSUME NEW a \in LockAuthors, NEW steps \in Seq(SUBSET Lock)
    PROVE  BackendInv(Unranked(a, steps))
<1> DEFINE x == Unranked(a, steps)
<1>1. x = [authors |-> {a}, ranks |-> FALSE, left |-> steps, wants |-> None, held |-> {}]
  BY DEF Unranked, Plan
<1> HIDE DEF x
<1>2. x \in Backend /\ x.ranks = FALSE /\ x.wants = None BY <1>1 DEF Backend
<1>3. BackendInv(x) BY <1>2 DEF BackendInv
<1>4. QED BY <1>3 DEF x

\* One that takes its author's lock first is in order.
LEMMA RankingInv ==
    ASSUME NEW a \in LockAuthors, NEW steps, Fits(steps, {a})
    PROVE  BackendInv(Ranking(a, steps))
<1> DEFINE first == <<{LockAuthor(a)}>>
           all == first \o steps
           x == Ranking(a, steps)
<1>1. Fits(first, {a}) BY AuthorFits
<1>2. Joined(all, first, steps) BY DEF Joined
<1>3. /\ steps \in Seq(SUBSET Lock) /\ first \in Seq(SUBSET Lock) /\ Len(first) = 1
      /\ first[1] = {LockAuthor(a)} /\ Len(steps) \in Nat
  <2>1. steps \in Seq(SUBSET Lock) /\ first \in Seq(SUBSET Lock) BY <1>1 DEF Fits
  <2>2. QED BY <2>1
<1> HIDE DEF first
<1>4. /\ all \in Seq(SUBSET Lock) /\ Len(all) = Len(first) + Len(steps)
      /\ all[1] = IF 1 <= Len(first) THEN first[1] ELSE steps[1 - Len(first)]
  <2>1. 1 \in 1 .. Len(first) + Len(steps) BY <1>3
  <2>2. QED BY <1>3, <2>1, ConcatProperties
<1>5. x = [authors |-> {a}, ranks |-> TRUE, left |-> all, wants |-> None, held |-> {}]
  BY DEF Ranking, Plan, first
<1> HIDE DEF all, x
<1>6. Fits(all, {a}) BY <1>1, <1>2, JoinedFit
<1>7. all[1] = {LockAuthor(a)} /\ 1 \in DOMAIN all BY <1>3, <1>4
<1>8. /\ x \in Backend /\ x.authors = {a} /\ x.ranks = TRUE /\ x.left = all /\ x.wants = None
      /\ x.held = {} /\ Owed(x) = {a}
  BY <1>4, <1>5 DEF Backend, Owed
<1>9. ComesTo(x, a) BY <1>7, <1>8 DEF ComesTo
<1>10. AuthorsFirst(x) BY <1>8, <1>9 DEF AuthorsFirst
<1>11. BackendInv(x) BY <1>6, <1>8, <1>10 DEF BackendInv
<1>12. QED BY <1>11 DEF x

\* So is the start-up pass, which locks many authors in the order of their ids.
LEMMA LeftoversInv ==
    ASSUME NEW S \in Some(Rows), NEW order \in Ordered({RowAuthor[n] : n \in S})
    PROVE  BackendInv(RankLeftovers(S, order))
<1> DEFINE as == {RowAuthor[n] : n \in S}
           first == AssignLocks(order)
           marks == <<{Update(n) : n \in S}>>
           all == first \o marks
           x == RankLeftovers(S, order)
<1>0. S \in SUBSET Rows BY DEF Some
<1>1. as \in SUBSET LockAuthors BY <1>0, AuthorsOfRows
<1>2. IsFiniteSet(as) /\ Cardinality(as) \in Nat
  <2>1. IsFiniteSet(S) BY <1>0, LockAssumption, FS_Subset
  <2>2. IsFiniteSet(as)
    <3> DEFINE f == [n \in S |-> RowAuthor[n]]
    <3>1. f \in Surjection(S, as) BY DEF Surjection
    <3>2. QED BY <2>1, <3>1, FS_Surjection
  <2>3. QED BY <2>2, FS_CardinalityType
<1>3. x = [authors |-> as, ranks |-> TRUE, left |-> all, wants |-> None, held |-> {}]
  BY DEF RankLeftovers, Plan
<1>4. /\ order \in [1 .. Cardinality(as) -> as]
      /\ \A b \in as : \E i \in DOMAIN order : order[i] = b
      /\ \A i, j \in DOMAIN order : i < j => order[i] < order[j]
  BY DEF Ordered, InAnyOrder
<1> HIDE DEF as, x
<1> DEFINE k == Cardinality(as)
<1>k. k \in Nat BY <1>2
<1>o. /\ order \in [1 .. k -> as] /\ DOMAIN order = 1 .. k
      /\ \A b \in as : \E i \in 1 .. k : order[i] = b
      /\ \A i, j \in 1 .. k : i < j => order[i] < order[j]
      /\ \A i \in 1 .. k : order[i] \in as
  <2>1. order \in [1 .. k -> as] /\ DOMAIN order = 1 .. k BY <1>4
  <2>2. QED BY <1>4, <2>1
<1> HIDE DEF k
<1>5. first \in Seq(SUBSET Lock) /\ Len(first) = k /\ \A i \in 1 .. k : first[i] = {LockAuthor(order[i])}
  <2>1. first = [i \in 1 .. k |-> {LockAuthor(order[i])}] BY <1>o DEF AssignLocks
  <2>2. \A i \in 1 .. k : LockAuthor(order[i]) \in Lock BY <1>1, <1>o DEF Lock
  <2>3. first \in [1 .. k -> SUBSET Lock] BY <2>1, <2>2
  <2> HIDE DEF first
  <2>4. first \in Seq(SUBSET Lock) /\ Len(first) = k BY <1>k, <2>3
  <2>5. QED BY <2>1, <2>4
<1>6. Fits(first, as)
  <2>1. ASSUME NEW i \in DOMAIN first, NEW b \in LockAuthors, LockAuthor(b) \in first[i] PROVE b \in as
    <3>1. i \in 1 .. k BY <1>5, <1>k
    <3>2. LockAuthor(b) = LockAuthor(order[i]) BY <1>5, <2>1, <3>1
    <3>3. b = order[i] BY <3>2, LocksApart
    <3>4. QED BY <1>o, <3>1, <3>3
  <2>2. QED BY <1>5, <2>1 DEF Fits
<1>7. Fits(marks, as) /\ Len(marks) = 1 BY <1>0, NoteLocks
<1>8. Joined(all, first, marks) BY DEF Joined
<1>9. all \in Seq(SUBSET Lock) /\ DOMAIN all = 1 .. k + 1 /\ \A i \in 1 .. k : all[i] = {LockAuthor(order[i])}
  <2>1. marks \in Seq(SUBSET Lock) BY <1>7 DEF Fits
  <2> HIDE DEF first, marks
  <2>2. first \in Seq(SUBSET Lock) BY <1>5
  <2>3. /\ all \in Seq(SUBSET Lock) /\ Len(all) = Len(first) + Len(marks)
        /\ \A i \in 1 .. Len(first) + Len(marks) : all[i] = IF i <= Len(first) THEN first[i] ELSE marks[i - Len(first)]
    BY <2>1, <2>2, ConcatProperties
  <2> HIDE DEF all
  <2>4. Len(all) = k + 1 BY <1>5, <1>7, <2>3
  <2>5. DOMAIN all = 1 .. k + 1 BY <2>3, <2>4
  <2>6. ASSUME NEW i \in 1 .. k PROVE all[i] = {LockAuthor(order[i])}
    <3>1. i \in 1 .. Len(first) + Len(marks) /\ i <= Len(first) BY <1>5, <1>7, <1>k
    <3>2. QED BY <1>5, <2>3, <3>1
  <2>7. QED BY <2>3, <2>5, <2>6
<1> HIDE DEF first, marks, all
<1>10. Fits(all, as) BY <1>6, <1>7, <1>8, JoinedFit
<1>11. /\ x \in Backend /\ x.authors = as /\ x.ranks = TRUE /\ x.left = all /\ x.wants = None
       /\ x.held = {} /\ Owed(x) = as
  BY <1>1, <1>3, <1>9 DEF Backend, Owed
<1>12. ASSUME NEW c \in as PROVE ComesTo(x, c)
  <2>1. PICK i \in 1 .. k : order[i] = c BY <1>o
  <2>2. i \in DOMAIN all /\ all[i] = {LockAuthor(c)} BY <1>k, <1>9, <2>1
  <2>3. ASSUME NEW j \in 1 .. i - 1 PROVE \E b \in as : b < c /\ all[j] = {LockAuthor(b)}
    <3>1. j \in 1 .. k /\ j < i BY <1>k, <2>1
    <3>2. order[j] \in as /\ order[j] < c BY <1>o, <2>1, <3>1
    <3>3. QED BY <1>9, <3>1, <3>2
  <2>4. QED BY <1>11, <2>2, <2>3 DEF ComesTo
<1>13. AuthorsFirst(x) BY <1>11, <1>12 DEF AuthorsFirst
<1>14. BackendInv(x) BY <1>10, <1>11, <1>13 DEF BackendInv
<1>15. QED BY <1>14 DEF x

\* The notes of one author.
LEMMA OwnIsFinite ==
    ASSUME NEW a
    PROVE  /\ \A S \in SUBSET OwnRows(a) : /\ IsFiniteSet(S) /\ S \in SUBSET Rows
                                           /\ \A n \in S : RowAuthor[n] \in {a}
           /\ IsFiniteSet(OwnNew(a)) /\ OwnNew(a) \in SUBSET NewRows
           /\ \A n \in OwnNew(a) : RowAuthor[n] \in {a}
BY LockAssumption, FS_Subset DEF OwnRows, OwnNew

\* Every handler starts in the order.
LEMMA PlansKeepTheOrder ==
    /\ \A n \in Rows : BackendInv(PublishNote(n))
    /\ \A n \in NewRows : BackendInv(SaveNote(n))
    /\ \A a \in LockAuthors : \A files \in InAnyOrder(OwnNew(a)) : BackendInv(ImportVault(a, files))
    /\ \A a \in LockAuthors : \A S \in SUBSET OwnRows(a) :
          /\ BackendInv(ManagePublish(a, S)) /\ BackendInv(ManageOther(a, S))
          /\ BackendInv(Mark(a, S)) /\ BackendInv(SweepDrafts(a, S))
          /\ BackendInv(PutSpace(a))
    /\ \A n \in Rows, private \in BOOLEAN : BackendInv(Autosave(n, private))
<1>1. ASSUME NEW n \in Rows PROVE BackendInv(PublishNote(n))
  BY PublishedFits, AuthorsOfRows, RankingInv DEF PublishNote
<1>2. ASSUME NEW n \in NewRows PROVE BackendInv(SaveNote(n))
  BY RewiredFits, AuthorsOfRows, RankingInv DEF SaveNote
<1>3. ASSUME NEW a \in LockAuthors, NEW files \in InAnyOrder(OwnNew(a))
      PROVE  BackendInv(ImportVault(a, files))
  <2>1. OwnNew(a) \in SUBSET (Rows \cup NewRows) BY OwnIsFinite
  <2>2. Fits(EachRewired(files), {a}) BY <2>1, OwnIsFinite, EachFits
  <2>3. QED BY <2>2, RankingInv DEF ImportVault
<1>4. ASSUME NEW a \in LockAuthors, NEW S \in SUBSET OwnRows(a)
      PROVE  /\ BackendInv(ManagePublish(a, S)) /\ BackendInv(ManageOther(a, S))
             /\ BackendInv(Mark(a, S)) /\ BackendInv(SweepDrafts(a, S))
             /\ BackendInv(PutSpace(a))
  <2>1. S \in SUBSET (Rows \cup NewRows) BY OwnIsFinite
  <2>2. Fits(<<{ForUpdate(n) : n \in S}>>, {a}) /\ Fits(<<{Update(n) : n \in S}>>, {a})
    BY <2>1, NoteLocks
  <2>3. Fits(<<{SpaceRow(a)}>>, {a}) BY AuthorFits
  <2> DEFINE L == {LinkRow(e) : e \in {e \in Cites : {e[1], e[2]} \cap S # {}}}
             F == {ForUpdate(n) : n \in S}
  <2>4. <<F, L>> \in Seq(SUBSET Lock)
    <3>1. {e \in Cites : {e[1], e[2]} \cap S # {}} \in SUBSET Cites OBVIOUS
    <3>2. L \in SUBSET Lock BY DEF Lock
    <3>3. F \in SUBSET Lock BY <2>1 DEF Lock
    <3> HIDE DEF F, L
    <3>4. QED BY <3>2, <3>3
  <2>5. BackendInv(ManagePublish(a, S)) BY <2>2, RankingInv DEF ManagePublish
  <2>6. BackendInv(ManageOther(a, S)) /\ BackendInv(Mark(a, S)) /\ BackendInv(PutSpace(a))
    BY <2>2, <2>3, UnrankedInv DEF ManageOther, Mark, PutSpace, Fits
  <2>7. BackendInv(SweepDrafts(a, S)) BY <2>4, UnrankedInv DEF SweepDrafts
  <2>8. QED BY <2>5, <2>6, <2>7
<1>5. ASSUME NEW n \in Rows, NEW private \in BOOLEAN PROVE BackendInv(Autosave(n, private))
  <2> DEFINE F == <<{ForUpdate(n)}>>
             R == IF private THEN Rewired(n) ELSE << >>
             all == F \o R
  <2>1. F \in Seq(SUBSET Lock)
    <3>1. {n} \in SUBSET (Rows \cup NewRows) /\ n \in {n} OBVIOUS
    <3>2. Fits(F, {}) BY <3>1, NoteLocks
    <3>3. QED BY <3>2 DEF Fits
  <2>2. R \in Seq(SUBSET Lock) BY RewiredFits DEF Fits
  <2>3. Autosave(n, private) = Unranked(RowAuthor[n], all) BY DEF Autosave
  <2> HIDE DEF F, R
  <2>4. all \in Seq(SUBSET Lock) BY <2>1, <2>2, ConcatProperties
  <2> HIDE DEF all
  <2>5. QED BY <2>3, <2>4, AuthorsOfRows, UnrankedInv
<1>6. QED BY <1>1, <1>2, <1>3, <1>4, <1>5

\* The space with its children.
LEMMA SpacePlanInv ==
    ASSUME NEW a \in LockAuthors, NEW S \in SUBSET OwnRows(a), NEW T \in SUBSET S,
           NEW children \in Ordered(S), NEW chosen \in InAnyOrder(T)
    PROVE  BackendInv(PublishSpace(a, children, chosen))
<1> DEFINE A == <<{SpaceRow(a)}>>
           B == [i \in DOMAIN children |-> {ForUpdate(children[i])}]
           C == EachPublished(chosen)
           AB == A \o B
           all == AB \o C
<1>0. S \in SUBSET Rows /\ T \in SUBSET Rows /\ T \in SUBSET OwnRows(a) BY OwnIsFinite
<1>1. Fits(A, {a}) BY AuthorFits
<1>2. Fits(C, {a})
  <2>2. IsFiniteSet(T) /\ \A n \in T : RowAuthor[n] \in {a} BY <1>0, OwnIsFinite
  <2>3. T \in SUBSET (Rows \cup NewRows) /\ T \subseteq Rows BY <1>0
  <2>4. QED BY <2>2, <2>3, EachFits
<1>3. Fits(B, {a})
  <2>1. children \in InAnyOrder(S) BY DEF Ordered
  <2>2. IsFiniteSet(S) /\ \A n \in S : RowAuthor[n] \in {a} BY OwnIsFinite
  <2>3. S \in SUBSET (Rows \cup NewRows) BY <1>0
  <2>4. Len(children) \in Nat /\ DOMAIN children = 1 .. Len(children) /\ \A i \in 1 .. Len(children) : children[i] \in S
    BY <2>1, <2>2, <2>3, EachFits
  <2>5. \A i \in 1 .. Len(children) : B[i] = {ForUpdate(children[i])} BY <2>4
  <2>6. B = [i \in 1 .. Len(children) |-> B[i]] BY <2>4
  <2> HIDE DEF B
  <2>7. ASSUME NEW i \in 1 .. Len(children)
        PROVE  \E s : \E j \in Nat : Fits(s, {a}) /\ j \in 1 .. Len(s) /\ B[i] = s[j]
    <3> DEFINE s == <<{ForUpdate(children[i])}>>
    <3>1. Fits(s, {a}) BY <2>3, <2>4, NoteLocks
    <3>2. 1 \in Nat /\ 1 \in 1 .. Len(s) /\ B[i] = s[1] BY <2>5
    <3> HIDE DEF s
    <3>3. QED BY <3>1, <3>2
  <2>8. QED BY <2>4, <2>6, <2>7, ListedFit
<1>4. PublishSpace(a, children, chosen) = Ranking(a, all) BY DEF PublishSpace
<1> HIDE DEF A, B, C
<1>5. Joined(AB, A, B) BY DEF Joined
<1>6. Joined(all, AB, C) BY DEF Joined
<1> HIDE DEF AB, all
<1>7. Fits(AB, {a}) BY <1>1, <1>3, <1>5, JoinedFit
<1>8. Fits(all, {a}) BY <1>2, <1>6, <1>7, JoinedFit
<1>9. QED BY <1>4, <1>8, RankingInv

----------------------------------------------------------------------------
(* A transaction's steps *)

\* The fields of a transaction that gets a lock.
LEMMA GivenFields ==
    ASSUME NEW x \in Backend, NEW i \in DOMAIN x.left, NEW l \in x.left[i]
    PROVE  /\ Given(x, i, l) \in Backend
           /\ Given(x, i, l).authors = x.authors /\ Given(x, i, l).ranks = x.ranks
           /\ Given(x, i, l).wants = None /\ Given(x, i, l).held = x.held \cup {l}
           /\ DOMAIN Given(x, i, l).left = DOMAIN x.left
           /\ Given(x, i, l).left[i] = x.left[i] \ {l}
           /\ \A j \in DOMAIN x.left : j # i => Given(x, i, l).left[j] = x.left[j]
<1> DEFINE steps == [x.left EXCEPT ![i] = @ \ {l}]
           y == Given(x, i, l)
<1>1. x.left \in Seq(SUBSET Lock) BY DEF Backend
<1>2. x.left[i] \in SUBSET Lock BY <1>1, ElementOfSeq
<1>3. steps \in Seq(SUBSET Lock) BY <1>1, <1>2, ExceptSeq
<1>4. DOMAIN steps = DOMAIN x.left /\ steps[i] = x.left[i] \ {l} /\ \A j \in DOMAIN x.left : j # i => steps[j] = x.left[j]
  OBVIOUS
<1>5. x.authors \in SUBSET LockAuthors /\ x.ranks \in BOOLEAN /\ x.held \in SUBSET Lock /\ l \in Lock
  BY <1>2 DEF Backend
<1> HIDE DEF steps
<1>6. y = [x EXCEPT !.held = x.held \cup {l}, !.wants = None, !.left = steps] BY DEF Given, Backend, steps
<1>8. /\ y \in Backend /\ y.authors = x.authors /\ y.ranks = x.ranks /\ y.left = steps
      /\ y.wants = None /\ y.held = x.held \cup {l}
  <2> DEFINE H == x.held \cup {l}
  <2>1. H \in SUBSET Lock /\ None \in Lock \cup {None} BY <1>5
  <2> HIDE DEF H, y
  <2>2. y = [x EXCEPT !.held = H, !.wants = None, !.left = steps] BY <1>6 DEF H
  <2>3. /\ y \in Backend /\ y.authors = x.authors /\ y.ranks = x.ranks /\ y.left = steps
        /\ y.wants = None /\ y.held = H
    BY <1>3, <2>1, <2>2 DEF Backend
  <2>4. QED BY <2>3 DEF H
<1>9. QED BY <1>4, <1>8 DEF y

\* The lock that a transaction in order gets leaves it in order.
LEMMA GivenInv ==
    ASSUME NEW x, BackendInv(x), NEW i \in AtWork(x), NEW l \in x.left[i]
    PROVE  BackendInv(Given(x, i, l))
<1> DEFINE y == Given(x, i, l)
<1>1. x \in Backend /\ i \in DOMAIN x.left /\ \A j \in 1 .. i - 1 : x.left[j] = {}
  BY DEF BackendInv, AtWork
<1>2. /\ y \in Backend /\ y.authors = x.authors /\ y.ranks = x.ranks /\ y.wants = None
      /\ y.held = x.held \cup {l} /\ DOMAIN y.left = DOMAIN x.left
      /\ y.left[i] = x.left[i] \ {l} /\ \A j \in DOMAIN x.left : j # i => y.left[j] = x.left[j]
  BY <1>1, GivenFields
<1> HIDE DEF y
<1>3. \A j \in DOMAIN x.left : y.left[j] \subseteq x.left[j] BY <1>2
<1>4. DOMAIN x.left = 1 .. Len(x.left) /\ Len(x.left) \in Nat BY <1>1 DEF Backend
<1>5. x.authors \subseteq Int BY <1>1, LockAuthorsAreInts DEF Backend
<1>6. ASSUME x.ranks PROVE Fits(y.left, y.authors) /\ AuthorsFirst(y)
  <2>1. Fits(x.left, x.authors) /\ AuthorsFirst(x) BY <1>6 DEF BackendInv
  <2>2. Fits(y.left, y.authors)
    <3>1. y.left \in Seq(SUBSET Lock) BY <1>2 DEF Backend
    <3>2. QED BY <1>2, <1>3, <2>1, <3>1 DEF Fits
  <2>3. Owed(y) \subseteq Owed(x) BY <1>2 DEF Owed
  <2>4. ASSUME Owed(y) # {} PROVE AuthorsFirst(y)
    <3>1. /\ \A k \in x.held : \E b \in x.authors : k = LockAuthor(b)
          /\ \A b \in x.authors \ Owed(x), c \in Owed(x) : b < c
          /\ \A c \in Owed(x) : ComesTo(x, c)
      BY <2>1, <2>3, <2>4 DEF AuthorsFirst
    <3>2. ASSUME NEW c \in Owed(x), NEW j \in DOMAIN x.left, x.left[j] = {LockAuthor(c)},
                 \A k \in 1 .. j - 1 : x.left[k] = {} \/ \E b \in x.authors : b < c /\ x.left[k] = {LockAuthor(b)}
          PROVE  i <= j /\ \E d \in x.authors : d <= c /\ l = LockAuthor(d) /\ (i = j => d = c)
      <4>1. i <= j
        <5>1. SUFFICES ASSUME j < i PROVE FALSE BY <1>1, <1>4
        <5>2. j \in 1 .. i - 1 BY <1>1, <1>4, <5>1
        <5>3. QED BY <1>1, <3>2, <5>2
      <4>2. CASE i = j
        <5>1. c \in x.authors BY DEF Owed
        <5>2. c <= c BY <1>5, <5>1
        <5>3. QED BY <3>2, <4>1, <4>2, <5>1, <5>2
      <4>3. CASE i # j
        <5>1. i \in 1 .. j - 1 BY <1>1, <1>4, <4>1, <4>3
        <5>2. PICK b \in x.authors : b < c /\ x.left[i] = {LockAuthor(b)} BY <3>2, <5>1
        <5>3. c \in x.authors BY DEF Owed
        <5>4. b <= c BY <1>5, <5>2, <5>3
        <5>5. QED BY <4>1, <4>3, <5>2, <5>4
      <4>4. QED BY <4>2, <4>3
    <3>3. PICK d \in x.authors : l = LockAuthor(d) /\ \A c \in Owed(x) : d <= c
      <4>1. PICK c0 \in Owed(x) : TRUE BY <2>3, <2>4
      <4>2. \A c \in Owed(x) : \E e \in x.authors : e <= c /\ l = LockAuthor(e)
        <5>1. TAKE c \in Owed(x)
        <5>2. PICK j \in DOMAIN x.left :
                 /\ x.left[j] = {LockAuthor(c)}
                 /\ \A k \in 1 .. j - 1 : x.left[k] = {} \/ \E b \in x.authors : b < c /\ x.left[k] = {LockAuthor(b)}
          BY <3>1 DEF ComesTo
        <5>3. QED BY <3>2, <5>2
      <4>3. PICK d \in x.authors : d <= c0 /\ l = LockAuthor(d) BY <4>2
      <4>4. \A c \in Owed(x) : d <= c BY <4>2, <4>3, LocksApart
      <4>5. QED BY <4>3, <4>4
    <3>4. Owed(y) = Owed(x) \ {d}
      <4>1. \A b : LockAuthor(b) = l => b = d BY <3>3, LocksApart
      <4>2. QED BY <1>2, <3>3, <4>1 DEF Owed
    <3>5. \A k \in y.held : \E b \in y.authors : k = LockAuthor(b) BY <1>2, <3>1, <3>3
    <3>6. ASSUME NEW b \in y.authors \ Owed(y), NEW c \in Owed(y) PROVE b < c
      <4>1. c \in Owed(x) /\ c # d /\ c \in x.authors BY <3>4 DEF Owed
      <4>2. CASE b = d BY <1>5, <3>3, <4>1, <4>2
      <4>3. CASE b # d BY <1>2, <3>1, <3>4, <3>6, <4>1, <4>3
      <4>4. QED BY <4>2, <4>3
    <3>7. ASSUME NEW c \in Owed(y) PROVE ComesTo(y, c)
      <4>1. c \in Owed(x) /\ c # d BY <3>4
      <4>2. PICK j \in DOMAIN x.left :
               /\ x.left[j] = {LockAuthor(c)}
               /\ \A k \in 1 .. j - 1 : x.left[k] = {} \/ \E b \in x.authors : b < c /\ x.left[k] = {LockAuthor(b)}
        BY <3>1, <4>1 DEF ComesTo
      <4>3. i <= j /\ i # j
        <5>1. i <= j /\ \E e \in x.authors : e <= c /\ l = LockAuthor(e) /\ (i = j => e = c)
          BY <3>2, <4>1, <4>2
        <5>2. QED BY <3>3, <4>1, <5>1, LocksApart
      <4>4. y.left[j] = {LockAuthor(c)} /\ j \in DOMAIN y.left BY <1>2, <4>2, <4>3
      <4>5. ASSUME NEW k \in 1 .. j - 1
            PROVE  y.left[k] = {} \/ \E b \in y.authors : b < c /\ y.left[k] = {LockAuthor(b)}
        <5>1. k \in DOMAIN x.left BY <1>4
        <5>2. CASE k = i
          <6>1. x.left[i] = {l} BY <4>2, <4>5, <5>2
          <6>2. QED BY <1>2, <5>2, <6>1
        <5>3. CASE k # i BY <1>2, <4>2, <4>5, <5>1, <5>3
        <5>4. QED BY <5>2, <5>3
      <4>6. QED BY <4>4, <4>5 DEF ComesTo
    <3>8. QED BY <3>5, <3>6, <3>7 DEF AuthorsFirst
  <2>5. QED BY <2>2, <2>4 DEF AuthorsFirst
<1>7. BackendInv(y) BY <1>2, <1>6 DEF BackendInv
<1>8. QED BY <1>7 DEF y

\* Waiting for a lock changes nothing of the order.
LEMMA WaitingInv ==
    ASSUME NEW x, BackendInv(x), NEW i \in AtWork(x), NEW l \in x.left[i]
    PROVE  BackendInv([x EXCEPT !.wants = l]) /\ [x EXCEPT !.wants = l].held = x.held
<1> DEFINE y == [x EXCEPT !.wants = l]
<1>1. x \in Backend BY DEF BackendInv
<1>2. x.left \in Seq(SUBSET Lock) /\ i \in DOMAIN x.left BY <1>1 DEF Backend, AtWork
<1>3. l \in Lock BY <1>2, ElementOfSeq
<1>4. /\ y \in Backend /\ y.authors = x.authors /\ y.ranks = x.ranks /\ y.left = x.left
      /\ y.held = x.held /\ y.wants = l
  BY <1>1, <1>3 DEF Backend
<1> HIDE DEF y
<1>5. AtWork(y) = AtWork(x) BY <1>4 DEF AtWork
<1>6. Owed(y) = Owed(x) BY <1>4 DEF Owed
<1>7. \A c : ComesTo(x, c) => ComesTo(y, c) BY <1>4 DEF ComesTo
<1>8. x.ranks => Fits(y.left, y.authors) /\ AuthorsFirst(y)
  BY <1>4, <1>6, <1>7 DEF BackendInv, AuthorsFirst
<1>9. BackendInv(y) BY <1>4, <1>5, <1>8 DEF BackendInv
<1>10. QED BY <1>4, <1>9 DEF y

\* A nonempty set of naturals has a least element.
LEMMA LeastNatural ==
    ASSUME NEW S \in SUBSET Nat, S # {}
    PROVE  \E m \in S : \A k \in S : m <= k
<1> DEFINE T == {0 .. n : n \in S}
           O == StrictSubsetOrdering(Nat)
<1>1. T \subseteq FiniteSubsetsOf(Nat)
  <2>1. \A n \in Nat : IsFiniteSet(0 .. n) BY FS_Interval
  <2>2. \A n \in Nat : 0 .. n \in SUBSET Nat OBVIOUS
  <2>3. QED BY <2>1, <2>2 DEF FiniteSubsetsOf
<1>2. T # {} OBVIOUS
<1>3. IsWellFoundedOn(O, FiniteSubsetsOf(Nat)) BY FS_StrictSubsetOrderingWellFounded
<1> HIDE DEF T, O
<1>4. PICK I \in T : \A J \in T : ~ (<<J, I>> \in O) BY <1>1, <1>2, <1>3, WFMin
<1>5. PICK m \in S : I = 0 .. m BY DEF T
<1>6. ASSUME NEW k \in S, k < m PROVE FALSE
  <2>1. 0 .. k \in T BY DEF T
  <2>2. 0 .. k \subseteq I /\ 0 .. k # I
    <3>1. m \in 0 .. m /\ m \notin 0 .. k BY <1>6
    <3>2. QED BY <1>5, <1>6, <3>1
  <2>3. <<0 .. k, I>> \in O BY <1>5, <2>2 DEF O, StrictSubsetOrdering
  <2>4. QED BY <1>4, <2>1, <2>3
<1>7. QED BY <1>6

----------------------------------------------------------------------------
(* All of them together *)

\* Nobody holds what another's lock conflicts with.
LocksExclude ==
    \A t, u \in Transactions : t # u /\ tx[t] # None /\ tx[u] # None =>
        \A l \in tx[t].held, k \in tx[u].held : ~Conflict(l, k)

LockInv ==
    /\ tx = [t \in Transactions |-> tx[t]]
    /\ \A t \in Transactions : tx[t] # None => BackendInv(tx[t])
    /\ LocksExclude

\* A handler that starts holds no lock.
LEMMA StartsHoldNothing ==
    /\ \A as, ranks, steps : Plan(as, ranks, steps).held = {}
    /\ \A n : PublishNote(n).held = {} /\ SaveNote(n).held = {}
    /\ \A a, s : ImportVault(a, s).held = {}
    /\ \A a, s, u : PublishSpace(a, s, u).held = {}
    /\ \A a, S : /\ ManagePublish(a, S).held = {} /\ ManageOther(a, S).held = {}
                 /\ Mark(a, S).held = {} /\ SweepDrafts(a, S).held = {}
    /\ \A a : PutSpace(a).held = {}
    /\ \A n, private : Autosave(n, private).held = {}
    /\ \A S, s : RankLeftovers(S, s).held = {}
<1>1. \A as, ranks, steps : Plan(as, ranks, steps).held = {} BY DEF Plan
<1>2. QED
  BY <1>1 DEF PublishNote, SaveNote, ImportVault, PublishSpace, ManagePublish, ManageOther, Mark,
              SweepDrafts, PutSpace, Autosave, RankLeftovers, Ranking, Unranked

\* A transaction starts.
LEMMA StartInv ==
    ASSUME LockInv, NEW t \in Transactions, NEW plan, BackendInv(plan), plan.held = {}, Start(t, plan)
    PROVE  LockInv'
<1>1. /\ tx' = [tx EXCEPT ![t] = plan] /\ tx = [u \in Transactions |-> tx[u]]
      /\ \A u \in Transactions : tx[u] # None => BackendInv(tx[u])
      /\ LocksExclude
  BY DEF Start, LockInv
<1>2. tx'[t] = plan /\ \A u \in Transactions : u # t => tx'[u] = tx[u] BY <1>1
<1>3. tx' = [u \in Transactions |-> tx'[u]] BY <1>1
<1>4. \A u \in Transactions : tx'[u] # None => BackendInv(tx'[u]) BY <1>1, <1>2
<1>5. LocksExclude' BY <1>1, <1>2 DEF LocksExclude
<1>6. QED BY <1>3, <1>4, <1>5 DEF LockInv

\* Conflicts are mutual.
LEMMA ConflictIsMutual == \A l, k : Conflict(l, k) => Conflict(k, l)
BY DEF Conflict

\* A transaction gets a lock.
LEMMA TakeInv ==
    ASSUME LockInv, NEW t \in Transactions, Take(t)
    PROVE  LockInv'
<1>1. /\ tx = [u \in Transactions |-> tx[u]] /\ LocksExclude
      /\ \A u \in Transactions : tx[u] # None => BackendInv(tx[u])
  BY DEF LockInv
<1>2. PICK i \in AtWork(tx[t]) : \E l \in tx[t].left[i] :
         Holders(t, l) = {} /\ tx' = [tx EXCEPT ![t] = Given(tx[t], i, l)]
  BY <1>1 DEF Take
<1>2g. PICK l \in tx[t].left[i] : Holders(t, l) = {} /\ tx' = [tx EXCEPT ![t] = Given(tx[t], i, l)]
  BY <1>2
<1>3. tx[t] # None /\ BackendInv(tx[t]) BY <1>1 DEF Take
<1>4. tx'[t] = Given(tx[t], i, l) /\ \A u \in Transactions : u # t => tx'[u] = tx[u] BY <1>1, <1>2g
<1>5. BackendInv(Given(tx[t], i, l)) BY <1>3, GivenInv
<1>6. tx' = [u \in Transactions |-> tx'[u]] BY <1>1, <1>2g
<1>7. \A u \in Transactions : tx'[u] # None => BackendInv(tx'[u]) BY <1>1, <1>4, <1>5
<1>8. Given(tx[t], i, l).held = tx[t].held \cup {l}
  <2>1. tx[t] \in Backend /\ i \in DOMAIN tx[t].left BY <1>3 DEF BackendInv, AtWork
  <2>2. QED BY <2>1, GivenFields
<1>9. \A u \in Transactions : u # t /\ tx[u] # None => \A k \in tx[u].held : ~Conflict(l, k)
  BY <1>2g DEF Holders
<1>10. LocksExclude'
  <2>1. SUFFICES ASSUME NEW u \in Transactions, NEW v \in Transactions, u # v, tx'[u] # None, tx'[v] # None,
                        NEW k \in tx'[u].held, NEW m \in tx'[v].held, Conflict(k, m)
                 PROVE  FALSE
    BY DEF LocksExclude
  <2>2. CASE u # t /\ v # t BY <1>1, <1>4, <2>1, <2>2 DEF LocksExclude
  <2>3. CASE u = t
    <3>1. v # t /\ tx[v] # None /\ m \in tx[v].held /\ k \in tx[t].held \cup {l} BY <1>4, <1>8, <2>1, <2>3
    <3>2. QED BY <1>1, <1>3, <1>9, <2>1, <3>1 DEF LocksExclude
  <2>4. CASE v = t
    <3>1. u # t /\ tx[u] # None /\ k \in tx[u].held /\ m \in tx[t].held \cup {l} BY <1>4, <1>8, <2>1, <2>4
    <3>2. Conflict(m, k) BY <2>1, ConflictIsMutual
    <3>3. QED BY <1>1, <1>3, <1>9, <3>1, <3>2 DEF LocksExclude
  <2>5. QED BY <2>2, <2>3, <2>4
<1>11. QED BY <1>6, <1>7, <1>10 DEF LockInv

\* A transaction waits.
LEMMA WaitInv ==
    ASSUME LockInv, NEW t \in Transactions, Wait(t)
    PROVE  LockInv'
<1>1. /\ tx = [u \in Transactions |-> tx[u]] /\ LocksExclude
      /\ \A u \in Transactions : tx[u] # None => BackendInv(tx[u])
  BY DEF LockInv
<1>2w. PICK i \in AtWork(tx[t]) : \E l \in tx[t].left[i] : tx' = [tx EXCEPT ![t] = [tx[t] EXCEPT !.wants = l]]
  BY <1>1 DEF Wait
<1>2. PICK l \in tx[t].left[i] : tx' = [tx EXCEPT ![t] = [tx[t] EXCEPT !.wants = l]] BY <1>2w
<1>3. tx[t] # None /\ BackendInv(tx[t]) BY <1>1 DEF Wait
<1>4. tx'[t] = [tx[t] EXCEPT !.wants = l] /\ \A u \in Transactions : u # t => tx'[u] = tx[u] BY <1>1, <1>2
<1>5. BackendInv(tx'[t]) /\ tx'[t].held = tx[t].held BY <1>3, <1>4, WaitingInv
<1>6. tx' = [u \in Transactions |-> tx'[u]] BY <1>1, <1>2
<1>7. \A u \in Transactions : tx'[u] # None => BackendInv(tx'[u]) BY <1>1, <1>4, <1>5
<1>8. \A u \in Transactions : tx'[u] # None => tx[u] # None /\ tx'[u].held = tx[u].held BY <1>3, <1>4, <1>5
<1>9. LocksExclude' BY <1>1, <1>8 DEF LocksExclude
<1>10. QED BY <1>6, <1>7, <1>9 DEF LockInv

\* A transaction ends.
LEMMA EndInv ==
    ASSUME LockInv, NEW t \in Transactions, End(t)
    PROVE  LockInv'
<1>1. /\ tx = [u \in Transactions |-> tx[u]] /\ LocksExclude
      /\ \A u \in Transactions : tx[u] # None => BackendInv(tx[u])
  BY DEF LockInv
<1>2. tx' = [tx EXCEPT ![t] = None] BY DEF End
<1>3. tx'[t] = None /\ \A u \in Transactions : u # t => tx'[u] = tx[u] BY <1>1, <1>2
<1>4. tx' = [u \in Transactions |-> tx'[u]] BY <1>1, <1>2
<1>5. \A u \in Transactions : tx'[u] # None => BackendInv(tx'[u]) BY <1>1, <1>3
<1>6. LocksExclude' BY <1>1, <1>3 DEF LocksExclude
<1>7. QED BY <1>4, <1>5, <1>6 DEF LockInv

\* The inductive invariant of the transactions at work.
THEOREM LocksInvariant == LockSpec => []LockInv
<1>1. LockInit => LockInv
  <2>1. SUFFICES ASSUME LockInit PROVE LockInv OBVIOUS
  <2>2. tx = [t \in Transactions |-> None] BY <2>1 DEF LockInit
  <2>3. tx = [t \in Transactions |-> tx[t]] BY <2>2
  <2>4. QED BY <2>2, <2>3 DEF LockInv, LocksExclude
<1>2. LockInv /\ [LockNext]_tx => LockInv'
  <2> SUFFICES ASSUME LockInv, [LockNext]_tx PROVE LockInv' OBVIOUS
  <2>0. CASE UNCHANGED tx BY <2>0 DEF LockInv, LocksExclude
  <2>1. CASE LockNext
    <3>0. PICK t \in Transactions :
            \/ \E n \in Rows : Start(t, PublishNote(n))
            \/ \E n \in NewRows : Start(t, SaveNote(n))
            \/ \E a \in LockAuthors : \E files \in InAnyOrder(OwnNew(a)) : Start(t, ImportVault(a, files))
            \/ \E a \in LockAuthors : \E S \in SUBSET OwnRows(a) : \E T \in SUBSET S :
                  \E children \in Ordered(S), chosen \in InAnyOrder(T) :
                      Start(t, PublishSpace(a, children, chosen))
            \/ \E a \in LockAuthors : \E S \in Some(OwnRows(a)) : Start(t, ManagePublish(a, S))
            \/ \E a \in LockAuthors : \E S \in Some(OwnRows(a)) : Start(t, ManageOther(a, S))
            \/ \E n \in Rows, private \in BOOLEAN : Start(t, Autosave(n, private))
            \/ \E a \in LockAuthors : Start(t, PutSpace(a))
            \/ \E a \in LockAuthors : \E S \in Some(OwnRows(a)) : Start(t, Mark(a, S))
            \/ \E a \in LockAuthors : \E S \in Some(OwnRows(a)) : Start(t, SweepDrafts(a, S))
            \/ \E S \in Some(Rows) : \E authors \in Ordered({RowAuthor[n] : n \in S}) :
                  Start(t, RankLeftovers(S, authors))
            \/ Take(t)
            \/ Wait(t)
            \/ End(t)
      BY <2>1 DEF LockNext
    <3>1. CASE \E n \in Rows : Start(t, PublishNote(n))
      BY <3>1, PlansKeepTheOrder, StartsHoldNothing, StartInv
    <3>2. CASE \E n \in NewRows : Start(t, SaveNote(n))
      BY <3>2, PlansKeepTheOrder, StartsHoldNothing, StartInv
    <3>3. CASE \E a \in LockAuthors : \E files \in InAnyOrder(OwnNew(a)) : Start(t, ImportVault(a, files))
      BY <3>3, PlansKeepTheOrder, StartsHoldNothing, StartInv
    <3>4. CASE \E a \in LockAuthors : \E S \in SUBSET OwnRows(a) : \E T \in SUBSET S :
                  \E children \in Ordered(S), chosen \in InAnyOrder(T) :
                      Start(t, PublishSpace(a, children, chosen))
      BY <3>4, SpacePlanInv, StartsHoldNothing, StartInv
    <3>5. CASE \E a \in LockAuthors : \E S \in Some(OwnRows(a)) : Start(t, ManagePublish(a, S))
      BY <3>5, PlansKeepTheOrder, StartsHoldNothing, StartInv DEF Some
    <3>6. CASE \E a \in LockAuthors : \E S \in Some(OwnRows(a)) : Start(t, ManageOther(a, S))
      BY <3>6, PlansKeepTheOrder, StartsHoldNothing, StartInv DEF Some
    <3>7. CASE \E n \in Rows, private \in BOOLEAN : Start(t, Autosave(n, private))
      BY <3>7, PlansKeepTheOrder, StartsHoldNothing, StartInv
    <3>8. CASE \E a \in LockAuthors : Start(t, PutSpace(a))
      <4>1. \A a : {} \in SUBSET OwnRows(a) OBVIOUS
      <4>2. QED BY <3>8, <4>1, PlansKeepTheOrder, StartsHoldNothing, StartInv
    <3>9. CASE \E a \in LockAuthors : \E S \in Some(OwnRows(a)) : Start(t, Mark(a, S))
      BY <3>9, PlansKeepTheOrder, StartsHoldNothing, StartInv DEF Some
    <3>10. CASE \E a \in LockAuthors : \E S \in Some(OwnRows(a)) : Start(t, SweepDrafts(a, S))
      BY <3>10, PlansKeepTheOrder, StartsHoldNothing, StartInv DEF Some
    <3>11. CASE \E S \in Some(Rows) : \E authors \in Ordered({RowAuthor[n] : n \in S}) :
                   Start(t, RankLeftovers(S, authors))
      BY <3>11, LeftoversInv, StartsHoldNothing, StartInv
    <3>12. CASE Take(t) BY <3>12, TakeInv
    <3>13. CASE Wait(t) BY <3>13, WaitInv
    <3>14. CASE End(t) BY <3>14, EndInv
    <3>15. QED BY <3>0, <3>1, <3>2, <3>3, <3>4, <3>5, <3>6, <3>7, <3>8, <3>9, <3>10, <3>11, <3>12, <3>13, <3>14
  <2>2. QED BY <2>0, <2>1
<1>3. QED BY <1>1, <1>2, PTL DEF LockSpec

\* LockTypeOK: every transaction's statements, locks and waits are of those that
\* the handlers take.
THEOREM LockTypeCorrect == LockSpec => []LockTypeOK
<1>1. LockInv => LockTypeOK
  <2>1. SUFFICES ASSUME LockInv, NEW t \in Transactions, tx[t] # None
                 PROVE  /\ tx[t].authors \subseteq LockAuthors /\ tx[t].ranks \in BOOLEAN
                        /\ \A i \in DOMAIN tx[t].left : tx[t].left[i] \subseteq Lock
                        /\ tx[t].held \subseteq Lock /\ tx[t].wants \in Lock \cup {None}
    BY DEF LockTypeOK
  <2>2. tx[t] \in Backend BY <2>1 DEF LockInv, BackendInv
  <2>3. tx[t].left \in Seq(SUBSET Lock) BY <2>2 DEF Backend
  <2>4. \A i \in DOMAIN tx[t].left : tx[t].left[i] \in SUBSET Lock BY <2>3, ElementOfSeq
  <2>5. QED BY <2>2, <2>4 DEF Backend
<1>2. QED BY <1>1, LocksInvariant, PTL

\* A lock that conflicts with an author's is that one.
LEMMA AuthorLockOnly ==
    ASSUME NEW l \in Lock, NEW b, Conflict(l, LockAuthor(b))
    PROVE  l = LockAuthor(b)
<1>1. \A c, s : Exclusive(<<s, c>>).on = <<s, c>> BY DEF Exclusive
<1>2. l.on = <<"author", b>> BY <1>1 DEF Conflict, LockAuthor
<1>3. \A s, c, r, e : <<s, c>> = <<r, e>> => s = r /\ c = e OBVIOUS
<1>4. "author" # "space" /\ "author" # "link" /\ "author" # "note" OBVIOUS
<1>5. \A c : SpaceRow(c).on = <<"space", c>> /\ LinkRow(c).on = <<"link", c>>
  BY DEF SpaceRow, LinkRow, Exclusive
<1>6. \A n : ForUpdate(n).on = <<"note", n>> /\ Update(n).on = <<"note", n>> /\ KeyShare(n).on = <<"note", n>>
  BY DEF ForUpdate, Update, KeyShare, Exclusive
<1>7. (\A c : l # SpaceRow(c) /\ l # LinkRow(c)) /\ \A n : l # ForUpdate(n) /\ l # Update(n) /\ l # KeyShare(n)
  BY <1>2, <1>3, <1>4, <1>5, <1>6
<1>8. PICK c \in LockAuthors : l = LockAuthor(c) BY <1>7 DEF Lock
<1>9. l.on = <<"author", c>> BY <1>1, <1>8 DEF LockAuthor
<1>10. QED BY <1>2, <1>3, <1>8, <1>9

\* An author's lock is exclusive.
LEMMA SameLockConflicts == \A b : Conflict(LockAuthor(b), LockAuthor(b))
BY DEF Conflict, LockAuthor, Exclusive

\* RankingNeverDeadlocks, the lock order of feedrank.LockAuthor, for any number
\* of transactions, authors, notes and links between them.
THEOREM LockOrderPreventsDeadlock == LockSpec => []RankingNeverDeadlocks
<1>1. ASSUME LockInv PROVE RankingNeverDeadlocks
  <2>1. SUFFICES ASSUME NEW a \in LockAuthors, NEW S \in Some({t \in Transactions : RankingFor(t, a)}),
                        \A t \in S : tx[t].wants # None /\ Holders(t, tx[t].wants) \cap S # {}
                 PROVE  FALSE
    BY DEF RankingNeverDeadlocks
  <2>2. S # {} /\ \A t \in S : t \in Transactions /\ tx[t] # None /\ tx[t].ranks /\ a \in tx[t].authors
    <3>1. S \subseteq {t \in Transactions : RankingFor(t, a)} /\ S # {} BY DEF Some
    <3>2. \A t \in S : t \in Transactions /\ RankingFor(t, a) BY <3>1
    <3>3. QED BY <3>1, <3>2 DEF RankingFor
  <2>3. \A t \in S : BackendInv(tx[t]) /\ tx[t] \in Backend /\ tx[t].authors \subseteq LockAuthors
    BY <1>1, <2>2 DEF LockInv, BackendInv, Backend
  \* What one of them waits for, another holds.
  <2>4. ASSUME NEW t \in S
        PROVE  \E u \in S : u # t /\ \E k \in tx[u].held : Conflict(tx[t].wants, k)
    BY <2>1, <2>2 DEF Holders
  \* It is an author's lock, of one before a, because the holder's next locks are.
  <2>5. ASSUME NEW t \in S, NEW u \in S, u # t, NEW k \in tx[u].held, Conflict(tx[t].wants, k),
               a \in Owed(tx[u])
        PROVE  \E b \in tx[t].authors :
                 /\ tx[t].wants = LockAuthor(b) /\ k = LockAuthor(b) /\ b \in Owed(tx[t])
                 /\ b < a /\ b \in tx[u].authors \ Owed(tx[u])
    <3>1. Fits(tx[t].left, tx[t].authors) /\ AuthorsFirst(tx[u]) BY <2>2, <2>3 DEF BackendInv
    <3>2. PICK b \in tx[u].authors : k = LockAuthor(b) BY <2>5, <3>1 DEF AuthorsFirst
    <3>3. tx[t].wants \in Lock BY <2>1, <2>3 DEF Backend
    <3>4. tx[t].wants = LockAuthor(b) BY <2>5, <3>2, <3>3, AuthorLockOnly
    <3>5. PICK i \in AtWork(tx[t]) : tx[t].wants \in tx[t].left[i] BY <2>1, <2>3 DEF BackendInv
    <3>6. i \in DOMAIN tx[t].left BY DEF AtWork
    <3>7. b \in tx[t].authors BY <2>3, <3>1, <3>2, <3>4, <3>5, <3>6 DEF Fits
    <3>8. b \in tx[u].authors \ Owed(tx[u]) BY <2>5, <3>2 DEF Owed
    <3>9. b < a BY <2>5, <3>1, <3>8 DEF AuthorsFirst
    <3>10. LockAuthor(b) \notin tx[t].held
      <4>1. LocksExclude BY <1>1 DEF LockInv
      <4>2. QED BY <2>2, <2>5, <3>2, <4>1, SameLockConflicts DEF LocksExclude
    <3>11. b \in Owed(tx[t]) BY <3>7, <3>10 DEF Owed
    <3>12. QED BY <3>2, <3>4, <3>7, <3>8, <3>9, <3>11
  \* None of them holds a's lock.
  <2>6. ASSUME NEW t \in S, a \notin Owed(tx[t]) PROVE FALSE
    <3>1. LockAuthor(a) \in tx[t].held BY <2>2, <2>6 DEF Owed
    <3>2. PICK u \in S : u # t /\ \E k \in tx[u].held : Conflict(tx[t].wants, k) BY <2>4
    <3>3. PICK k \in tx[u].held : Conflict(tx[t].wants, k) BY <3>2
    <3>4. a \in Owed(tx[u])
      <4>1. LocksExclude BY <1>1 DEF LockInv
      <4>2. LockAuthor(a) \notin tx[u].held BY <2>2, <3>1, <3>2, <4>1, SameLockConflicts DEF LocksExclude
      <4>3. QED BY <2>2, <4>2 DEF Owed
    <3>5. PICK b \in tx[t].authors : b \in Owed(tx[t]) /\ b < a BY <2>5, <3>2, <3>3, <3>4
    <3>6. AuthorsFirst(tx[t]) BY <2>2, <2>3 DEF BackendInv
    <3>7. a < b BY <2>2, <2>6, <3>5, <3>6 DEF AuthorsFirst
    <3>8. a \in Int /\ b \in Int BY <2>3, LockAuthorsAreInts
    <3>9. QED BY <3>5, <3>7, <3>8
  \* So each waits for the lock of an author before a; take the last of these.
  <2> DEFINE waited(n) == \E t \in S : tx[t].wants = LockAuthor(a - n)
             W == {n \in Nat : waited(n)}
  <2>7. ASSUME NEW t \in S
        PROVE  \E b \in tx[t].authors : /\ tx[t].wants = LockAuthor(b) /\ b < a /\ b \in Int
                                        /\ \E u \in S : b \in tx[u].authors \ Owed(tx[u])
    <3>1. PICK u \in S : u # t /\ \E k \in tx[u].held : Conflict(tx[t].wants, k) BY <2>4
    <3>2. PICK b \in tx[t].authors : /\ tx[t].wants = LockAuthor(b) /\ b < a
                                     /\ b \in tx[u].authors \ Owed(tx[u])
      BY <2>5, <2>6, <3>1
    <3>3. b \in Int BY <2>3, LockAuthorsAreInts
    <3>4. QED BY <3>2, <3>3
  <2>8. a \in Int BY LockAuthorsAreInts
  <2>9. ASSUME NEW t \in S, NEW b \in Int, b < a, tx[t].wants = LockAuthor(b)
        PROVE  a - b \in W
    <3>1. a - b \in Nat /\ a - (a - b) = b BY <2>8, <2>9
    <3>2. waited(a - b) BY <2>9, <3>1
    <3>3. QED BY <3>1, <3>2
  <2>10. W # {}
    <3>1. PICK t \in S : TRUE BY <2>2
    <3>2. PICK b \in tx[t].authors : tx[t].wants = LockAuthor(b) /\ b < a /\ b \in Int BY <2>7
    <3>3. QED BY <2>9, <3>2
  <2>11. PICK n \in W : \A k \in W : n <= k BY <2>10, LeastNatural
  <2>12. PICK t \in S : tx[t].wants = LockAuthor(a - n) BY <2>11
  <2>13. n \in Nat BY <2>11
  <2> HIDE DEF W
  <2>14. PICK b \in tx[t].authors : /\ tx[t].wants = LockAuthor(b) /\ b < a /\ b \in Int
                                   /\ \E u \in S : b \in tx[u].authors \ Owed(tx[u])
    BY <2>7
  <2>15. b = a - n BY <2>12, <2>14, LocksApart
  <2>16. PICK u \in S : b \in tx[u].authors \ Owed(tx[u]) BY <2>14
  <2>17. PICK c \in tx[u].authors : tx[u].wants = LockAuthor(c) /\ c < a /\ c \in Int /\ c \in Owed(tx[u])
    <3>1. PICK v \in S : v # u /\ \E k \in tx[v].held : Conflict(tx[u].wants, k) BY <2>4
    <3>2. PICK c \in tx[u].authors : tx[u].wants = LockAuthor(c) /\ c < a /\ c \in Owed(tx[u])
      BY <2>5, <2>6, <3>1
    <3>3. c \in Int BY <2>3, LockAuthorsAreInts
    <3>4. QED BY <3>2, <3>3
  <2>18. b < c
    <3>1. AuthorsFirst(tx[u]) BY <2>2, <2>3 DEF BackendInv
    <3>2. QED BY <2>16, <2>17, <3>1 DEF AuthorsFirst
  <2>19. a - c \in W BY <2>9, <2>17
  <2>20. n <= a - c BY <2>11, <2>19
  <2>21. QED BY <2>8, <2>13, <2>15, <2>17, <2>18, <2>20
<1>2. QED BY <1>1, LocksInvariant, PTL
=============================================================================
