---------------------------- MODULE LoginProofs ----------------------------
(***************************************************************************)
(* Theorems about Login, for every number of workers.  Nobody is logged in *)
(* under a name the configuration does not admit; no callback has more     *)
(* users than there are workers, and lets nobody in early who has not the  *)
(* tries of its other users to thank for it; and allowRetryLogin does what *)
(* config.yaml says for every connection whose callback is its own.        *)
(***************************************************************************)
EXTENDS Login, FiniteSetTheorems, TLAPS

LEMMA InitListed == Init => \A n \in Listed : users[IdOf[n]] = n
<1> SUFFICES ASSUME Init, NEW n \in Listed
             PROVE  users[IdOf[n]] = n
  OBVIOUS
<1> DEFINE m == CHOOSE m \in Listed : IdOf[m] = IdOf[n]
<1>1. m \in Listed /\ IdOf[m] = IdOf[n]
  OBVIOUS
<1>2. m = n
  BY <1>1, LoginAssumption DEF LoginAssumption
<1>3. IdOf[n] \in Ids /\ \E k \in Listed : IdOf[k] = IdOf[n]
  BY DEF Ids
<1> HIDE DEF m
<1>4. users[IdOf[n]] = m
  BY <1>3 DEF Init, m
<1> QED  BY <1>2, <1>4

LEMMA TypeInit == Init => TypeOK
<1> SUFFICES ASSUME Init PROVE TypeOK
  OBVIOUS
<1> USE LoginAssumption DEF LoginAssumption
<1>1. users \in [Ids -> Names \cup {None}]
  <2>1. ASSUME NEW i \in Ids, \E n \in Listed : IdOf[n] = i
        PROVE  (CHOOSE n \in Listed : IdOf[n] = i) \in Names
    BY <2>1
  <2> QED  BY <2>1 DEF Init
<1>2. mapping \in [Names -> Ids \cup {None}]
  BY DEF Init, Ids
<1> QED  BY <1>1, <1>2 DEF Init, TypeOK, PCs, SysPCs, MaxAuthTries

(* A counted try belongs to an attempt that was still allowed, and what an *)
(* authenticating connection calls is a callback.                          *)
CountInv ==
  /\ \A c \in Conns : pc[c] = "count" => failures[c] < MaxAuthTries
  /\ \A c \in Conns : pc[c] \in {"auth", "count", "in"} => callback[c] \in Conns
  /\ \A c \in Conns : pc[c] = "made" => shared \in Conns

Admitted(n) == n \in Names /\ (n \in Listed \/ config.random)

(* Only an admitted name gets an account, and a listed one never another. *)
AccountInv ==
  /\ \A n \in Names : Known(n) => Admitted(n)
  /\ \A c \in Conns : pc[c] = "in" => Admitted(name[c])
  /\ \A s \in Sessions : sys[s] # "none" => pc[s[1]] \in {"in", "left"} /\ Admitted(Name(s))
  /\ \A s \in Sessions : sys[s] = "create" => Name(s) \notin Listed
  /\ \A s \in Sessions : sys[s] = "store" =>
       uid[s] \in FreshIds /\ <<Name(s), uid[s]>> \in given
  /\ \A s \in Sessions : sys[s] \in {"read", "store"} => Known(Name(s))
  /\ PasswdStays

SafeInv == TypeOK /\ CountInv /\ AccountInv

(* A step of the login leaves the accounts alone, and a name only changes  *)
(* as long as there is no session.                                         *)
LEMMA LoginStepAccounts ==
  ASSUME TypeOK, AccountInv, UNCHANGED <<config, accounts>>, NEW c \in Conns,
         \A d \in Conns \ {c} : pc'[d] = pc[d] /\ name'[d] = name[d],
         \/ name' = name /\ (pc'[c] = pc[c] \/ pc'[c] = "left")
         \/ name' = name /\ pc[c] # "in" /\ pc[c] # "left" /\ pc'[c] # "in"
         \/ pc[c] \notin {"in", "left"} /\ pc'[c] = "in" /\ Admitted(name'[c])
  PROVE  AccountInv'
<1> USE DEF TypeOK, Admitted, Known, Name, accounts, Sessions
<1>1. (\A n \in Names : Known(n) => Admitted(n))'
  BY DEF AccountInv
<1>2. (\A d \in Conns : pc[d] = "in" => Admitted(name[d]))'
  BY DEF AccountInv
<1>3. ASSUME NEW s \in Sessions, sys'[s] # "none"
      PROVE  name'[s[1]] = name[s[1]] /\ pc'[s[1]] \in {"in", "left"}
  <2>1. pc[s[1]] \in {"in", "left"} /\ s[1] \in Conns
    BY <1>3 DEF AccountInv
  <2> QED  BY <2>1
<1>4. PasswdStays'
  BY DEF AccountInv, PasswdStays
<1> QED  BY <1>1, <1>2, <1>3, <1>4 DEF AccountInv

LEMMA LoginStepSafe ==
  ASSUME SafeInv, NEW c \in Conns,
         \/ MakeCallback(c) \/ CopyConfig(c) \/ TryNone(c) \/ TryKey(c) \/ CountTry(c)
         \/ Disconnect(c) \/ Leave(c)
         \/ \E n \in Names : RightPassword(c, n) \/ WrongPassword(c, n) \/ UnknownName(c, n)
  PROVE  SafeInv'
<1> USE LoginAssumption DEF LoginAssumption, SafeInv, TypeOK, CountInv, PCs, accounts
<1>0. MaxAuthTries \in Nat \ {0}
  BY DEF MaxAuthTries
<1>1. CASE MakeCallback(c) \/ CopyConfig(c) \/ Disconnect(c) \/ Leave(c)
  <2>1. TypeOK' /\ CountInv'
    BY <1>1 DEF MakeCallback, CopyConfig, Disconnect, Leave
  <2>2. AccountInv'
    BY <1>1, LoginStepAccounts DEF MakeCallback, CopyConfig, Disconnect, Leave
  <2> QED  BY <2>1, <2>2
<1>2. CASE TryNone(c) \/ TryKey(c)
  <2>1. /\ failures' \in [Conns -> 0..MaxAuthTries] /\ pc[c] = "auth"
        /\ UNCHANGED <<config, pc, shared, callback, tries, saw, counted, name, right, accounts>>
    BY <1>0, <1>2 DEF TryNone, TryKey, Asked
  <2>2. plain' \in [Conns -> BOOLEAN]
    BY <1>2 DEF TryNone, TryKey
  <2>3. \A d \in Conns \ {c} : failures'[d] = failures[d]
    BY <1>2 DEF TryNone, TryKey
  <2>4. TypeOK' /\ CountInv'
    BY <2>1, <2>2, <2>3
  <2>5. AccountInv'
    BY <2>1, LoginStepAccounts
  <2> QED  BY <2>4, <2>5
<1>3. ASSUME NEW n \in Names, UnknownName(c, n)
      PROVE  SafeInv'
  <2>1. TypeOK' /\ CountInv'
    BY <1>0, <1>3 DEF UnknownName, Asked
  <2>2. AccountInv'
    BY <1>3, LoginStepAccounts DEF UnknownName
  <2> QED  BY <2>1, <2>2
<1>4. ASSUME NEW n \in Names, NEW ok \in BOOLEAN, Accept(c, n, ok), Asked(c), MayUse(n),
             UNCHANGED <<config, shared, callback, tries, saw, counted, failures, plain, accounts>>
      PROVE  SafeInv'
  <2>1. right' \in [Conns -> BOOLEAN] /\ name' \in [Conns -> Names \cup {None}]
    BY <1>4 DEF Accept
  <2>2. pc' = [pc EXCEPT ![c] = "in"] /\ pc[c] = "auth" /\ name' = [name EXCEPT ![c] = n]
    BY <1>4 DEF Accept, Asked
  <2>3. TypeOK' /\ CountInv'
    BY <1>4, <2>1, <2>2
  <2>4. Admitted(n)
    BY <1>4 DEF MayUse, AccountInv, Admitted
  <2>5. AccountInv'
    BY <1>4, <2>2, <2>4, LoginStepAccounts DEF Admitted
  <2> QED  BY <2>3, <2>5
<1>5. ASSUME NEW n \in Names, RightPassword(c, n)
      PROVE  SafeInv'
  BY <1>4, <1>5 DEF RightPassword, MayUse
<1>6. ASSUME NEW n \in Names, WrongPassword(c, n)
      PROVE  SafeInv'
  <2>1. CASE Retry /\ tries[callback[c]] # 1
    <3>1. /\ pc' = [pc EXCEPT ![c] = "count"] /\ pc[c] = "auth"
          /\ saw' = [saw EXCEPT ![c] = tries[callback[c]]] /\ failures[c] < MaxAuthTries
          /\ UNCHANGED <<config, shared, callback, tries, counted, failures, name, right, plain, accounts>>
      BY <1>6, <2>1 DEF WrongPassword, CountIt, Asked
    <3>2. TypeOK' /\ CountInv'
      BY <3>1
    <3>3. AccountInv'
      BY <3>1, LoginStepAccounts
    <3> QED  BY <3>2, <3>3
  <2>2. CASE ~(Retry /\ tries[callback[c]] # 1)
    <3>1. /\ Accept(c, n, FALSE) /\ Asked(c) /\ MayUse(n)
          /\ UNCHANGED <<config, shared, callback, tries, saw, counted, failures, plain, accounts>>
      BY <1>6, <2>2 DEF WrongPassword
    <3> QED  BY <1>4, <3>1
  <2> QED  BY <2>1, <2>2
<1>7. CASE CountTry(c)
  <2>1. callback[c] \in Conns /\ saw[c] \in Int /\ tries[callback[c]] \in Int
    BY <1>7 DEF CountTry
  <2>2. tries' \in [Conns -> Int]
    BY <1>7, <2>1 DEF CountTry
  <2>3. failures' \in [Conns -> 0..MaxAuthTries] /\ counted' \in [Conns -> Nat]
    BY <1>0, <1>7, <2>1 DEF CountTry
  <2>4. TypeOK' /\ CountInv'
    BY <1>7, <2>2, <2>3 DEF CountTry
  <2>5. AccountInv'
    BY <1>7, LoginStepAccounts DEF CountTry
  <2> QED  BY <2>4, <2>5
<1> QED  BY <1>1, <1>2, <1>3, <1>5, <1>6, <1>7

LEMMA NewSystemSafe ==
  ASSUME SafeInv, NEW s \in Sessions, NewSystem(s)
  PROVE  SafeInv'
<1> USE LoginAssumption DEF LoginAssumption, SafeInv, TypeOK, SysPCs, Sessions, Known, Name,
                            Admitted, login
<1>0. UNCHANGED <<login, pc>>
  BY DEF NewSystem, LookUp, FoundAfterAll, StoreUser, ReadId, NameUser
<1>1. CountInv'
  BY <1>0 DEF CountInv, MaxAuthTries
<1>2. CASE LookUp(s) \/ FoundAfterAll(s)
  <2>1. /\ UNCHANGED <<mapping, users, uid, given>>
        /\ \E p \in {"create", "read"} : sys' = [sys EXCEPT ![s] = p]
        /\ sys'[s] = "read" => Known(Name(s))
        /\ sys'[s] = "create" => ~Known(Name(s))
        /\ pc[s[1]] = "in" \/ sys[s] # "none"
    BY <1>2 DEF LookUp, FoundAfterAll
  <2>2. TypeOK'
    BY <1>0, <2>1
  <2>3. pc[s[1]] \in {"in", "left"} /\ Admitted(Name(s)) /\ s[1] \in Conns
    BY <2>1 DEF AccountInv
  <2>4. sys'[s] = "create" => Name(s) \notin Listed
    BY <2>1 DEF AccountInv, PasswdStays
  <2>5. PasswdStays'
    BY <2>1 DEF AccountInv, PasswdStays
  <2>6. AccountInv'
    BY <1>0, <2>1, <2>3, <2>4, <2>5 DEF AccountInv
  <2> QED  BY <1>1, <2>2, <2>6
<1>3. ASSUME NEW i \in FreshIds, NameUser(s, i)
      PROVE  SafeInv'
  <2>1. /\ mapping' = [mapping EXCEPT ![Name(s)] = i] /\ sys' = [sys EXCEPT ![s] = "store"]
        /\ uid' = [uid EXCEPT ![s] = i] /\ given' = given \cup {<<Name(s), i>>}
        /\ sys[s] = "create" /\ users' = users
    BY <1>3 DEF NameUser
  <2>2. i \in Ids /\ Name(s) \in Names \ Listed /\ s[1] \in Conns
    BY <2>1 DEF Ids, AccountInv
  <2>3. /\ mapping' \in [Names -> Ids \cup {None}] /\ uid' \in [Sessions -> Ids \cup {None}]
        /\ sys' \in [Sessions -> SysPCs] /\ given' \subseteq Names \X FreshIds
    BY <2>1, <2>2
  <2>4. TypeOK'
    BY <1>0, <2>1, <2>3
  <2>5. PasswdStays'
    BY <2>1, <2>2 DEF AccountInv, PasswdStays
  <2>6. \A n \in Names : Known(n)' => Known(n) \/ n = Name(s)
    BY <2>1
  <2>7. \A n \in Names : Known(n) => Known(n)'
    BY <2>1, <2>2
  <2>8. ASSUME NEW t \in Sessions, t # s
        PROVE  sys'[t] = sys[t] /\ uid'[t] = uid[t]
    BY <2>1, <2>8
  <2>9. sys'[s] = "store" /\ uid'[s] = i /\ <<Name(s), i>> \in given'
    BY <2>1
  <2>10. AccountInv'
    BY <1>0, <2>1, <2>2, <2>5, <2>6, <2>7, <2>8, <2>9 DEF AccountInv
  <2> QED  BY <1>1, <2>4, <2>10
<1>4. CASE StoreUser(s)
  <2>1. /\ users' = [users EXCEPT ![uid[s]] = Name(s)] /\ sys' = [sys EXCEPT ![s] = "read"]
        /\ sys[s] = "store" /\ UNCHANGED <<mapping, uid, given>>
    BY <1>4 DEF StoreUser
  <2>2. uid[s] \in FreshIds /\ Name(s) \in Names
    BY <2>1 DEF AccountInv
  <2>3. Known(Name(s))
    BY <2>1 DEF AccountInv
  <2>4. TypeOK'
    BY <1>0, <2>1, <2>2 DEF Ids
  <2>5. PasswdStays'
    BY <2>1, <2>2 DEF AccountInv, PasswdStays
  <2>6. AccountInv'
    BY <1>0, <2>1, <2>2, <2>3, <2>5 DEF AccountInv
  <2> QED  BY <1>1, <2>4, <2>6
<1>5. CASE ReadId(s)
  <2>1. /\ uid' = [uid EXCEPT ![s] = mapping[Name(s)]] /\ sys' = [sys EXCEPT ![s] = "ready"]
        /\ sys[s] = "read" /\ UNCHANGED <<mapping, users, given>>
    BY <1>5 DEF ReadId
  <2>2. mapping[Name(s)] \in Ids \cup {None}
    BY <2>1 DEF AccountInv
  <2>3. TypeOK'
    BY <1>0, <2>1, <2>2
  <2>4. PasswdStays'
    BY <2>1 DEF AccountInv, PasswdStays
  <2>5. AccountInv'
    BY <1>0, <2>1, <2>4 DEF AccountInv
  <2> QED  BY <1>1, <2>3, <2>5
<1> QED  BY <1>2, <1>3, <1>4, <1>5 DEF NewSystem

LEMMA SafeStep ==
  ASSUME SafeInv, [Next]_vars
  PROVE  SafeInv'
<1> USE DEF SafeInv, TypeOK, CountInv, AccountInv, PasswdStays, Admitted, Known, Name, login,
            accounts, vars, MaxAuthTries
<1>1. CASE UNCHANGED vars
  BY <1>1
<1>2. ASSUME NEW s \in Sessions, MapRace(s)
      PROVE  SafeInv'
  BY <1>2 DEF MapRace, PCs, SysPCs
<1>3. ASSUME NEW c \in Conns, NEW k \in Chans
      PROVE  <<c, k>> \in Sessions
  BY DEF Sessions
<1> QED  BY <1>1, <1>2, <1>3, LoginStepSafe, NewSystemSafe DEF Next

LEMMA SafeInit == Init => SafeInv
<1> SUFFICES ASSUME Init PROVE SafeInv
  OBVIOUS
<1>1. PasswdStays
  BY InitListed, LoginAssumption DEF Init, PasswdStays, LoginAssumption
<1>2. CountInv
  BY DEF Init, CountInv
<1>3. AccountInv
  BY <1>1, LoginAssumption DEF Init, AccountInv, LoginAssumption, Admitted, Known
<1> QED  BY TypeInit, <1>2, <1>3 DEF SafeInv

LEMMA SafeHolds == Spec => []SafeInv
BY SafeInit, SafeStep, PTL DEF Spec

(* A session's NewSystem touches nothing that a login uses.                *)
LEMMA SystemsApart ==
  ASSUME NEW s \in Sessions, NewSystem(s)
  PROVE  UNCHANGED <<login, pc>>
BY DEF NewSystem, LookUp, FoundAfterAll, StoreUser, ReadId, NameUser

(* The types hold; in particular no connection ever counts more failures   *)
(* than server.maxTries (six, when that is zero).                          *)
THEOREM LoginTypeCorrect == Spec => []TypeOK
<1>1. SafeInv => TypeOK
  BY DEF SafeInv
<1> QED  BY <1>1, SafeHolds, PTL

(* Who is logged in may be, with any number of workers and shared tries.   *)
THEOREM LoginAdmits == Spec => []OnlyAdmitted
<1>1. SafeInv => OnlyAdmitted
  BY DEF SafeInv, AccountInv, Admitted, OnlyAdmitted
<1> QED  BY <1>1, SafeHolds, PTL

-----------------------------------------------------------------------------
(* Shared callbacks.                                                       *)

(* What a step does to the callbacks: only CopyConfig hands one out and    *)
(* only CountTry uses one up.                                              *)
LEMMA CallbackSteps ==
  ASSUME SafeInv, [Next]_vars
  PROVE  \/ \E c \in Conns : CountTry(c)
         \/ \E c \in Conns : CopyConfig(c)
         \/ UNCHANGED <<callback, tries, counted>>
<1>1. ASSUME NEW c \in Conns, NEW k \in Chans, NewSystem(<<c, k>>) \/ MapRace(<<c, k>>)
      PROVE  UNCHANGED <<callback, tries, counted>>
  BY <1>1, SystemsApart DEF Sessions, login, MapRace
<1> QED
  BY <1>1
  DEF Next, vars, login, MakeCallback, TryNone, TryKey, Disconnect, Leave,
      RightPassword, WrongPassword, UnknownName

(* A callback that nobody has made yet is used by nobody, and a connection *)
(* that has not copied the configuration has none.                         *)
UserInv ==
  /\ config.workers \in Nat \ {0}
  /\ \A c \in Conns : pc[c] = "new" => Users(c) = {} /\ shared # c
  /\ \A c \in Conns : pc[c] \in {"new", "made"} => callback[c] = None /\ failures[c] = 0

LEMMA UserStep ==
  ASSUME SafeInv, UserInv, [Next]_vars
  PROVE  UserInv'
<1> USE LoginAssumption DEF LoginAssumption, SafeInv, TypeOK, PCs, Users
<1>1. ASSUME NEW c \in Conns, MakeCallback(c)
      PROVE  UserInv'
  BY <1>1 DEF MakeCallback, UserInv
<1>2. ASSUME NEW c \in Conns, CopyConfig(c)
      PROVE  UserInv'
  BY <1>2 DEF CopyConfig, UserInv
<1>3. ASSUME UNCHANGED <<config, shared, callback>>,
             \A c \in Conns : pc'[c] \in {"new", "made"} => pc'[c] = pc[c],
             \A c \in Conns : failures'[c] # failures[c] => pc[c] \in {"auth", "count"}
      PROVE  UserInv'
  BY <1>3 DEF UserInv
<1>4. ASSUME NEW c \in Conns, CountTry(c) \/ Disconnect(c) \/ Leave(c) \/ TryNone(c) \/ TryKey(c)
      PROVE  UserInv'
  BY <1>3, <1>4 DEF CountTry, Disconnect, Leave, TryNone, TryKey, Asked
<1>5. ASSUME NEW c \in Conns, NEW n \in Names,
             RightPassword(c, n) \/ WrongPassword(c, n) \/ UnknownName(c, n)
      PROVE  UserInv'
  BY <1>3, <1>5 DEF RightPassword, WrongPassword, UnknownName, Accept, CountIt, Asked
<1>6. ASSUME NEW c \in Conns, NEW k \in Chans, NewSystem(<<c, k>>) \/ MapRace(<<c, k>>)
      PROVE  UserInv'
  <2>1. CASE NewSystem(<<c, k>>)
    BY <1>3, <2>1, SystemsApart DEF Sessions, login
  <2>2. CASE MapRace(<<c, k>>)
    BY <1>3, <2>2 DEF MapRace, login
  <2> QED  BY <1>6, <2>1, <2>2
<1>7. CASE UNCHANGED vars
  BY <1>3, <1>7 DEF vars, login
<1> QED  BY <1>1, <1>2, <1>4, <1>5, <1>6, <1>7 DEF Next

(* Who uses callback b or, while it is the one in the configuration, may   *)
(* still come to use it.                                                   *)
Made == {c \in Conns : pc[c] = "made"}

Sharers(b) == Users(b) \cup (IF b = shared THEN Made ELSE {})

SharerInv == \A b \in Conns : Cardinality(Sharers(b)) <= config.workers

LEMMA FewerSharers ==
  ASSUME NEW S, NEW T, IsFiniteSet(T), S \subseteq T, NEW n \in Nat, Cardinality(T) <= n
  PROVE  Cardinality(S) <= n
<1>1. IsFiniteSet(S) /\ Cardinality(S) <= Cardinality(T)
  BY FS_Subset
<1>2. Cardinality(S) \in Nat /\ Cardinality(T) \in Nat
  BY <1>1, FS_CardinalityType
<1> QED  BY <1>1, <1>2

LEMMA SharersFinite == \A b \in Conns : IsFiniteSet(Sharers(b)) /\ IsFiniteSet(Users(b))
<1>1. \A b \in Conns : Sharers(b) \subseteq Conns /\ Users(b) \subseteq Conns
  BY DEF Sharers, Users, Made
<1> QED  BY <1>1, LoginAssumption, FS_Subset DEF LoginAssumption

LEMMA SharerStep ==
  ASSUME SafeInv, UserInv, SharerInv, [Next]_vars
  PROVE  SharerInv'
<1> USE LoginAssumption DEF LoginAssumption, SafeInv, TypeOK, PCs, Users, Made, Sharers
<1>0. config.workers \in Nat
  BY DEF UserInv
<1>1. ASSUME config' = config, \A b \in Conns : Sharers(b)' \subseteq Sharers(b)
      PROVE  SharerInv'
  <2> HIDE DEF Sharers, Users, Made
  <2> SUFFICES ASSUME NEW b \in Conns
               PROVE  Cardinality(Sharers(b)') <= config.workers
    BY <1>1 DEF SharerInv
  <2>1. Cardinality(Sharers(b)) <= config.workers /\ IsFiniteSet(Sharers(b))
    BY SharersFinite DEF SharerInv
  <2> QED  BY <1>0, <1>1, <2>1, FewerSharers
<1>2. ASSUME NEW c \in Conns, MakeCallback(c)
      PROVE  SharerInv'
  <2>1. /\ pc[c] = "new" /\ pc' = [pc EXCEPT ![c] = "made"] /\ shared' = c
        /\ config' = config /\ callback' = callback /\ Cardinality(Served) < config.workers
    BY <1>2 DEF MakeCallback
  <2>2. ASSUME NEW b \in Conns, b # c
        PROVE  Cardinality(Sharers(b)') <= config.workers
    <3>1. Sharers(b)' \subseteq Sharers(b)
      BY <2>1, <2>2
    <3> HIDE DEF Sharers, Users, Made
    <3>2. Cardinality(Sharers(b)) <= config.workers /\ IsFiniteSet(Sharers(b))
      BY SharersFinite DEF SharerInv
    <3> QED  BY <1>0, <3>1, <3>2, FewerSharers
  <2>3. Cardinality(Sharers(c)') <= config.workers
    <3>1. Sharers(c)' \subseteq Served \cup {c}
      BY <2>1 DEF UserInv, Served
    <3>2. IsFiniteSet(Served) /\ c \notin Served
      <4>1. Served \subseteq Conns /\ c \notin Served
        BY <2>1 DEF Served
      <4> QED  BY <4>1, FS_Subset
    <3>3. IsFiniteSet(Served \cup {c}) /\ Cardinality(Served \cup {c}) = Cardinality(Served) + 1
      BY <3>2, FS_AddElement
    <3>4. Cardinality(Served) \in Nat
      BY <3>2, FS_CardinalityType
    <3>5. Cardinality(Served \cup {c}) <= config.workers
      BY <1>0, <2>1, <3>3, <3>4
    <3> HIDE DEF Sharers
    <3> QED  BY <1>0, <3>1, <3>3, <3>5, FewerSharers
  <2> QED  BY <2>1, <2>2, <2>3 DEF SharerInv
<1>3. ASSUME NEW c \in Conns, CopyConfig(c)
      PROVE  SharerInv'
  <2>1. ASSUME NEW b \in Conns
        PROVE  Sharers(b)' \subseteq Sharers(b)
    BY <1>3 DEF CopyConfig
  <2> QED  BY <1>1, <1>3, <2>1 DEF CopyConfig
<1>4. ASSUME UNCHANGED <<config, shared, callback>>,
             \A c \in Conns : pc'[c] = "made" => pc[c] = "made"
      PROVE  SharerInv'
  BY <1>1, <1>4
<1>5. ASSUME NEW c \in Conns, CountTry(c) \/ Disconnect(c) \/ Leave(c) \/ TryNone(c) \/ TryKey(c)
      PROVE  SharerInv'
  BY <1>4, <1>5 DEF CountTry, Disconnect, Leave, TryNone, TryKey
<1>6. ASSUME NEW c \in Conns, NEW n \in Names,
             RightPassword(c, n) \/ WrongPassword(c, n) \/ UnknownName(c, n)
      PROVE  SharerInv'
  BY <1>4, <1>6 DEF RightPassword, WrongPassword, UnknownName, Accept, CountIt
<1>7. ASSUME NEW c \in Conns, NEW k \in Chans, NewSystem(<<c, k>>) \/ MapRace(<<c, k>>)
      PROVE  SharerInv'
  <2>1. CASE NewSystem(<<c, k>>)
    BY <1>4, <2>1, SystemsApart DEF Sessions, login
  <2>2. CASE MapRace(<<c, k>>)
    BY <1>4, <2>2 DEF MapRace, login
  <2> QED  BY <1>7, <2>1, <2>2
<1>8. CASE UNCHANGED vars
  BY <1>4, <1>8 DEF vars, login
<1> QED  BY <1>2, <1>3, <1>5, <1>6, <1>7, <1>8 DEF Next

(* A count is never lower than the passwords it has turned down allow,     *)
(* although decrements get lost, and so is one that was read before.       *)
LowInv ==
  /\ \A b \in Conns : tries[b] >= MaxTries - counted[b]
  /\ \A c \in Conns : pc[c] = "count" => saw[c] >= MaxTries - counted[callback[c]]
  /\ \A c \in Conns :
       Retry /\ pc[c] = "in" /\ ~right[c] => counted[callback[c]] >= MaxTries - 1

LEMMA LowStep ==
  ASSUME SafeInv, LowInv, [Next]_vars
  PROVE  LowInv'
<1> USE LoginAssumption DEF LoginAssumption, SafeInv, TypeOK, PCs, Retry
<1>1. ASSUME NEW c \in Conns, CountTry(c)
      PROVE  LowInv'
  <2> DEFINE b == callback[c]
  <2>1. /\ b \in Conns /\ pc[c] = "count" /\ saw[c] \in Int /\ tries[b] \in Int
        /\ counted[b] \in Nat
    BY <1>1 DEF CountTry, CountInv
  <2>2. PICK v \in {saw[c], tries[b]} : tries' = [tries EXCEPT ![b] = v - 1]
    BY <1>1 DEF CountTry
  <2>3. v >= MaxTries - counted[b] /\ v \in Int
    BY <2>1, <2>2 DEF LowInv
  <2>4. /\ counted' = [counted EXCEPT ![b] = counted[b] + 1] /\ pc' = [pc EXCEPT ![c] = "auth"]
        /\ UNCHANGED <<config, callback, saw, right>>
    BY <1>1 DEF CountTry
  <2> HIDE DEF b
  <2>5. \A d \in Conns : /\ counted'[d] >= counted[d] /\ counted'[d] \in Nat
                         /\ tries'[d] >= MaxTries - counted'[d]
    BY <2>1, <2>2, <2>3, <2>4 DEF LowInv
  <2>6. ASSUME NEW d \in Conns, pc'[d] = "count"
        PROVE  saw'[d] >= MaxTries - counted'[callback'[d]]
    <3>1. pc[d] = "count" /\ callback[d] \in Conns /\ saw[d] \in Int
      BY <2>4, <2>6 DEF CountInv
    <3>2. saw[d] >= MaxTries - counted[callback[d]]
      BY <3>1 DEF LowInv
    <3> QED  BY <2>4, <2>5, <3>1, <3>2
  <2>7. ASSUME NEW d \in Conns, Retry, pc'[d] = "in", ~right[d]
        PROVE  counted'[callback'[d]] >= MaxTries - 1
    <3>1. pc[d] = "in" /\ callback[d] \in Conns
      BY <2>4, <2>7 DEF CountInv
    <3>2. counted[callback[d]] >= MaxTries - 1
      BY <2>7, <3>1 DEF LowInv
    <3> QED  BY <2>4, <2>5, <3>1, <3>2
  <2> QED  BY <2>4, <2>5, <2>6, <2>7 DEF LowInv
<1>2. ASSUME NEW c \in Conns, CopyConfig(c)
      PROVE  LowInv'
  BY <1>2 DEF CopyConfig, LowInv
<1>3. ASSUME UNCHANGED <<config, callback, tries, counted, saw, right>>,
             \A c \in Conns : pc'[c] \in {"count", "in"} => pc'[c] = pc[c]
      PROVE  LowInv'
  BY <1>3 DEF LowInv
<1>4. ASSUME NEW c \in Conns,
             MakeCallback(c) \/ Disconnect(c) \/ Leave(c) \/ TryNone(c) \/ TryKey(c)
      PROVE  LowInv'
  BY <1>3, <1>4 DEF MakeCallback, Disconnect, Leave, TryNone, TryKey
<1>5. ASSUME NEW c \in Conns, NEW n \in Names, UnknownName(c, n)
      PROVE  LowInv'
  BY <1>3, <1>5 DEF UnknownName
<1>6. ASSUME NEW c \in Conns, NEW n \in Names, RightPassword(c, n)
      PROVE  LowInv'
  BY <1>6 DEF RightPassword, Accept, LowInv
<1>7. ASSUME NEW c \in Conns, NEW n \in Names, WrongPassword(c, n)
      PROVE  LowInv'
  <2>1. /\ callback[c] \in Conns /\ UNCHANGED <<config, callback, tries, counted>>
        /\ pc[c] = "auth" /\ tries[callback[c]] >= MaxTries - counted[callback[c]]
        /\ tries[callback[c]] \in Int /\ counted[callback[c]] \in Nat
    BY <1>7 DEF WrongPassword, Asked, CountInv, LowInv
  <2>2. CASE Retry /\ tries[callback[c]] # 1
    BY <1>7, <2>1, <2>2 DEF WrongPassword, CountIt, LowInv
  <2>3. CASE ~Retry
    BY <1>7, <2>1, <2>3 DEF WrongPassword, Accept, LowInv
  <2>4. CASE tries[callback[c]] = 1
    BY <1>7, <2>1, <2>4 DEF WrongPassword, Accept, LowInv
  <2> QED  BY <2>2, <2>3, <2>4
<1>8. ASSUME NEW c \in Conns, NEW k \in Chans, NewSystem(<<c, k>>) \/ MapRace(<<c, k>>)
      PROVE  LowInv'
  <2>1. CASE NewSystem(<<c, k>>)
    BY <1>3, <2>1, SystemsApart DEF Sessions, login
  <2>2. CASE MapRace(<<c, k>>)
    BY <1>3, <2>2 DEF MapRace, login
  <2> QED  BY <1>8, <2>1, <2>2
<1>9. CASE UNCHANGED vars
  BY <1>3, <1>9 DEF vars, login
<1> QED  BY <1>1, <1>2, <1>4, <1>5, <1>6, <1>7, <1>8, <1>9 DEF Next

(* A callback nobody has used is fresh, and the tries of one that only one *)
(* connection has used are that connection's.                              *)
FreshInv == \A b \in Conns : Users(b) = {} => counted[b] = 0 /\ tries[b] = MaxTries

OwnTries(c, b) ==
  /\ tries[b] = MaxTries - counted[b]
  /\ counted[b] <= failures[c]
  /\ plain[c] => counted[b] = failures[c]
  /\ pc[c] = "count" => saw[c] = tries[b] /\ tries[b] # 1
  /\ MaxTries > 0 => tries[b] > 0
  /\ pc[c] = "refused" => failures[c] >= MaxTries

OwnInv == \A c, b \in Conns : Users(b) = {c} => OwnTries(c, b)

LEMMA FreshStep ==
  ASSUME SafeInv, UserInv, FreshInv, [Next]_vars
  PROVE  FreshInv'
<1> USE DEF SafeInv, TypeOK, Users
<1>1. ASSUME NEW c \in Conns, CountTry(c)
      PROVE  FreshInv'
  <2>1. callback[c] \in Conns /\ c \in Users(callback[c])
    BY <1>1 DEF CountTry, CountInv
  <2> QED  BY <1>1, <2>1 DEF CountTry, FreshInv
<1>2. ASSUME NEW c \in Conns, CopyConfig(c)
      PROVE  FreshInv'
  BY <1>2, LoginAssumption DEF LoginAssumption, CopyConfig, FreshInv, UserInv
<1>3. CASE UNCHANGED <<callback, tries, counted>>
  BY <1>3 DEF FreshInv
<1> QED  BY <1>1, <1>2, <1>3, CallbackSteps

LEMMA OwnStep ==
  ASSUME SafeInv, UserInv, FreshInv, OwnInv, [Next]_vars
  PROVE  OwnInv'
<1> USE LoginAssumption DEF LoginAssumption, SafeInv, TypeOK, PCs
<1>1. ASSUME UNCHANGED <<callback, tries, counted>>,
             \A d, b \in Conns : Users(b) = {d} /\ OwnTries(d, b) => OwnTries(d, b)'
      PROVE  OwnInv'
  BY <1>1 DEF OwnInv, Users
<1>2. ASSUME UNCHANGED <<callback, tries, counted, saw, failures, plain>>,
             \A d \in Conns : pc'[d] \in {"count", "refused"} => pc'[d] = pc[d]
      PROVE  OwnInv'
  BY <1>1, <1>2 DEF OwnTries
<1>3. ASSUME NEW c \in Conns, CountTry(c)
      PROVE  OwnInv'
  <2> SUFFICES ASSUME NEW d \in Conns, NEW b \in Conns, Users(b) = {d}
               PROVE  OwnTries(d, b)'
    BY <1>3 DEF CountTry, OwnInv, Users
  <2>1. /\ OwnTries(d, b) /\ callback[d] = b
        /\ callback[c] \in Conns /\ pc[c] = "count"
        /\ failures[d] \in Nat /\ counted[b] \in Nat /\ tries[b] \in Int
    BY <1>3 DEF CountTry, OwnInv, Users, CountInv
  <2>2. CASE c = d
    <3>1. saw[d] = tries[b] /\ tries[b] # 1
      BY <2>1, <2>2 DEF OwnTries
    <3>2. /\ tries'[b] = tries[b] - 1 /\ counted'[b] = counted[b] + 1
          /\ failures'[d] = failures[d] + 1 /\ plain'[d] = plain[d] /\ pc'[d] = "auth"
      BY <1>3, <2>1, <2>2, <3>1 DEF CountTry
    <3> QED  BY <2>1, <3>1, <3>2 DEF OwnTries
  <2>3. CASE c # d
    <3>1. callback[c] # b
      BY <2>3 DEF Users
    <3>2. /\ tries'[b] = tries[b] /\ counted'[b] = counted[b]
          /\ failures'[d] = failures[d] /\ plain'[d] = plain[d] /\ pc'[d] = pc[d]
          /\ saw'[d] = saw[d]
      BY <1>3, <2>3, <3>1 DEF CountTry
    <3> QED  BY <2>1, <3>2 DEF OwnTries
  <2> QED  BY <2>2, <2>3
<1>4. ASSUME NEW c \in Conns, CopyConfig(c)
      PROVE  OwnInv'
  <2> SUFFICES ASSUME NEW d \in Conns, NEW b \in Conns, Users(b)' = {d}
               PROVE  OwnTries(d, b)'
    BY DEF OwnInv
  <2>1. /\ callback' = [callback EXCEPT ![c] = shared] /\ pc' = [pc EXCEPT ![c] = "auth"]
        /\ callback[c] = None /\ failures[c] = 0
        /\ UNCHANGED <<tries, counted, saw, failures, plain>>
    BY <1>4 DEF CopyConfig, UserInv
  <2>2. CASE c = d
    <3>1. Users(b) = {}
      BY <2>1, <2>2 DEF Users
    <3>2. counted[b] = 0 /\ tries[b] = MaxTries
      BY <3>1 DEF FreshInv
    <3> QED  BY <2>1, <2>2, <3>2 DEF OwnTries
  <2>3. CASE c # d
    <3>1. Users(b) = {d}
      BY <2>1, <2>3 DEF Users
    <3>2. OwnTries(d, b)
      BY <3>1 DEF OwnInv
    <3>3. pc'[d] = pc[d]
      BY <2>1, <2>3
    <3> QED  BY <2>1, <3>2, <3>3 DEF OwnTries
  <2> QED  BY <2>2, <2>3
<1>5. ASSUME NEW c \in Conns, TryNone(c) \/ TryKey(c)
      PROVE  OwnInv'
  <2>1. /\ UNCHANGED <<callback, tries, counted, saw, pc>> /\ pc[c] = "auth"
        /\ \/ UNCHANGED failures /\ (plain'[c] => plain[c])
           \/ failures' = [failures EXCEPT ![c] = @ + 1] /\ ~plain'[c]
        /\ \A d \in Conns \ {c} : plain'[d] = plain[d]
    <3>1. CASE TryNone(c) /\ failures[c] = 0
      BY <3>1 DEF TryNone, Asked
    <3>2. CASE TryNone(c) /\ failures[c] # 0
      BY <3>2 DEF TryNone, Asked
    <3>3. CASE TryKey(c)
      BY <3>3 DEF TryKey, Asked
    <3> QED  BY <1>5, <3>1, <3>2, <3>3
  <2>2. \A d \in Conns : /\ failures'[d] >= failures[d] /\ failures[d] \in Nat /\ failures'[d] \in Nat
                         /\ plain'[d] => plain[d] /\ failures'[d] = failures[d]
    BY <2>1
  <2> QED  BY <1>1, <2>1, <2>2 DEF OwnTries
<1>6. ASSUME NEW c \in Conns, NEW n \in Names, UnknownName(c, n)
      PROVE  OwnInv'
  <2>1. /\ UNCHANGED <<callback, tries, counted, saw, pc>>
        /\ \A d \in Conns : /\ failures'[d] >= failures[d] /\ failures[d] \in Nat
                            /\ failures'[d] \in Nat
                            /\ plain'[d] => plain[d] /\ failures'[d] = failures[d]
    BY <1>6 DEF UnknownName
  <2> QED  BY <1>1, <2>1 DEF OwnTries
<1>7. ASSUME NEW c \in Conns, MakeCallback(c) \/ Leave(c)
      PROVE  OwnInv'
  BY <1>2, <1>7 DEF MakeCallback, Leave
<1>8. ASSUME NEW c \in Conns, Disconnect(c)
      PROVE  OwnInv'
  <2>1. failures[c] >= MaxTries
    BY <1>8 DEF Disconnect, MaxAuthTries
  <2> QED  BY <1>1, <1>8, <2>1 DEF Disconnect, OwnTries
<1>9. ASSUME NEW c \in Conns, NEW n \in Names, RightPassword(c, n)
      PROVE  OwnInv'
  BY <1>2, <1>9 DEF RightPassword, Accept
<1>10. ASSUME NEW c \in Conns, NEW n \in Names, WrongPassword(c, n)
       PROVE  OwnInv'
  <2>1. CASE Retry /\ tries[callback[c]] # 1
    <3>1. /\ pc' = [pc EXCEPT ![c] = "count"] /\ saw' = [saw EXCEPT ![c] = tries[callback[c]]]
          /\ UNCHANGED <<callback, tries, counted, failures, plain>>
      BY <1>10, <2>1 DEF WrongPassword, CountIt
    <3>2. \A b \in Conns : Users(b) = {c} => callback[c] = b
      BY DEF Users
    <3> QED  BY <1>1, <2>1, <3>1, <3>2 DEF OwnTries
  <2>2. CASE ~(Retry /\ tries[callback[c]] # 1)
    BY <1>2, <1>10, <2>2 DEF WrongPassword, Accept
  <2> QED  BY <2>1, <2>2
<1>11. ASSUME NEW c \in Conns, NEW k \in Chans, NewSystem(<<c, k>>) \/ MapRace(<<c, k>>)
       PROVE  OwnInv'
  <2>1. CASE NewSystem(<<c, k>>)
    BY <1>2, <2>1, SystemsApart DEF Sessions, login
  <2>2. CASE MapRace(<<c, k>>)
    BY <1>2, <2>2 DEF MapRace, login
  <2> QED  BY <1>11, <2>1, <2>2
<1>12. CASE UNCHANGED vars
  BY <1>2, <1>12 DEF vars, login
<1> QED
  BY <1>3, <1>4, <1>5, <1>6, <1>7, <1>8, <1>9, <1>10, <1>11, <1>12 DEF Next

IInv == SafeInv /\ UserInv /\ SharerInv /\ LowInv /\ FreshInv /\ OwnInv

LEMMA InvHolds == Spec => []IInv
<1>1. Init => IInv
  <2> SUFFICES ASSUME Init PROVE IInv
    OBVIOUS
  <2> USE LoginAssumption DEF LoginAssumption
  <2>1. SafeInv
    BY SafeInit
  <2>2. /\ \A b \in Conns : Users(b) = {} /\ Sharers(b) = {}
        /\ config.workers \in Nat \ {0}
    BY DEF Init, Users, Sharers
  <2>3. UserInv
    BY <2>2 DEF Init, UserInv
  <2>4. SharerInv
    BY <2>2, FS_EmptySet DEF SharerInv
  <2>5. LowInv /\ FreshInv
    BY DEF Init, LowInv, FreshInv
  <2>6. OwnInv
    BY <2>2 DEF OwnInv
  <2> QED  BY <2>1, <2>3, <2>4, <2>5, <2>6 DEF IInv
<1>2. IInv /\ [Next]_vars => IInv'
  BY SafeStep, UserStep, SharerStep, LowStep, FreshStep, OwnStep DEF IInv
<1> QED  BY <1>1, <1>2, PTL DEF Spec

(* A client that only sends passwords, on a callback that no other          *)
(* connection has used, is not disconnected, however many workers run.     *)
THEOREM RetryPromiseKept ==
  ASSUME MaxTries > 0
  PROVE  Spec => []RetryKeepsPromise
<1>1. IInv => RetryKeepsPromise
  <2> SUFFICES ASSUME IInv, NEW c \in Conns, plain[c], Alone(c), pc[c] = "refused"
               PROVE  FALSE
    BY DEF RetryKeepsPromise
  <2>1. callback[c] \in Conns /\ OwnTries(c, callback[c])
    BY DEF IInv, OwnInv, Alone
  <2>2. failures[c] \in Nat /\ counted[callback[c]] \in Nat /\ tries[callback[c]] \in Int
    BY <2>1 DEF IInv, SafeInv, TypeOK
  <2> QED  BY <2>1, <2>2, LoginAssumption DEF LoginAssumption, OwnTries
<1> QED  BY <1>1, InvHolds, PTL

(* Nobody is let in with a wrong password before its callback has turned   *)
(* down all tries but one, whoever else counts on it and however many      *)
(* decrements are lost.                                                    *)
THEOREM NobodyBeforeTheLastTry == Spec => []TriesUsedUp
<1>1. IInv => TriesUsedUp
  <2> SUFFICES ASSUME IInv, NEW c \in Conns, Retry, pc[c] = "in", ~right[c]
               PROVE  /\ counted[callback[c]] >= MaxTries - 1
                      /\ Alone(c) => failures[c] >= MaxTries - 1
    BY DEF TriesUsedUp
  <2>1. counted[callback[c]] >= MaxTries - 1
    BY DEF IInv, LowInv
  <2>2. ASSUME Alone(c)
        PROVE  failures[c] >= MaxTries - 1
    <3>1. callback[c] \in Conns /\ counted[callback[c]] <= failures[c]
      BY <2>2 DEF IInv, OwnInv, Alone, OwnTries
    <3>2. failures[c] \in Nat /\ counted[callback[c]] \in Nat
      BY <3>1 DEF IInv, SafeInv, TypeOK
    <3> QED  BY <2>1, <3>1, <3>2, LoginAssumption DEF LoginAssumption
  <2> QED  BY <2>1, <2>2
<1> QED  BY <1>1, InvHolds, PTL

(* No callback is used by more connections than there are workers.         *)
THEOREM CallbacksSharedByWorkers == Spec => []SharedByWorkers
<1>1. IInv => SharedByWorkers
  <2> SUFFICES ASSUME IInv, NEW b \in Conns
               PROVE  Cardinality(Users(b)) <= config.workers
    BY DEF SharedByWorkers
  <2>1. Users(b) \subseteq Sharers(b) /\ IsFiniteSet(Sharers(b))
    BY SharersFinite DEF Sharers
  <2>2. Cardinality(Sharers(b)) <= config.workers /\ config.workers \in Nat
    BY DEF IInv, SharerInv, UserInv
  <2> QED  BY <2>1, <2>2, FewerSharers
<1> QED  BY <1>1, InvHolds, PTL

-----------------------------------------------------------------------------
(* The accounts.                                                           *)

(* Whatever sessions create and in whatever order, the accounts of the     *)
(* passwd file keep their ids, and their names outside the drawn range.    *)
THEOREM PasswdFileStays == Spec => []PasswdStays
<1>1. SafeInv => PasswdStays
  BY DEF SafeInv, AccountInv
<1> QED  BY <1>1, SafeHolds, PTL

(* Id i leads to name n, or it was given to another name, or the session   *)
(* that made the account for n has not stored it yet.                      *)
LeadsTo(i, n) ==
  \/ users[i] = n
  \/ \E m \in Names \ {n} : <<m, i>> \in given
  \/ \E t \in Sessions : sys[t] = "store" /\ uid[t] = i /\ Name(t) = n

(* A crash may leave an account half made; nobody is there to see it.      *)
Dead == (\A c \in Conns : pc[c] = "left") /\ (\A s \in Sessions : sys[s] = "none")

IdsLead ==
  /\ \A n \in Names : Known(n) => LeadsTo(mapping[n], n)
  /\ \A s \in Sessions : sys[s] = "ready" => uid[s] \in Ids /\ LeadsTo(uid[s], Name(s))

(* A step that only adds accounts, or stores one, keeps what ids lead to.  *)
LEMMA LeadsStays ==
  ASSUME SafeInv, NEW s \in Sessions, NewSystem(s), NEW i \in Ids, NEW n \in Names, LeadsTo(i, n)
  PROVE  LeadsTo(i, n)'
<1> USE DEF LeadsTo, Name, login
<1>1. UNCHANGED <<login, pc>> /\ given \subseteq given'
  BY DEF NewSystem, LookUp, FoundAfterAll, StoreUser, ReadId, NameUser
<1>2. CASE \E m \in Names \ {n} : <<m, i>> \in given
  BY <1>1, <1>2
<1>3. CASE StoreUser(s)
  <2>1. /\ users' = [users EXCEPT ![uid[s]] = Name(s)] /\ sys[s] = "store" /\ uid' = uid
        /\ sys' = [sys EXCEPT ![s] = "read"]
    BY <1>3 DEF StoreUser
  <2>2. <<Name(s), uid[s]>> \in given /\ Name(s) \in Names /\ uid[s] \in Ids
    BY <2>1 DEF SafeInv, TypeOK, AccountInv, Admitted, Ids
  <2>3. CASE uid[s] = i /\ Name(s) # n
    BY <1>1, <2>2, <2>3
  <2>4. CASE uid[s] = i /\ Name(s) = n
    BY <2>1, <2>2, <2>4 DEF SafeInv, TypeOK
  <2>5. CASE uid[s] # i
    <3>1. users'[i] = users[i]
      BY <2>1, <2>5 DEF SafeInv, TypeOK
    <3>2. ASSUME NEW t \in Sessions, sys[t] = "store", uid[t] = i, Name(t) = n
          PROVE  sys'[t] = "store" /\ uid'[t] = i /\ Name(t)' = n
      BY <1>1, <2>1, <2>5, <3>2 DEF SafeInv, TypeOK
    <3> QED  BY <1>2, <3>1, <3>2
  <2> QED  BY <2>3, <2>4, <2>5
<1>4. CASE ~StoreUser(s)
  <2>1. users' = users
    BY <1>4 DEF NewSystem, LookUp, FoundAfterAll, ReadId, NameUser
  <2>2. ASSUME NEW t \in Sessions, sys[t] = "store", uid[t] = i, Name(t) = n
        PROVE  sys'[t] = "store" /\ uid'[t] = i /\ Name(t)' = n
    <3>1. t # s
      BY <1>4, <2>2 DEF NewSystem, LookUp, FoundAfterAll, ReadId, NameUser
    <3> QED
      BY <1>1, <1>4, <2>2, <3>1
      DEF NewSystem, LookUp, FoundAfterAll, ReadId, NameUser, SafeInv, TypeOK
  <2> QED  BY <1>2, <2>1, <2>2
<1> QED  BY <1>3, <1>4

LEMMA IdsLeadStep ==
  ASSUME SafeInv, IdsLead, NEW s \in Sessions, NewSystem(s)
  PROVE  IdsLead'
<1> USE LoginAssumption DEF SafeInv, TypeOK
<1>0. UNCHANGED <<login, pc>>
  BY SystemsApart
<1>1. ASSUME NEW n \in Names, Known(n)'
      PROVE  LeadsTo(mapping[n], n)'
  <2>1. CASE mapping'[n] = mapping[n]
    BY <1>1, <2>1, LeadsStays DEF IdsLead, Known
  <2>2. CASE mapping'[n] # mapping[n]
    <3>1. PICK i \in FreshIds : NameUser(s, i)
      BY <2>2 DEF NewSystem, LookUp, FoundAfterAll, StoreUser, ReadId
    <3>2. n = Name(s) /\ mapping'[n] = i
      BY <2>2, <3>1 DEF NameUser
    <3>3. sys'[s] = "store" /\ uid'[s] = i /\ Name(s)' = Name(s)
      BY <1>0, <3>1 DEF NameUser, Name, login
    <3> QED  BY <3>2, <3>3 DEF LeadsTo
  <2> QED  BY <2>1, <2>2
<1>2. ASSUME NEW t \in Sessions, sys'[t] = "ready"
      PROVE  uid'[t] \in Ids /\ LeadsTo(uid[t], Name(t))'
  <2>0. Name(t)' = Name(t)
    BY <1>0 DEF Name, login
  <2>1. CASE sys[t] = "ready" /\ uid'[t] = uid[t]
    <3>1. Name(t) \in Names
      BY <2>1 DEF AccountInv, Admitted
    <3>2. LeadsTo(uid[t], Name(t)) /\ uid[t] \in Ids
      BY <2>1 DEF IdsLead
    <3>3. PICK i \in Ids, n \in Names : i = uid[t] /\ n = Name(t)
      BY <3>1, <3>2
    <3>4. LeadsTo(i, n)'
      BY <3>2, <3>3, LeadsStays
    <3>5. uid'[t] = i /\ Name(t)' = n
      BY <2>0, <2>1, <3>3
    <3> QED  BY <3>4, <3>5 DEF LeadsTo
  <2>2. CASE ~(sys[t] = "ready" /\ uid'[t] = uid[t])
    <3>1. t = s /\ ReadId(s)
      BY <1>2, <2>2 DEF NewSystem, LookUp, FoundAfterAll, StoreUser, ReadId, NameUser
    <3>2. sys[s] = "read" /\ uid'[s] = mapping[Name(s)]
      BY <3>1 DEF ReadId
    <3>3. Name(s) \in Names /\ Known(Name(s)) /\ mapping[Name(s)] \in Ids
      BY <3>2 DEF AccountInv, Admitted, Known
    <3>4. LeadsTo(mapping[Name(s)], Name(s))
      BY <3>3 DEF IdsLead
    <3>5. PICK i \in Ids, n \in Names : i = mapping[Name(s)] /\ n = Name(s)
      BY <3>3
    <3>6. LeadsTo(i, n)'
      BY <3>4, <3>5, LeadsStays
    <3>7. uid'[t] = i /\ Name(t)' = n
      BY <2>0, <3>1, <3>2, <3>5
    <3> QED  BY <3>6, <3>7 DEF LeadsTo
  <2> QED  BY <2>1, <2>2
<1> QED  BY <1>1, <1>2 DEF IdsLead

(* A session's id is its user's, but for a second owner or an unfinished   *)
(* creation.                                                               *)
THEOREM SessionsKnowTheirName == Spec => []WhoAmI
<1> DEFINE WInv == SafeInv /\ (Dead \/ IdsLead)
<1>1. Init => WInv
  BY SafeInit, InitListed, LoginAssumption
  DEF Init, IdsLead, Known, LeadsTo, LoginAssumption
<1>2. WInv /\ [Next]_vars => WInv'
  <2> SUFFICES ASSUME SafeInv, Dead \/ IdsLead, [Next]_vars
               PROVE  (Dead \/ IdsLead)'
    BY SafeStep
  <2>1. CASE UNCHANGED vars
    BY <2>1 DEF vars, login, accounts, Dead, IdsLead, LeadsTo, Known, Name
  <2>2. ASSUME NEW s \in Sessions, MapRace(s)
        PROVE  Dead'
    BY <2>2 DEF MapRace, Dead
  <2>3. ASSUME NEW s \in Sessions, NewSystem(s)
        PROVE  (Dead \/ IdsLead)'
    <3>1. ~Dead
      BY <2>3 DEF Dead, NewSystem, LookUp, FoundAfterAll, StoreUser, ReadId, NameUser, Sessions
    <3> QED  BY <2>3, <3>1, IdsLeadStep
  <2>4. ASSUME NEW c \in Conns,
               \/ MakeCallback(c) \/ CopyConfig(c) \/ TryNone(c) \/ TryKey(c) \/ CountTry(c)
               \/ Disconnect(c) \/ Leave(c)
               \/ \E n \in Names : RightPassword(c, n) \/ WrongPassword(c, n) \/ UnknownName(c, n)
        PROVE  (Dead \/ IdsLead)'
    <3>1. /\ UNCHANGED accounts /\ pc[c] # "left"
          /\ \A d \in Conns : pc[d] \in {"in", "left"} => name'[d] = name[d]
      BY <2>4
      DEF MakeCallback, CopyConfig, TryNone, TryKey, CountTry, Disconnect, Leave, SafeInv, TypeOK,
          RightPassword, WrongPassword, UnknownName, Accept, CountIt, Asked
    <3>2. ~Dead
      BY <3>1 DEF Dead
    <3>3. \A s \in Sessions : sys[s] # "none" => Name(s)' = Name(s)
      BY <3>1 DEF SafeInv, AccountInv, Name, Sessions
    <3>4. ASSUME NEW i, NEW n, LeadsTo(i, n)
          PROVE  LeadsTo(i, n)'
      BY <3>1, <3>3, <3>4 DEF LeadsTo, accounts
    <3>5. ASSUME NEW n \in Names, Known(n)'
          PROVE  LeadsTo(mapping[n], n)'
      <4>1. LeadsTo(mapping[n], n) /\ mapping' = mapping
        BY <2>4, <3>1, <3>2, <3>5 DEF IdsLead, Known, accounts
      <4>2. PICK i : i = mapping[n]
        OBVIOUS
      <4> QED  BY <3>4, <4>1, <4>2 DEF LeadsTo
    <3>6. ASSUME NEW s \in Sessions, sys'[s] = "ready"
          PROVE  uid'[s] \in Ids /\ LeadsTo(uid[s], Name(s))'
      <4>1. /\ LeadsTo(uid[s], Name(s)) /\ uid' = uid /\ uid[s] \in Ids
            /\ Name(s)' = Name(s)
        BY <2>4, <3>1, <3>2, <3>3, <3>6 DEF IdsLead, accounts
      <4>2. PICK i, n : i = uid[s] /\ n = Name(s)
        OBVIOUS
      <4>3. LeadsTo(i, n)'
        BY <3>4, <4>1, <4>2
      <4>4. uid'[s] = i /\ Name(s)' = n
        BY <4>1, <4>2
      <4> QED  BY <4>1, <4>3, <4>4 DEF LeadsTo
    <3> QED  BY <3>5, <3>6 DEF IdsLead
  <2>5. ASSUME NEW c \in Conns, NEW k \in Chans
        PROVE  <<c, k>> \in Sessions
    BY DEF Sessions
  <2> QED  BY <2>1, <2>2, <2>3, <2>4, <2>5 DEF Next
<1>3. WInv => WhoAmI
  BY DEF IdsLead, Dead, LeadsTo, WhoAmI
<1> HIDE DEF WInv
<1> QED  BY <1>1, <1>2, <1>3, PTL DEF Spec
=============================================================================
