----------------------- MODULE ConfigureCycle_proofs -----------------------
(***************************************************************************)
(* What a run of configure.py that has succeeded promises, for every set   *)
(* of passwords and keys and however many runs were cut off before it.     *)
(*                                                                         *)
(* The properties speak of the end of a run.  The invariant says what each *)
(* step has established and no import, no change of the arguments and no   *)
(* later step takes away: from the copy of account_data.json on, the       *)
(* password of the run is the last one the server will learn of            *)
(* (PasswordInv); from the account on, there is an account (AdminInv);     *)
(* from authorized_keys on, the key of the run is in it (KeyInv).          *)
(***************************************************************************)
EXTENDS ConfigureCycle, TLAPS

\* The run has logged in with its password; the account is there.
WithAccount == {"user", "pubkey", "fill", "authorize", "refill", "credential", "ad"}
LoggedIn == {"show", "identity", "create"} \cup WithAccount

Domains == data = [f \in Files |-> data[f]] /\ store = [f \in Files |-> store[f]]

\* TypeOK in four parts, and what it needs to be inductive.
Switches ==
  /\ up \in BOOLEAN /\ identity \in BOOLEAN /\ azure \in BOOLEAN
  /\ user \in BOOLEAN /\ metadata \in BOOLEAN

Control ==
  /\ pc \in Labels /\ last \in {"never", "running", "failed", "ok"}
  /\ tries \in 0..5 /\ (pc \in {"metadata", "await"} => tries = 5)
  /\ changes \in 0..MaxChanges /\ upsets \in 0..MaxUpsets
  /\ last = "ok" => pc = "idle"

Values ==
  /\ asked \in Arguments
  /\ password \in AllPasswords \cup {None} /\ key \in AllKeys \cup {None, Empty}
  /\ pubkey \in AllKeys \cup {None, Empty} /\ authorized \subseteq AllKeys
  /\ pc = "refill" => key \notin {None, Empty}

Records ==
  /\ Domains
  /\ \A f \in Files: data[f] \in Contents(f) \cup {None} /\ store[f] \in Contents(f) \cup {None}

TypeInv == Switches /\ Control /\ Values /\ Records

PasswordInv ==
  /\ pc # "idle" \/ Done => password # None
  /\ pc = "initialize" =>
       data["account_data"] = password \/ (data["account_data"] = None /\ store["account_data"] = password)
  /\ pc \in LoggedIn \/ Done =>
       store["account_data"] = password /\ data["account_data"] \in {None, password}

KeyInv ==
  /\ (pc \in {"credential", "ad"} \/ Done) /\ key # Empty => key \in authorized
  /\ pc = "ad" \/ Done =>
       data["credential"] = key \/ (data["credential"] = None /\ store["credential"] = key)

AdminInv ==
  /\ pc \in WithAccount => azure
  /\ AdministratorFirst

SetupInv == TypeInv /\ PasswordInv /\ KeyInv /\ AdminInv

-----------------------------------------------------------------------------
\* A switch that changes is set to TRUE or FALSE.
LEMMA SwitchesStep == Switches /\ [Next]_vars => Switches'
<1> SUFFICES ASSUME Switches, [Next]_vars PROVE Switches'
  OBVIOUS
<1> USE DEF Switches
<1>1. CASE ChangeArguments \/ IdentityReady \/ ServerUp \/ UNCHANGED vars
  BY <1>1 DEF ChangeArguments, IdentityReady, ServerUp, vars, server, home, run
<1>2. CASE Kill \/ NotStarted
  BY <1>2 DEF Kill, NotStarted, Failed, server, home
<1>3. ASSUME NEW f \in Files, Import(f) PROVE Switches'
  BY <1>3 DEF Import, home, run
<1>4. CASE Start
  BY <1>4 DEF Start, home
<1>5. CASE GetMetadata
  BY <1>5 DEF GetMetadata, GoTo, Failed, server, home
<1>6. CASE Started
  BY <1>6 DEF Started, Failed, home
<1>7. CASE CopyAccountData
  BY <1>7 DEF CopyAccountData, Copy, GoTo, home
<1>8. CASE Initialize \/ ShowAccount \/ GetIdentity
  BY <1>8 DEF Initialize, ShowAccount, GetIdentity, GoTo, Failed, server, home
<1>9. CASE CreateAccount
  BY <1>9 DEF CreateAccount, GoTo, Failed, home
<1>10. CASE CreateUser
  BY <1>10 DEF CreateUser, GoTo, server
<1>11. CASE OpenPublicKey \/ FillPublicKey
  BY <1>11 DEF OpenPublicKey, FillPublicKey, GoTo, server, home
<1>12. CASE OpenAuthorized \/ FillAuthorized
  BY <1>12 DEF OpenAuthorized, FillAuthorized, GoTo, Failed, server, home
<1>13. CASE CopyCredential \/ CopyADSettings
  BY <1>13 DEF CopyCredential, CopyADSettings, Copy, Finish, AfterConfigure, GoTo, home
<1> QED
  BY <1>1, <1>2, <1>3, <1>4, <1>5, <1>6, <1>7, <1>8, <1>9, <1>10, <1>11, <1>12, <1>13 DEF Next, Step

\* The wait for the server has all its tries when it begins; a run that has
\* succeeded is over.
LEMMA ControlStep == Control /\ [Next]_vars => Control'
<1> SUFFICES ASSUME Control, [Next]_vars PROVE Control'
  OBVIOUS
<1>b. MaxChanges \in Nat /\ MaxUpsets \in Nat
  BY BoundsOK
<1> USE <1>b DEF Control, Labels
<1>1. CASE ChangeArguments
  BY <1>1 DEF ChangeArguments, server, home, run, args
<1>2. CASE IdentityReady
  BY <1>2 DEF IdentityReady, home, run, args, bounds
<1>3. CASE ServerUp
  BY <1>3 DEF ServerUp, home, run, args, bounds
<1>4. CASE Kill
  BY <1>4 DEF Kill, Upset, Failed, server, home
<1>5. ASSUME NEW f \in Files, Import(f) PROVE Control'
  BY <1>5 DEF Import, home, run, args, bounds
<1>6. CASE Start
  BY <1>6 DEF Start, home, bounds
<1>7. CASE GetMetadata
  BY <1>7 DEF GetMetadata, Upset, GoTo, Failed, server, home, bounds
<1>8. CASE Started
  BY <1>8 DEF Started, Failed, home, bounds
<1>9. CASE NotStarted
  BY <1>9 DEF NotStarted, Upset, Failed, server, home
<1>10. CASE CopyAccountData
  BY <1>10 DEF CopyAccountData, Copy, GoTo, home, bounds
<1>11. CASE Initialize
  BY <1>11 DEF Initialize, Upset, GoTo, Failed, server, home, bounds
<1>12. CASE ShowAccount
  BY <1>12 DEF ShowAccount, Upset, GoTo, Failed, server, home, bounds
<1>13. CASE GetIdentity
  BY <1>13 DEF GetIdentity, Upset, GoTo, Failed, server, home, bounds
<1>14. CASE CreateAccount
  BY <1>14 DEF CreateAccount, Upset, GoTo, Failed, home, bounds
<1>15. CASE CreateUser
  BY <1>15 DEF CreateUser, GoTo, server, bounds
<1>16. CASE OpenPublicKey
  BY <1>16 DEF OpenPublicKey, GoTo, server, home, bounds
<1>17. CASE FillPublicKey
  BY <1>17 DEF FillPublicKey, GoTo, server, home, bounds
<1>18. CASE OpenAuthorized
  BY <1>18 DEF OpenAuthorized, GoTo, Failed, server, home, bounds
<1>19. CASE FillAuthorized
  BY <1>19 DEF FillAuthorized, GoTo, server, home, bounds
<1>20. CASE CopyCredential \/ CopyADSettings
  BY <1>20 DEF CopyCredential, CopyADSettings, Copy, Finish, AfterConfigure, GoTo, home, bounds
<1>21. CASE UNCHANGED vars
  BY <1>21 DEF vars, server, home, run, args, bounds
<1> QED
  BY <1>1, <1>2, <1>3, <1>4, <1>5, <1>6, <1>7, <1>8, <1>9, <1>10, <1>11, <1>12, <1>13, <1>14, <1>15, <1>16, <1>17, <1>18, <1>19, <1>20, <1>21 DEF Next, Step

\* Passwords and keys come from the arguments or are generated; authorized_keys
\* is written with a key only.
LEMMA ValuesStep == Values /\ [Next]_vars => Values'
<1> SUFFICES ASSUME Values, [Next]_vars PROVE Values'
  OBVIOUS
<1> USE ValuesOK DEF Values, Arguments
<1>a. Passwords \subseteq AllPasswords /\ RandomPasswords \subseteq AllPasswords
      /\ Keys \subseteq AllKeys /\ NewKeys \subseteq AllKeys /\ None \notin AllKeys
  BY DEF AllPasswords, AllKeys
<1>1. CASE ChangeArguments
  BY <1>1 DEF ChangeArguments, home, run, args
<1>2. CASE IdentityReady
  BY <1>2 DEF IdentityReady, home, run, args
<1>3. CASE ServerUp
  BY <1>3 DEF ServerUp, home, run, args
<1>4. CASE Kill
  BY <1>4 DEF Kill, Failed, home
<1>5. ASSUME NEW f \in Files, Import(f) PROVE Values'
  BY <1>5 DEF Import, home, run, args
<1>6. CASE Start
  BY <1>6, <1>a DEF Start, GivenOrRandom, home
<1>7. CASE GetMetadata
  BY <1>7 DEF GetMetadata, GoTo, Failed, home, args
<1>8. CASE Started
  BY <1>8 DEF Started, Failed, home, args
<1>9. CASE NotStarted
  BY <1>9 DEF NotStarted, Failed, home
<1>10. CASE CopyAccountData
  BY <1>10 DEF CopyAccountData, GoTo, home, args
<1>11. CASE Initialize
  BY <1>11 DEF Initialize, GoTo, Failed, home, args
<1>12. CASE ShowAccount
  BY <1>12 DEF ShowAccount, GoTo, Failed, home, args
<1>13. CASE GetIdentity
  BY <1>13 DEF GetIdentity, GoTo, Failed, home, args
<1>14. CASE CreateAccount
  BY <1>14 DEF CreateAccount, GoTo, Failed, home, args
<1>15. CASE CreateUser
  BY <1>15 DEF CreateUser, GoTo, args
<1>16. CASE OpenPublicKey
  BY <1>16, <1>a DEF OpenPublicKey, GoTo, home, args
<1>17. CASE FillPublicKey
  BY <1>17 DEF FillPublicKey, GoTo, home, args
<1>18. CASE OpenAuthorized
  BY <1>18, <1>a DEF OpenAuthorized, GoTo, Failed, home, args
<1>19. CASE FillAuthorized
  BY <1>19, <1>a DEF FillAuthorized, GoTo, home, args
<1>20. CASE CopyCredential \/ CopyADSettings
  BY <1>20 DEF CopyCredential, CopyADSettings, Finish, AfterConfigure, GoTo, home, args
<1>21. CASE UNCHANGED vars
  BY <1>21 DEF vars, home, run, args
<1> QED
  BY <1>1, <1>2, <1>3, <1>4, <1>5, <1>6, <1>7, <1>8, <1>9, <1>10, <1>11, <1>12, <1>13, <1>14, <1>15, <1>16, <1>17, <1>18, <1>19, <1>20, <1>21 DEF Next, Step

\* The server stores what a file has, and each file has what belongs in it.
LEMMA RecordsStep == Records /\ Values /\ [Next]_vars => Records'
<1> SUFFICES ASSUME Records, Values, [Next]_vars PROVE Records'
  OBVIOUS
<1> USE DEF Records, Domains
<1>a. UNCHANGED <<data, store>> => Records'
  OBVIOUS
<1>1. CASE ChangeArguments \/ IdentityReady \/ ServerUp \/ Kill \/ Start \/ UNCHANGED vars
  BY <1>1, <1>a DEF ChangeArguments, IdentityReady, ServerUp, Kill, Start, vars, server
<1>2. CASE GetMetadata \/ Started \/ NotStarted \/ Initialize \/ ShowAccount \/ GetIdentity
  BY <1>2, <1>a DEF GetMetadata, Started, NotStarted, Initialize, ShowAccount, GetIdentity, server
<1>3. CASE CreateAccount \/ CreateUser \/ OpenPublicKey \/ FillPublicKey \/ OpenAuthorized \/ FillAuthorized
  BY <1>3, <1>a DEF CreateAccount, CreateUser, OpenPublicKey, FillPublicKey, OpenAuthorized,
     FillAuthorized, server
<1>4. ASSUME NEW f \in Files, Import(f) PROVE Records'
  BY <1>4 DEF Import
<1>5. ASSUME NEW f \in Files, NEW x \in Contents(f) \cup {None}, Copy(f, x) PROVE Records'
  BY <1>5 DEF Copy
<1>6. CASE CopyAccountData
  <2>1. "account_data" \in Files /\ password \in Contents("account_data") \cup {None}
    BY DEF Values, Files, Contents
  <2> QED
    BY <1>5, <1>6, <2>1 DEF CopyAccountData
<1>7. CASE CopyCredential
  <2>1. "credential" \in Files /\ key \in Contents("credential") \cup {None}
    BY DEF Values, Files, Contents
  <2> QED
    BY <1>5, <1>7, <2>1 DEF CopyCredential
<1>8. CASE CopyADSettings
  <2>1. "configure_ad" \in Files /\ TRUE \in Contents("configure_ad") \cup {None}
    BY DEF Files, Contents
  <2> QED
    BY <1>5, <1>8, <2>1 DEF CopyADSettings
<1> QED
  BY <1>1, <1>2, <1>3, <1>4, <1>6, <1>7, <1>8 DEF Next, Step

\* No step but Start gives the run another password, and none but
\* CopyAccountData another one to the server.
LEMMA PasswordStep == TypeInv /\ PasswordInv /\ [Next]_vars => PasswordInv'
<1> SUFFICES ASSUME TypeInv, PasswordInv, [Next]_vars PROVE PasswordInv'
  OBVIOUS
<1> USE DEF PasswordInv, Done, LoggedIn, WithAccount
<1>a. Domains /\ (last = "ok" => pc = "idle") /\ {"account_data", "credential", "configure_ad"} = Files
  BY DEF TypeInv, Control, Records, Files
<1>1. CASE ChangeArguments \/ IdentityReady \/ ServerUp \/ UNCHANGED vars
  BY <1>1 DEF ChangeArguments, IdentityReady, ServerUp, vars, server, home, run, args, bounds
<1>2. CASE Kill \/ NotStarted
  BY <1>2 DEF Kill, NotStarted, Failed
<1>3. ASSUME NEW f \in Files, Import(f) PROVE PasswordInv'
  BY <1>3, <1>a DEF Import, Domains, run, args
<1>4. CASE Start
  <2>1. password' # None
    BY <1>4, ValuesOK DEF Start, GivenOrRandom, TypeInv, Values, Arguments
  <2> QED
    BY <1>4, <2>1 DEF Start
<1>5. CASE GetMetadata \/ Started
  BY <1>5, <1>a DEF GetMetadata, Started, GoTo, Failed, args
<1>6. CASE CopyAccountData
  BY <1>6, <1>a DEF CopyAccountData, Copy, GoTo, Domains, args
<1>7. CASE Initialize
  BY <1>7, <1>a DEF Initialize, GoTo, Failed, server, args
<1>8. CASE ShowAccount \/ GetIdentity
  BY <1>8, <1>a DEF ShowAccount, GetIdentity, GoTo, Failed, server, args
<1>9. CASE CreateAccount \/ CreateUser
  BY <1>9, <1>a DEF CreateAccount, CreateUser, GoTo, Failed, server, args
<1>10. CASE OpenPublicKey \/ FillPublicKey
  BY <1>10, <1>a DEF OpenPublicKey, FillPublicKey, GoTo, server, args
<1>11. CASE OpenAuthorized \/ FillAuthorized
  BY <1>11, <1>a DEF OpenAuthorized, FillAuthorized, GoTo, Failed, server, args
<1>12. CASE CopyCredential \/ CopyADSettings
  BY <1>12, <1>a DEF CopyCredential, CopyADSettings, Copy, Finish, AfterConfigure, GoTo, Domains, args
<1> QED
  BY <1>1, <1>2, <1>3, <1>4, <1>5, <1>6, <1>7, <1>8, <1>9, <1>10, <1>11, <1>12 DEF Next, Step

\* The key of a run is let in before it is handed to the server.
LEMMA KeyStep == TypeInv /\ KeyInv /\ [Next]_vars => KeyInv'
<1> SUFFICES ASSUME TypeInv, KeyInv, [Next]_vars PROVE KeyInv'
  OBVIOUS
<1> USE DEF KeyInv, Done
<1>a. Domains /\ (last = "ok" => pc = "idle") /\ {"account_data", "credential", "configure_ad"} = Files
  BY DEF TypeInv, Control, Records, Files
<1>1. CASE ChangeArguments \/ IdentityReady \/ ServerUp \/ UNCHANGED vars
  BY <1>1 DEF ChangeArguments, IdentityReady, ServerUp, vars, server, home, run, args, bounds
<1>2. CASE Kill \/ NotStarted \/ Start
  BY <1>2 DEF Kill, NotStarted, Start, Failed
<1>3. ASSUME NEW f \in Files, Import(f) PROVE KeyInv'
  BY <1>3, <1>a DEF Import, Domains, home, run, args
<1>4. CASE GetMetadata \/ Started \/ CopyAccountData
  BY <1>4, <1>a DEF GetMetadata, Started, CopyAccountData, GoTo, Failed, args
<1>5. CASE Initialize \/ ShowAccount \/ GetIdentity
  BY <1>5, <1>a DEF Initialize, ShowAccount, GetIdentity, GoTo, Failed, args
<1>6. CASE CreateAccount \/ CreateUser
  BY <1>6, <1>a DEF CreateAccount, CreateUser, GoTo, Failed, args
<1>7. CASE OpenPublicKey \/ FillPublicKey
  BY <1>7, <1>a DEF OpenPublicKey, FillPublicKey, GoTo, args
<1>8. CASE OpenAuthorized \/ FillAuthorized
  BY <1>8, <1>a DEF OpenAuthorized, FillAuthorized, GoTo, Failed, home, args
<1>9. CASE CopyCredential
  BY <1>9, <1>a DEF CopyCredential, Copy, Finish, AfterConfigure, GoTo, Domains, home, args
<1>10. CASE CopyADSettings
  BY <1>10, <1>a DEF CopyADSettings, Copy, Finish, GoTo, Domains, home, args
<1> QED
  BY <1>1, <1>2, <1>3, <1>4, <1>5, <1>6, <1>7, <1>8, <1>9, <1>10 DEF Next, Step

\* An account is never removed, nor the record of the administrator; the file
\* that switches on Active Directory is copied when both are there.
LEMMA AdminStep == TypeInv /\ PasswordInv /\ AdminInv /\ [Next]_vars => AdminInv'
<1> SUFFICES ASSUME TypeInv, PasswordInv, AdminInv, [Next]_vars PROVE AdminInv'
  OBVIOUS
<1> USE DEF AdminInv, AdministratorFirst, WithAccount
<1>a. Domains /\ {"account_data", "credential", "configure_ad"} = Files
  BY DEF TypeInv, Control, Records, Files
<1>1. CASE ChangeArguments \/ IdentityReady \/ ServerUp \/ UNCHANGED vars
  BY <1>1 DEF ChangeArguments, IdentityReady, ServerUp, vars, server, home, run, args, bounds
<1>2. CASE Kill \/ NotStarted
  BY <1>2 DEF Kill, NotStarted, Failed, server
<1>3. ASSUME NEW f \in Files, Import(f) PROVE AdminInv'
  BY <1>3, <1>a DEF Import, Domains, run
<1>4. CASE Start \/ GetMetadata \/ Started
  BY <1>4 DEF Start, GetMetadata, Started, GoTo, Failed, server
<1>5. CASE CopyAccountData
  BY <1>5, <1>a DEF CopyAccountData, Copy, GoTo, Domains
<1>6. CASE Initialize \/ ShowAccount \/ GetIdentity
  BY <1>6 DEF Initialize, ShowAccount, GetIdentity, GoTo, Failed, server
<1>7. CASE CreateAccount \/ CreateUser
  BY <1>7 DEF CreateAccount, CreateUser, GoTo, Failed, server
<1>8. CASE OpenPublicKey \/ FillPublicKey
  BY <1>8 DEF OpenPublicKey, FillPublicKey, GoTo, server
<1>9. CASE OpenAuthorized \/ FillAuthorized
  BY <1>9 DEF OpenAuthorized, FillAuthorized, GoTo, Failed, server
<1>10. CASE CopyCredential
  BY <1>10, <1>a DEF CopyCredential, Copy, Finish, AfterConfigure, GoTo, Domains
<1>11. CASE CopyADSettings
  BY <1>11, <1>a DEF CopyADSettings, Copy, Finish, GoTo, Domains, PasswordInv, LoggedIn
<1> QED
  BY <1>1, <1>2, <1>3, <1>4, <1>5, <1>6, <1>7, <1>8, <1>9, <1>10, <1>11 DEF Next, Step

-----------------------------------------------------------------------------
\* What every step of a run has established holds in every reachable state of
\* the set-up, wherever runs are cut off and whenever files are imported.
THEOREM SetupInvariant == Spec => []SetupInv
<1>0. Init => Switches
  BY DEF Init, Switches
<1>1. Init => Control /\ Values
  <2>1. MaxChanges \in Nat /\ MaxUpsets \in Nat
    BY BoundsOK
  <2>2. Init => Control
    BY <2>1 DEF Init, Control, Labels
  <2>3. Init => Values
    BY DEF Init, Values, Arguments, AllKeys
  <2> QED
    BY <2>2, <2>3
<1>2. Init => Records
  BY DEF Init, Records, Domains
<1>3. Init => PasswordInv /\ KeyInv /\ AdminInv
  BY DEF Init, PasswordInv, KeyInv, AdminInv, AdministratorFirst, Done, LoggedIn, WithAccount, Files
<1>4. SetupInv /\ [Next]_vars => SetupInv'
  BY SwitchesStep, ControlStep, ValuesStep, RecordsStep, PasswordStep, KeyStep, AdminStep DEF SetupInv, TypeInv
<1>5. Init => SetupInv
  BY <1>0, <1>1, <1>2, <1>3 DEF SetupInv, TypeInv
<1> QED
  BY <1>4, <1>5, PTL DEF Spec

\* Every variable of the set-up keeps its type.
THEOREM TypeCorrect == Spec => []TypeOK
<1>1. SetupInv => TypeOK
  BY DEF SetupInv, TypeInv, Switches, Control, Values, Records, TypeOK
<1> QED
  BY <1>1, SetupInvariant, PTL

\* The password of a run that succeeded is the server's, and stays so.
THEOREM PasswordAlwaysWorks == Spec => []PasswordWorks
<1>1. SetupInv => PasswordWorks
  BY DEF SetupInv, PasswordInv, PasswordWorks
<1> QED
  BY <1>1, SetupInvariant, PTL

\* The key of a run that succeeded is the server's and lets the user in.
THEOREM KeysAlwaysAgree == Spec => []KeysAgree
<1>1. SetupInv => KeysAgree
  BY DEF SetupInv, KeyInv, KeysAgree
<1> QED
  BY <1>1, SetupInvariant, PTL

\* Active Directory is never switched on without administrator and account.
THEOREM AdministratorAlwaysFirst == Spec => []AdministratorFirst
<1>1. SetupInv => AdministratorFirst
  BY DEF SetupInv, AdminInv
<1> QED
  BY <1>1, SetupInvariant, PTL
=============================================================================
