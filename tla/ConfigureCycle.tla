--------------------------- MODULE ConfigureCycle ---------------------------
(***************************************************************************)
(* The set-up of the CycleCloud server by the ccportal playbook            *)
(* (playbooks/roles/cyclecloud/files/configure.py and configure_ad.py):    *)
(* wait for the server, leave it the administrator's password, log in,     *)
(* create the account "azure" unless it is there, install the              *)
(* administrator's key, and switch on Active Directory.                    *)
(*                                                                         *)
(* The scripts tell the server what to do by files in config/data, which   *)
(* the server imports when it comes to it.  A run may fail or be cut off   *)
(* at any step; the playbook is then run again, with the password of the   *)
(* key vault and the key of the deployer, which may have changed.          *)
(* Nobody but the run reads its temporary directory: it is left out.       *)
(***************************************************************************)
EXTENDS Integers

CONSTANTS
  Passwords, Keys,      \* what the administrator may give
  RandomPasswords, NewKeys, \* what the script may generate
  None,                 \* no value: not given, no file, no record
  Empty,                \* an empty key, or the contents of a file that was only opened
  UseManagedIdentity,   \* --useManagedIdentity
  UserAuthIsAD,         \* authentication.user_auth is "ad"
  MaxChanges, MaxUpsets \* bounds on changes of the arguments and outside failures

ASSUME ValuesOK ==
  /\ None \notin Passwords \cup RandomPasswords \cup Keys \cup NewKeys
  /\ Empty \notin Keys \cup NewKeys \cup {None}
ASSUME SwitchesOK == {UseManagedIdentity, UserAuthIsAD} \subseteq BOOLEAN
ASSUME BoundsOK == {MaxChanges, MaxUpsets} \subseteq Nat

AllPasswords == Passwords \cup RandomPasswords
AllKeys == Keys \cup NewKeys
Files == {"account_data", "credential", "configure_ad"}
Contents(f) ==
  CASE f = "account_data" -> AllPasswords
    [] f = "credential" -> AllKeys \cup {Empty}
    [] f = "configure_ad" -> {TRUE}

\* An argument is not given at all, or the key is: --publickey "".
Arguments == [password: Passwords \cup {None}, key: Keys \cup {None, Empty}]

Labels == {"idle", "metadata", "await", "account", "initialize", "show", "identity", "create",
           "user", "pubkey", "fill", "authorize", "refill", "credential", "ad"}

VARIABLES
  asked,      \* the arguments of the next run: [password, key]
  up,         \* the server has started
  identity,   \* the machine's managed identity is ready
  data,       \* config/data: what each file has, until it is imported
  store,      \* what was imported
  azure,      \* whether the account "azure" exists
  user, pubkey, authorized, \* the user, id_rsa.pub, and the keys in authorized_keys
  pc, last,   \* the run, and how the last one ended
  tries,      \* max_tries of the wait for the server
  metadata,   \* whether get_vm_metadata returned any
  password, key, \* what the run uses
  changes, upsets

server == <<up, identity, data, store, azure>>
home == <<user, pubkey, authorized>>
args == <<password, key>>
run == <<pc, last, tries, metadata, args>>
bounds == <<changes, upsets>>
vars == <<asked, server, home, run, bounds>>

TypeOK ==
  /\ asked \in Arguments
  /\ {up, identity, azure, user, metadata} \subseteq BOOLEAN
  /\ \A f \in Files: data[f] \in Contents(f) \cup {None} /\ store[f] \in Contents(f) \cup {None}
  /\ pubkey \in AllKeys \cup {None, Empty} /\ authorized \subseteq AllKeys
  /\ pc \in Labels /\ last \in {"never", "running", "failed", "ok"}
  /\ tries \in 0..5
  /\ password \in AllPasswords \cup {None} /\ key \in AllKeys \cup {None, Empty}
  /\ changes \in 0..MaxChanges /\ upsets \in 0..MaxUpsets

Init ==
  /\ asked \in Arguments
  /\ up = FALSE /\ identity = FALSE /\ azure = FALSE
  /\ data = [f \in Files |-> None] /\ store = [f \in Files |-> None]
  /\ pubkey = None
  /\ \/ user = FALSE /\ authorized = {}
     \/ user = TRUE /\ authorized \in {{k}: k \in Keys}
  /\ pc = "idle" /\ last = "never" /\ tries = 0 /\ metadata = FALSE
  /\ password = None /\ key = None
  /\ changes = 0 /\ upsets = 0

-----------------------------------------------------------------------------
(* The administrator, Azure and the CycleCloud server (external).          *)

ChangeArguments ==
  /\ changes < MaxChanges /\ changes' = changes + 1
  /\ asked' \in Arguments
  /\ UNCHANGED <<server, home, run, upsets>>

IdentityReady ==
  /\ ~identity /\ identity' = TRUE
  /\ UNCHANGED <<asked, up, data, store, azure, home, run, bounds>>

ServerUp ==
  /\ ~up /\ up' = TRUE
  /\ UNCHANGED <<asked, identity, data, store, azure, home, run, bounds>>

Import(f) ==
  /\ up /\ data[f] # None
  /\ store' = [store EXCEPT ![f] = data[f]]
  /\ data' = [data EXCEPT ![f] = None]
  /\ UNCHANGED <<asked, up, identity, azure, home, run, bounds>>

\* sys.exit("Deployment failed..."); nothing is left of the run's variables.
Failed ==
  /\ pc' = "idle" /\ last' = "failed"
  /\ tries' = 0 /\ metadata' = FALSE /\ password' = None /\ key' = None

\* Something outside has failed that might as well have worked.
Upset == upsets < MaxUpsets /\ upsets' = upsets + 1 /\ UNCHANGED changes

\* The connection is lost, or the playbook interrupted.
Kill ==
  /\ pc # "idle"
  /\ Upset /\ Failed
  /\ UNCHANGED <<asked, server, home>>

-----------------------------------------------------------------------------
(* configure.py.                                                           *)

GoTo(label) == pc' = label /\ UNCHANGED <<last, tries, metadata, args>>

\* generate_password_string, when no password is given
GivenOrRandom == IF asked.password # None THEN {asked.password} ELSE RandomPasswords

\* The playbook has restarted the server.
Start ==
  /\ pc = "idle"
  /\ pc' = "metadata" /\ last' = "running" /\ up' = FALSE
  /\ tries' = 5 /\ metadata' = FALSE
  /\ password' \in GivenOrRandom /\ key' = asked.key
  /\ UNCHANGED <<asked, identity, data, store, azure, home, bounds>>

\* get_vm_metadata: answers that are no JSON are asked for again, and after
\* the last one nothing is returned; an error of the connection is not caught.
GetMetadata ==
  /\ pc = "metadata"
  /\ \/ /\ pc' = "await" /\ metadata' = TRUE /\ UNCHANGED <<last, tries, args, bounds>>
     \/ /\ GoTo("await") /\ Upset
     \/ Failed /\ Upset
  /\ UNCHANGED <<asked, server, home>>

\* await_startup succeeds; the metadata are used next.
Started ==
  /\ pc = "await"
  /\ up' = TRUE
  /\ IF metadata
     THEN pc' = "account" /\ tries' = tries - 1 /\ UNCHANGED <<last, metadata, args>>
     ELSE Failed
  /\ UNCHANGED <<asked, identity, data, store, azure, home, bounds>>

\* Mutant: the wait is repeated without end.
NotStartedEndless ==
  /\ pc = "await"
  /\ tries' = tries - 1 /\ UNCHANGED <<pc, last, metadata, args>>
  /\ UNCHANGED <<asked, server, home, bounds>>

\* It fails.  The wait between two tries, _catch_sys_error([sleep, "30"]), hands
\* a Python function to check_output, which raises TypeError in the handler.
NotStarted ==
  /\ pc = "await"
  /\ Upset /\ Failed
  /\ UNCHANGED <<asked, server, home>>

Copy(f, content) ==
  /\ data' = [data EXCEPT ![f] = content]
  /\ UNCHANGED <<up, identity, store, azure>>

\* account_data.json: the settings and the administrator with the password
CopyAccountData ==
  /\ pc = "account"
  /\ Copy("account_data", password)
  /\ GoTo("initialize")
  /\ UNCHANGED <<asked, home, bounds>>

\* Mutant: the command line is set up without logging in.
InitializeUnchecked ==
  /\ pc = "initialize" /\ GoTo("show")
  /\ UNCHANGED <<asked, server, home, bounds>>

\* cyclecloud initialize logs in, five seconds after the file was copied.
Initialize ==
  /\ pc = "initialize"
  /\ \/ up /\ store["account_data"] = password /\ GoTo("show") /\ UNCHANGED bounds
     \/ store["account_data"] # password /\ Failed /\ UNCHANGED bounds
     \/ Failed /\ Upset
  /\ UNCHANGED <<asked, server, home>>

\* Mutant: the account is created without looking whether it is there.
ShowNothing ==
  /\ pc = "show"
  /\ \/ GoTo(IF UseManagedIdentity THEN "identity" ELSE "create") /\ UNCHANGED bounds
     \/ Failed /\ Upset
  /\ UNCHANGED <<asked, server, home>>

ShowAccount ==
  /\ pc = "show"
  /\ \/ /\ GoTo(IF azure THEN "user" ELSE IF UseManagedIdentity THEN "identity" ELSE "create")
        /\ UNCHANGED bounds
     \/ Failed /\ Upset
  /\ UNCHANGED <<asked, server, home>>

\* get_vm_managed_identity: an answer with an error is not caught; after thirty
\* answers that are no JSON nothing is returned, and the script goes on.
GetIdentity ==
  /\ pc = "identity"
  /\ \/ GoTo("create") /\ UNCHANGED bounds
     \/ ~identity /\ Failed /\ UNCHANGED bounds
     \/ Failed /\ Upset
  /\ UNCHANGED <<asked, server, home>>

\* The server refuses the account while the identity is not ready, and one
\* that is there already.
CreateAccount ==
  /\ pc = "create"
  /\ LET accepted == ~azure /\ (UseManagedIdentity => identity)
     IN \/ accepted /\ azure' = TRUE /\ GoTo("user") /\ UNCHANGED bounds
        \/ ~accepted /\ Failed /\ UNCHANGED <<azure, bounds>>
        \/ Failed /\ Upset /\ UNCHANGED azure
  /\ UNCHANGED <<asked, up, identity, data, store, home>>

CreateUser ==
  /\ pc = "user"
  /\ user' = TRUE /\ UNCHANGED <<pubkey, authorized>>
  /\ GoTo("pubkey")
  /\ UNCHANGED <<asked, server, bounds>>

\* create_keypair opens id_rsa.pub to write the key that was given, or calls
\* ssh-keygen; a file that is there is left alone.
OpenPublicKey ==
  /\ pc = "pubkey"
  /\ CASE pubkey # None -> GoTo("authorize") /\ UNCHANGED home
       [] pubkey = None /\ key \in Keys ->
            pubkey' = Empty /\ GoTo("fill") /\ UNCHANGED <<user, authorized>>
       [] OTHER ->
            /\ key' \in NewKeys /\ pubkey' = key' /\ UNCHANGED <<user, authorized>>
            /\ pc' = "authorize" /\ UNCHANGED <<last, tries, metadata, password>>
  /\ UNCHANGED <<asked, server, bounds>>

FillPublicKey ==
  /\ pc = "fill"
  /\ pubkey' = key /\ UNCHANGED <<user, authorized>>
  /\ GoTo("authorize")
  /\ UNCHANGED <<asked, server, bounds>>

\* authorized_keys is opened to be written, which empties it, unless it has the
\* key.  With id_rsa.pub there, the look for None raises, and an empty key is
\* found in every file.
OpenAuthorized ==
  /\ pc = "authorize"
  /\ CASE key = None -> Failed /\ UNCHANGED home
       [] key \in authorized \cup {Empty} -> GoTo("credential") /\ UNCHANGED home
       [] OTHER -> authorized' = {} /\ GoTo("refill") /\ UNCHANGED <<user, pubkey>>
  /\ UNCHANGED <<asked, server, bounds>>

FillAuthorized ==
  /\ pc = "refill"
  /\ authorized' = {key} /\ UNCHANGED <<user, pubkey>>
  /\ GoTo("credential")
  /\ UNCHANGED <<asked, server, bounds>>

Finish(next) ==
  IF next = "ok"
  THEN pc' = "idle" /\ last' = "ok" /\ tries' = 0 /\ metadata' = FALSE /\ UNCHANGED args
  ELSE GoTo(next)

AfterConfigure == IF UserAuthIsAD THEN "ad" ELSE "ok"

\* Mutant: the key of the file is taken.
CopyPublicKeyFile ==
  /\ pc = "credential"
  /\ Copy("credential", IF pubkey \in AllKeys THEN pubkey ELSE key)
  /\ Finish(AfterConfigure)
  /\ UNCHANGED <<asked, home, bounds>>

\* credential.json; clean_up ends the script.
CopyCredential ==
  /\ pc = "credential"
  /\ Copy("credential", key)
  /\ Finish(AfterConfigure)
  /\ UNCHANGED <<asked, home, bounds>>

\* configure_ad.py
CopyADSettings ==
  /\ pc = "ad"
  /\ Copy("configure_ad", TRUE)
  /\ Finish("ok")
  /\ UNCHANGED <<asked, home, bounds>>

Step ==
  \/ GetMetadata \/ Started \/ NotStarted \/ CopyAccountData \/ Initialize
  \/ ShowAccount \/ GetIdentity \/ CreateAccount \/ CreateUser
  \/ OpenPublicKey \/ FillPublicKey \/ OpenAuthorized \/ FillAuthorized
  \/ CopyCredential \/ CopyADSettings

Next ==
  \/ ChangeArguments \/ IdentityReady \/ ServerUp \/ Kill
  \/ \E f \in Files: Import(f)
  \/ Start \/ Step

Spec == Init /\ [][Next]_vars

\* A run goes on, the playbook is run again, the identity gets ready, and the
\* server, though it is restarted again and again, imports the administrator.
Fairness ==
  /\ WF_vars(IdentityReady) /\ WF_vars(Start) /\ WF_vars(Step)
  /\ SF_vars(Import("account_data"))

FairSpec == Spec /\ Fairness

-----------------------------------------------------------------------------
Done == last = "ok"

\* When a run has succeeded the administrator logs in with its password, and no
\* file of an earlier run that the server imports later takes that away.
PasswordWorks ==
  Done => /\ store["account_data"] = password
          /\ data["account_data"] \in {None, password}

\* When a run has succeeded the server has, or will import, the very key that
\* authorized_keys lets in, whatever id_rsa.pub has kept of earlier runs, but for
\* an empty key, which the server is given when id_rsa.pub is there.
KeysAgree ==
  Done => /\ key # Empty => key \in authorized
          /\ data["credential"] = key \/ (data["credential"] = None /\ store["credential"] = key)

\* Active Directory and the check of permissions that comes with it are never
\* switched on before there is an administrator and an account, whatever runs
\* were cut off and whenever the server imports the files.
AdministratorFirst ==
  data["configure_ad"] # None \/ store["configure_ad"] # None
    => store["account_data"] # None /\ azure

\* A set-up that failed or was cut off anywhere succeeds at last when it is run
\* again, with a password and a key: what a run has left behind - files not yet
\* imported, the account, a key file - does not stand in the way.
Recovers ==
  (<>[](asked.password # None /\ asked.key # None)) => (last = "failed" ~> Done)
=============================================================================
