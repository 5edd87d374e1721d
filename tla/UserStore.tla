------------------------------- MODULE UserStore -------------------------------
(***************************************************************************)
(* UserStore: the accounts and the file they are kept in.                  *)
(*                                                                         *)
(* An account stands for its username and its id, and the role is fixed by  *)
(* the username.  save() opens users.json, which empties it, and then       *)
(* writes it whole: a process that dies in between leaves a file that       *)
(* load() cannot parse.  clampStr may cut the username, the password or the *)
(* displayed name of a new account inside a UTF-8 character: the account is *)
(* kept in memory, but every save() from then on throws after the file has  *)
(* been emptied.                                                           *)
(***************************************************************************)
EXTENDS Integers, FiniteSets

CONSTANTS
    Names,          \* usernames somebody may ask for
    AdminNames,     \* those that get role ADMIN
    DefaultAdmin,   \* "admin"
    Torn,           \* users.json is empty or cut off
    LongNames       \* may a field of an account be cut inside a character

ASSUME NamesAssumption ==
    /\ LongNames \in BOOLEAN
    /\ IsFiniteSet(Names)
    /\ AdminNames \subseteq Names /\ DefaultAdmin \in AdminNames
    /\ Torn \notin [Names -> Nat]

NoId == 0

VARIABLES
    idOf,       \* users_: the id of each account, NoId without one
    nextId,     \* nextId_
    usersFile,  \* users.json
    cut         \* the accounts with a field that cannot be written

storeVars == <<idOf, nextId, usersFile, cut>>

Nobody == [n \in Names |-> NoId]

Registered == {n \in Names : idOf[n] # NoId}

-----------------------------------------------------------------------------

\* load and the constructor: an unreadable file is a store without users.
Loaded(file) == IF file = Torn THEN Nobody ELSE file

NextIdFromOne(ids) == {1}  \* mutant: nextId_ is not moved past the ids loaded

\* One above the largest id in the file, 1 when there is none.
NextIdAfter(ids) ==
    { n \in {1} \cup {ids[m] + 1 : m \in Names} : \A m \in Names : ids[m] < n }

\* ensureDefaults creates "admin" when nobody has role ADMIN, and saves.  What could be
\* read from a file can be written again.
Load(file) ==
    LET ids == Loaded(file) IN
    cut' = {} /\ \E n \in NextIdAfter(ids) :
        IF \E a \in AdminNames : ids[a] # NoId
        THEN idOf' = ids /\ nextId' = n /\ usersFile' = file
        ELSE /\ idOf' = [ids EXCEPT ![DefaultAdmin] = n]
             /\ nextId' = n + 1
             /\ usersFile' = idOf'

\* push_back and nextId_++; save() throws when any account has a cut field.
Registers(name) ==
    /\ idOf' = [idOf EXCEPT ![name] = nextId]
    /\ nextId' = nextId + 1
    /\ cut' \in {cut} \cup (IF LongNames THEN {cut \cup {name}} ELSE {})

Saved == usersFile' = IF cut' = {} THEN idOf' ELSE Torn

CreateUserUnsaved(name) ==  \* mutant: save() is not called
    idOf[name] = NoId /\ Registers(name) /\ UNCHANGED usersFile

CreateUserAgain(name) ==  \* mutant: a username that is taken is not refused
    Registers(name) /\ Saved

\* createUser; a username that is taken is refused.
CreateUser(name) ==
    idOf[name] = NoId /\ Registers(name) /\ Saved

\* The process dies while createUser saves, and is started again.
DieInSave(name) ==
    /\ idOf[name] = NoId
    /\ Load(Torn)

Restart == Load(usersFile)

\* The first start of the program, without a file.
StoreInit ==
    /\ idOf = [Nobody EXCEPT ![DefaultAdmin] = 1]
    /\ nextId = 2
    /\ usersFile = idOf
    /\ cut = {}

StoreNext ==
    \/ \E n \in Names : CreateUser(n) \/ DieInSave(n)
    \/ Restart

StoreSpec == StoreInit /\ [][StoreNext]_storeVars

-----------------------------------------------------------------------------
(* Properties. *)

\* The types of the user store.
StoreTypeOK ==
    /\ idOf \in [Names -> Nat]
    /\ nextId \in Nat \ {0}
    /\ usersFile \in [Names -> Nat] \cup {Torn}
    /\ cut \subseteq Names

\* One id, one account: sessions, classes and answers are keyed by the id alone.
IdsAreUnique ==
    \A m, n \in Registered : idOf[m] = idOf[n] => m = n

\* Whatever died or restarted, the file holds every account or, once an account has been
\* created that cannot be written, none, and there is an administrator to log in as.
FileIsCurrent ==
    /\ usersFile = idOf \/ (cut # {} /\ usersFile = Torn)
    /\ \E a \in AdminNames : a \in Registered

\* An account keeps its id: a restart brings all of them back or, after a death during a
\* save or with an account that cannot be written, none of them rather than some.
AllAccountsOrNone ==
    [][\/ \A n \in Registered : idOf'[n] = idOf[n]
       \/ idOf' = [Nobody EXCEPT ![DefaultAdmin] = 1]]_storeVars

=============================================================================
