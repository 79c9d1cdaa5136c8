-------------------------------- MODULE Names --------------------------------
(***************************************************************************)
(* What a friend is called: by themselves, at Zalo; by an alias that the    *)
(* user gives at the console; in the contact's row, in the title of their   *)
(* chat and in their row as its participant.  Aliases, messages, syncs and  *)
(* events write these one after the other, each from what it read before.   *)
(*                                                                         *)
(* One friend, who is in no group.  Zalo is outside of the repository: for  *)
(* a display name it may answer the person's name or the user's alias.      *)
(* Avatars, presence and friendship itself (Contacts) are left out.         *)
(***************************************************************************)
EXTENDS Naturals

CONSTANTS Names,        \* what somebody may be called
          Placeholder,  \* 'Stranger' and 'Zalo Friend'
          Unnamed,      \* null, and the title where there is no chat
          Errands,      \* requests, jobs and handlers under way at a time
          Free

Called == Names \cup {Placeholder}
Lookups == {"contact", "member", "zalo", "done"}
Subjects == {"thread", "sender"}

NoContact == [id |-> 0, name |-> Unnamed, zalo |-> Unnamed]
ContactRows == [id : Nat, name : Called \cup {Unnamed}, zalo : Names \cup {Unnamed}]

\* Something under way: its next await, how far the name of the thread and that of
\* the sender were looked up, the names so far, what it read of the contact, the
\* friend's own name in a sync, and whether nothing else has run beside it.
ErrandRecords ==
    [kind : {"alias", "unalias", "message", "echo", "open", "sync", "add"},
     step : {"read", "call", "save", "find", "title", "resolve", "member", "fetch", "profile"},
     ask : [Subjects -> Lookups], got : [Subjects -> Called \cup {Unnamed}],
     copy : ContactRows, zalo : Names \cup {Unnamed}, alone : BOOLEAN]

ASSUME NamesAssumption ==
    Placeholder \notin Names /\ Unnamed \notin Called /\ Free \notin ErrandRecords

\* Bounds: what may happen, and how often.
ChoreLists == [aliases : Nat, messages : Nat, opens : Nat, syncs : Nat, adds : Nat,
               removals : Nat, renames : Nat, errors : Nat]

VARIABLES
    person,   \* the friend's name at Zalo, and the alias that Zalo has
    profile,  \* the cached display name, or Unnamed
    contact,  \* the contact's row, or NoContact
    title,    \* of the chat, or Unnamed without a chat
    member,   \* displayName of the friend's participant row, or Unnamed
    errand,   \* what is under way
    chores,   \* what may still happen
    \* history
    ids,      \* how many contacts there were
    wanted,   \* the alias last saved and not taken back
    lost,     \* the contact's name was written without regard to the alias
    behind    \* since the title was last written, undisturbed, the contact was
              \* renamed alone, or the title was written in disorder

zaloSide == <<person, profile>>
nameRows == <<contact, title, member>>
namesHistory == <<ids, wanted, lost, behind>>
namesVars == <<zaloSide, nameRows, errand, chores, namesHistory>>

NamesTypeOK ==
    /\ person \in [name : Names, alias : Names \cup {Unnamed}]
    /\ profile \in Names \cup {Unnamed}
    /\ contact \in ContactRows /\ contact.id \in 0 .. ids
    /\ contact.name = Unnamed <=> contact.id = 0
    /\ {title, member} \subseteq Called \cup {Unnamed}
    /\ errand \in [Errands -> ErrandRecords \cup {Free}]
    /\ ids \in Nat /\ wanted \in Names \cup {Unnamed} /\ {lost, behind} \subseteq BOOLEAN

NamesInit ==
    /\ \E n \in Names : person = [name |-> n, alias |-> Unnamed]
    /\ profile = Unnamed
    /\ contact = NoContact /\ title = Unnamed /\ member = Unnamed
    /\ errand = [e \in Errands |-> Free]
    /\ ids = 0 /\ wanted = Unnamed /\ lost = FALSE /\ behind = FALSE

-----------------------------------------------------------------------------
(* Zalo                                                                    *)

\* The name that Zalo displays.
Displayed == {person.name, person.alias} \ {Unnamed}

Chore(what) == chores[what] > 0 /\ chores' = [chores EXCEPT ![what] = @ - 1]

Rename(n) ==
    /\ n # person.name /\ Chore("renames")
    /\ person' = [person EXCEPT !.name = n]
    /\ UNCHANGED <<profile, nameRows, errand, namesHistory>>

ProfileLapses ==
    /\ profile # Unnamed
    /\ profile' = Unnamed
    /\ UNCHANGED <<person, nameRows, errand, chores, namesHistory>>

\* getUserProfile answers n: from the cache, from Zalo, which is cached if Redis can
\* be reached, or nothing.
GetUserProfile(n) ==
    \/ n = profile /\ UNCHANGED profile
    \/ profile = Unnamed /\ n \in Displayed /\ profile' \in {n, Unnamed}
    \/ n = Unnamed /\ UNCHANGED profile

-----------------------------------------------------------------------------
(* Errands                                                                 *)

Disturbed == [e \in Errands |->
    IF errand[e] = Free THEN Free ELSE [errand[e] EXCEPT !.alone = FALSE]]

\* An errand of this kind begins; ask is what is to be looked up, n the name that it
\* brings along.  A name that the console shows though the contact has another one is
\* a disturbance of earlier.
Starts(e, kind, step, ask, n) ==
    /\ errand[e] = Free
    /\ errand' = [Disturbed EXCEPT ![e] =
          [kind |-> kind, step |-> step,
           ask |-> [s \in Subjects |-> IF s \in ask THEN "contact" ELSE "done"],
           got |-> [s \in Subjects |-> n], copy |-> NoContact, zalo |-> Unnamed,
           alone |-> /\ \A x \in Errands : errand[x] = Free
                     /\ kind = "open" /\ contact.id # 0 => n = contact.name]]
    /\ UNCHANGED <<zaloSide, nameRows, namesHistory>>

Doing(e, step) == errand[e] # Free /\ errand[e].step = step
Takes(e, kinds) == errand[e] # Free /\ errand[e].kind \in kinds
Proceeds(e, record) == errand' = [errand EXCEPT ![e] = record]
Finishes(e) == errand' = [errand EXCEPT ![e] = Free]
Name(e) == errand[e].got["thread"]

\* The title is written or confirmed: it lags behind if others ran meanwhile.
Settled(e) == behind' = ~errand[e].alone

\* A message comes with its sender's name; one that tells of a block or the end of a
\* friendship may have the placeholder.
Ask(e) ==
    \/ Chore("aliases") /\ \E n \in Names : Starts(e, "alias", "call", {}, n)
    \/ Chore("aliases") /\ Starts(e, "unalias", "read", {}, Unnamed)
    \/ /\ Chore("messages")
       /\ \E n \in Displayed \cup {Unnamed, Placeholder} :
             Starts(e, "message", "resolve", Subjects, n)
    \/ Chore("messages") /\ Starts(e, "echo", "resolve", {"thread"}, Unnamed)
    \/ Chore("opens") /\ \E n \in Names : Starts(e, "open", "title", {}, n)
    \/ Chore("syncs") /\ Starts(e, "sync", "fetch", {}, Unnamed)
    \/ Chore("adds") /\ Starts(e, "add", "profile", {}, Unnamed)

HalfWritten(e) ==
    Takes(e, {"alias", "unalias"}) /\ (Doing(e, "find") \/ Doing(e, "title"))

\* An await is rejected.  What was saved of an alias before stays.
ErrandFails(e) ==
    /\ errand[e] # Free /\ Chore("errors")
    /\ Finishes(e)
    /\ behind' = (behind \/ HalfWritten(e))
    /\ UNCHANGED <<zaloSide, nameRows, ids, wanted, lost>>

-----------------------------------------------------------------------------
(* changeFriendAlias and removeFriendAlias                                 *)

\* removeFriendAlias reads the contact, of which it will restore the name.
ReadContact(e) ==
    /\ Takes(e, {"unalias"}) /\ Doing(e, "read")
    /\ IF contact.id = 0 THEN Finishes(e)
       ELSE Proceeds(e, [errand[e] EXCEPT !.step = "call", !.copy = contact])
    /\ UNCHANGED <<zaloSide, nameRows, chores, namesHistory>>

\* Zalo is told, unless the account has no API object.
CallZalo(e) ==
    /\ Doing(e, "call")
    /\ \/ person' = [person EXCEPT !.alias = Name(e)]
       \/ UNCHANGED person
    /\ Proceeds(e, [errand[e] EXCEPT !.step = "save"])
    /\ UNCHANGED <<profile, nameRows, chores, namesHistory>>

\* updateMany: who is no contact has no row to change.
SaveAlias(e) ==
    /\ Takes(e, {"alias"}) /\ Doing(e, "save")
    /\ \/ /\ contact.id # 0
          /\ contact' = [contact EXCEPT !.name = Name(e)]
          /\ wanted' = Name(e) /\ lost' = FALSE
       \/ /\ contact.id = 0
          /\ UNCHANGED <<contact, wanted, lost>>
    /\ Proceeds(e, [errand[e] EXCEPT !.step = "find"])
    /\ UNCHANGED <<zaloSide, title, member, chores, ids, behind>>

\* zaloName || name, of the contact as it was read.
Restored(copy) == IF copy.zalo # Unnamed THEN copy.zalo ELSE copy.name

\* update by id: if the row is gone it throws.
RestoreName(e) ==
    /\ Takes(e, {"unalias"}) /\ Doing(e, "save")
    /\ LET copy == errand[e].copy IN
       \/ /\ contact.id = copy.id
          /\ contact' = [contact EXCEPT !.name = Restored(copy)]
          /\ wanted' = Unnamed
          /\ Proceeds(e, [errand[e] EXCEPT !.step = "find", !.got["thread"] = Restored(copy)])
       \/ /\ contact.id # copy.id
          /\ Finishes(e)
          /\ UNCHANGED <<contact, wanted>>
    /\ UNCHANGED <<zaloSide, title, member, chores, ids, lost, behind>>

\* findByBotAndThread
FindChat(e) ==
    /\ Takes(e, {"alias", "unalias"}) /\ Doing(e, "find")
    /\ IF title = Unnamed THEN Finishes(e)
       ELSE Proceeds(e, [errand[e] EXCEPT !.step = "title"])
    /\ UNCHANGED <<zaloSide, nameRows, chores, namesHistory>>

\* update(title)
SaveTitle(e) ==
    /\ Takes(e, {"alias", "unalias"}) /\ Doing(e, "title")
    /\ title' = Name(e)
    /\ Finishes(e) /\ Settled(e)
    /\ UNCHANGED <<zaloSide, contact, member, chores, ids, wanted, lost>>

-----------------------------------------------------------------------------
(* Messages, and chats that are opened at the console                      *)

\* Deviation: the participant's name first, then the contact's.
MemberFirst == IF member # Unnamed THEN member ELSE contact.name

\* The first name that is asked for, which comes before all others.
ContactFirst == contact.name

Looks(e, subject, stage, n) ==
    Proceeds(e, [errand[e] EXCEPT !.ask[subject] = stage, !.got[subject] = n])

\* resolveUserProfile, of the chat's person and of the sender, who for an echo is
\* the account: the contact, the participant, Zalo.  Without any of them it stays with
\* the name that the message has, if it has one.
Resolve(e, subject) ==
    /\ Doing(e, "resolve")
    /\ \/ /\ errand[e].ask[subject] = "contact"
          /\ IF ContactFirst # Unnamed THEN Looks(e, subject, "done", ContactFirst)
             ELSE Looks(e, subject, "member", errand[e].got[subject])
          /\ UNCHANGED profile
       \/ /\ errand[e].ask[subject] = "member"
          /\ IF member # Unnamed THEN Looks(e, subject, "done", member)
             ELSE Looks(e, subject, "zalo", errand[e].got[subject])
          /\ UNCHANGED profile
       \/ /\ errand[e].ask[subject] = "zalo"
          /\ \E n \in Names \cup {Unnamed} :
                /\ GetUserProfile(n)
                /\ Looks(e, subject, "done", IF n # Unnamed THEN n ELSE errand[e].got[subject])
    /\ UNCHANGED <<person, nameRows, chores, namesHistory>>

\* upsertConversationFromInbound: a name that was found becomes the title.
UpsertChat(e) ==
    /\ Doing(e, "resolve") /\ \A s \in Subjects : errand[e].ask[s] = "done"
    /\ title' = IF Name(e) # Unnamed THEN Name(e)
                ELSE IF title = Unnamed THEN Placeholder ELSE title
    /\ Settled(e)
    /\ IF Takes(e, {"message"}) THEN Proceeds(e, [errand[e] EXCEPT !.step = "member"])
       ELSE Finishes(e)
    /\ UNCHANGED <<zaloSide, contact, member, chores, ids, wanted, lost>>

\* upsertByBotAndThread, for getOrCreateConversation.
OpenChat(e) ==
    /\ Takes(e, {"open"}) /\ Doing(e, "title")
    /\ title' = Name(e)
    /\ Settled(e)
    /\ Proceeds(e, [errand[e] EXCEPT !.step = "member"])
    /\ UNCHANGED <<zaloSide, contact, member, chores, ids, wanted, lost>>

\* upsertParticipant, of the sender.
UpsertMember(e) ==
    /\ Doing(e, "member")
    /\ LET n == errand[e].got["sender"] IN member' = IF n # Unnamed THEN n ELSE member
    /\ Finishes(e)
    /\ UNCHANGED <<zaloSide, contact, title, chores, namesHistory>>

-----------------------------------------------------------------------------
(* Syncs and friends                                                       *)

\* getAllFriends, which may not have the friend.
FetchFriend(e) ==
    /\ Doing(e, "fetch")
    /\ \/ \E n \in Displayed :
             Proceeds(e, [errand[e] EXCEPT !.step = "read", !.got["thread"] = n,
                                           !.zalo = person.name])
       \/ Finishes(e)
    /\ UNCHANGED <<zaloSide, nameRows, chores, namesHistory>>

\* findManyByExternalIds
ReadForSync(e) ==
    /\ Takes(e, {"sync"}) /\ Doing(e, "read")
    /\ Proceeds(e, [errand[e] EXCEPT !.step = "save", !.copy = contact])
    /\ UNCHANGED <<zaloSide, nameRows, chores, namesHistory>>

HasCustomAlias(copy) == copy.zalo # Unnamed /\ copy.name # copy.zalo

\* Deviation: the sync takes what Zalo displays.
DefaultName(e) == Name(e)

\* syncFriends keeps a name that differs from the friend's own one, as far as it
\* knows that.
NameToSet(e) == IF HasCustomAlias(errand[e].copy) THEN errand[e].copy.name ELSE Name(e)

\* upsertContact; the chat's title stays as it is.
PutContact(n, zalo) ==
    /\ ids' = IF contact.id = 0 THEN ids + 1 ELSE ids
    /\ contact' = [id |-> IF contact.id = 0 THEN ids + 1 ELSE contact.id, name |-> n, zalo |-> zalo]
    /\ behind' = (behind \/ (title # Unnamed /\ n # contact.name))
    /\ UNCHANGED <<zaloSide, title, member, chores, wanted>>

\* An alias is lost if the copy does not show that it is one, or is not the row.
SyncContact(e) ==
    /\ Takes(e, {"sync"}) /\ Doing(e, "save")
    /\ PutContact(NameToSet(e), errand[e].zalo)
    /\ lost' = (lost \/ contact # errand[e].copy \/ contact.zalo \in {contact.name, Unnamed})
    /\ Finishes(e)

\* handleFriendAdd asks for the profile
ReadProfile(e) ==
    /\ Doing(e, "profile")
    /\ \E n \in Names \cup {Unnamed} :
          /\ GetUserProfile(n)
          /\ Proceeds(e, [errand[e] EXCEPT !.step = "save",
                                !.got["thread"] = IF n # Unnamed THEN n ELSE Placeholder])
    /\ UNCHANGED <<person, nameRows, chores, namesHistory>>

\* writes the contact anew, also if there is one of an earlier friendship,
AddContact(e) ==
    /\ Takes(e, {"add"}) /\ Doing(e, "save")
    /\ PutContact(Name(e), Unnamed)
    /\ lost' = TRUE
    /\ Proceeds(e, [errand[e] EXCEPT !.step = "find"])

\* and, if there is a chat, publishes a message in it, which is taken up as any other.
AnnounceFriend(e) ==
    /\ Takes(e, {"add"}) /\ Doing(e, "find")
    /\ IF title = Unnamed THEN Finishes(e)
       ELSE Proceeds(e, [errand[e] EXCEPT !.kind = "message", !.step = "resolve",
                             !.ask = [s \in Subjects |-> "contact"],
                             !.got["sender"] = Name(e)])
    /\ UNCHANGED <<zaloSide, nameRows, chores, namesHistory>>

\* acceptFriendRequest creates the contact by the name in the request's row; if there
\* is one it throws.
AcceptFriend ==
    /\ contact.id = 0 /\ Chore("adds")
    /\ \E n \in Called : contact' = [id |-> ids + 1, name |-> n, zalo |-> Unnamed]
    /\ ids' = ids + 1 /\ behind' = TRUE
    /\ errand' = Disturbed
    /\ UNCHANGED <<zaloSide, title, member, wanted, lost>>

\* removeFriend deletes the contact.
RemoveFriend ==
    /\ contact.id # 0 /\ Chore("removals")
    /\ contact' = NoContact
    /\ wanted' = Unnamed
    /\ errand' = Disturbed
    /\ UNCHANGED <<zaloSide, title, member, ids, lost, behind>>

-----------------------------------------------------------------------------
\* The process is killed and started: what is under way vanishes.
NamesRestart ==
    /\ errand' = [e \in Errands |-> Free]
    /\ behind' = (behind \/ \E e \in Errands : HalfWritten(e))
    /\ UNCHANGED <<zaloSide, nameRows, chores, ids, wanted, lost>>

Errand(e) ==
    \/ Ask(e) \/ ErrandFails(e)
    \/ ReadContact(e) \/ CallZalo(e) \/ SaveAlias(e) \/ RestoreName(e)
    \/ FindChat(e) \/ SaveTitle(e)
    \/ \E s \in Subjects : Resolve(e, s)
    \/ UpsertChat(e) \/ OpenChat(e) \/ UpsertMember(e)
    \/ FetchFriend(e) \/ ReadForSync(e) \/ SyncContact(e) \/ ReadProfile(e)
    \/ AddContact(e) \/ AnnounceFriend(e)

NamesNext ==
    \/ \E e \in Errands : Errand(e)
    \/ \E n \in Names : Rename(n)
    \/ ProfileLapses \/ AcceptFriend \/ RemoveFriend

NamesSpec ==
    NamesInit /\ chores \in ChoreLists /\ [][NamesNext \/ NamesRestart]_namesVars

-----------------------------------------------------------------------------
(* Properties                                                              *)

\* The alias that the user gave last is the contact's name, whatever is synced,
\* received or opened, and however the friend is called now: unless the sync could
\* not know that it is an alias, for the friend's own name had not been stored or
\* is the same, or read the contact before it, or the friend was added again.
AliasKept == wanted # Unnamed => contact.name = wanted \/ lost

\* When nothing is under way the chat bears the contact's name: unless, since it was
\* last given a name with nothing else running, a sync or a new friendship has renamed
\* the contact, an alias was only half written, or the name was one of earlier.
TitleAgrees ==
    (\A e \in Errands : errand[e] = Free) /\ contact.id # 0 /\ title # Unnamed
        => title = contact.name \/ behind

\* Who was given a name is called by it everywhere, with these exceptions.
NamesKept == AliasKept /\ TitleAgrees

=============================================================================
