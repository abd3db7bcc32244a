-------------------------------- MODULE Tenants --------------------------------
(***************************************************************************)
(* How a tenant is registered, verified and activated: tenants.py, the      *)
(* endpoints of onboard.py, the wizard of onboarding_api.py, and the shadow  *)
(* mode of shadow_mode_api.py, which writes the whole record as well.        *)
(*                                                                         *)
(* Everything is in Redis: a record and a list of contacts per tenant, the  *)
(* set of tenants the loop polls, the tenant of each phone number and the   *)
(* verification code of each number.  Requests are served by threads and    *)
(* processes that read and write those keys one command at a time.          *)
(***************************************************************************)
EXTENDS Naturals, FiniteSets

CONSTANTS
  Workers,   \* threads that serve requests
  Loops,     \* event loops, each of which serves one shadow request at a time
  Tenants,   \* fresh ids, each of one registration
  Phones,
  None,
  MaxHurt,   \* bound on the tenants a command fails for, or a worker dies on
  MaxPosts   \* bound on the codes typed in

ASSUME TenantsAssumption == {MaxHurt, MaxPosts} \subseteq Nat

VARIABLES
  form,      \* of each tenant, the channel and the numbers it registered with
  secrets,   \* tenants whose secret was returned to them
  copy,      \* the record each loop read and has not written back
  undone,    \* tenants whose activation such a copy was written over
  status,    \* of the tenant's record
  contacts,  \* of each tenant, the numbers listed and those of them verified
  members,   \* orchestrator:active_tenants
  owner,     \* orchestrator:phone: of each number
  code,      \* verify: of each number, named by the tenant it was made for
  sent,      \* codes that reached a number
  task,      \* the request each worker serves
  posts,
  proven,    \* numbers whose code was typed in
  accepted,  \* <<tenant, number>> whose code was accepted and deleted
  raced,     \* tenants whose contacts were read while somebody changed them
  hurt       \* tenants a command failed for, or a worker died on

redis   == <<status, contacts, members, owner, code>>
history == <<posts, proven, accepted, raced, hurt>>
shadow  == <<copy, undone>>
vars    == <<form, secrets, shadow, redis, sent, task, history>>

-------------------------------------------------------------------------------
(* whatsapp stands for sent as well, and direct for telegram, which needs no  *)
(* number, and whatsapp_meta, which needs one and does not verify it; the     *)
(* wizard registers for whatsapp and trusts its test alert; other is any name  *)
(* that no provider has.                                                      *)
Channels == {"whatsapp", "direct", "wizard", "other"}

Forms == [channel : Channels, phones : SUBSET Phones]

(* What a copy of a record says of its tenant.                                *)
Copies == [tenant : Tenants, status : {"pending_verification", "active"}]

ASSUME NoneAssumption == None \notin Tenants \cup Phones \cup Forms \cup Copies

Lists == {l \in [listed : SUBSET Phones, verified : SUBSET Phones] :
            l.verified \subseteq l.listed}
NoList == [listed |-> {}, verified |-> {}]

Points == {"idle", "record", "contacts", "enlist", "index", "codes",
           "find", "compare", "consume", "read", "save", "look", "activate", "join"}

Tasks == [at : Points, tenant : Tenants \cup {None}, phone : Phones \cup {None},
          typed : Tenants \cup {None}, left : SUBSET Phones, list : Lists]

Idle == [at |-> "idle", tenant |-> None, phone |-> None, typed |-> None,
         left |-> {}, list |-> NoList]

Init == /\ form = [t \in Tenants |-> None]
        /\ secrets = {}
        /\ copy = [l \in Loops |-> None]
        /\ undone = {}
        /\ status = [t \in Tenants |-> "none"]
        /\ contacts = [t \in Tenants |-> NoList]
        /\ members = {}
        /\ owner = [p \in Phones |-> None]
        /\ code = [p \in Phones |-> None]
        /\ sent = [p \in Phones |-> {}]
        /\ task = [w \in Workers |-> Idle]
        /\ posts = 0
        /\ proven = {}
        /\ accepted = {}
        /\ raced = {}
        /\ hurt = {}

At(w, point) == task[w].at = point
Goto(w, point) == task' = [task EXCEPT ![w].at = point]
Done(w) == task' = [task EXCEPT ![w] = Idle]

(* An error hurts the tenant, and may end the request.                        *)
Hurt(t) == /\ hurt' = hurt \cup ({t} \cap Tenants)
           /\ Cardinality(hurt') <= MaxHurt
Abandon(w) == Hurt(task[w].tenant) /\ Done(w)

-------------------------------------------------------------------------------
(* POST /onboard, or the wizard's POST /activate, once its fields are valid.  *)
Register(w, t, f) ==
  /\ At(w, "idle")
  /\ form[t] = None
  /\ f.channel \in {"whatsapp", "wizard"} => f.phones # {}
  /\ form' = [form EXCEPT ![t] = f]
  /\ task' = [task EXCEPT ![w] = [Idle EXCEPT !.at = "record", !.tenant = t]]
  /\ UNCHANGED <<secrets, shadow, redis, sent, history>>

(* create_tenant: SET, SET, SADD, and a SET for each number.  An error in any *)
(* of them fails the request and undoes nothing.                              *)
InitialStatus(channel) ==
  IF channel = "direct" THEN "active" ELSE "pending_verification"

CreateRecord(w) ==
  LET t == task[w].tenant
  IN
  /\ At(w, "record")
  /\ \/ /\ status' = [status EXCEPT ![t] = InitialStatus(form[t].channel)]
        /\ Goto(w, "contacts")
        /\ UNCHANGED hurt
     \/ Abandon(w) /\ UNCHANGED status
  /\ UNCHANGED <<form, secrets, shadow, contacts, members, owner, code, sent, posts, proven, accepted, raced>>

CreateContacts(w) ==
  LET t == task[w].tenant
  IN
  /\ At(w, "contacts")
  /\ \/ /\ contacts' = [contacts EXCEPT ![t] = [listed |-> form[t].phones, verified |-> {}]]
        /\ Goto(w, "enlist")
        /\ UNCHANGED hurt
     \/ Abandon(w) /\ UNCHANGED contacts
  /\ UNCHANGED <<form, secrets, shadow, status, members, owner, code, sent, posts, proven, accepted, raced>>

(* What onboard does after create_tenant: a code for each number of a channel *)
(* that verifies them, nothing for the others; the wizard marks its contacts. *)
AfterIndex(f) ==
  CASE f.channel = "whatsapp" -> "codes"
    [] f.channel = "wizard"   -> "read"
    [] OTHER                  -> "idle"

(* The answer of /onboard has the secret, the wizard's has none.              *)
Answer(t, over) == secrets' = IF over THEN secrets \cup {t} ELSE secrets

Indexing(w, left) ==
  LET t == task[w].tenant
      next == IF left = {} THEN AfterIndex(form[t]) ELSE "index"
  IN  /\ task' = [task EXCEPT ![w] = IF next = "idle" THEN Idle ELSE
                    [@ EXCEPT !.at = next,
                              !.left = IF next = "codes" THEN form[t].phones ELSE left]]
      /\ Answer(t, next = "idle")

CreateMember(w) ==
  LET t == task[w].tenant
  IN
  /\ At(w, "enlist")
  /\ \/ /\ members' = members \cup {t}
        /\ Indexing(w, form[t].phones)
        /\ UNCHANGED hurt
     \/ Abandon(w) /\ UNCHANGED <<members, secrets>>
  /\ UNCHANGED <<form, shadow, status, contacts, owner, code, sent, posts, proven, accepted, raced>>

CreateIndex(w) ==
  LET t == task[w].tenant
  IN
  /\ At(w, "index")
  /\ \/ \E p \in task[w].left :
          /\ owner' = [owner EXCEPT ![p] = t]
          /\ Indexing(w, task[w].left \ {p})
          /\ UNCHANGED hurt
     \/ Abandon(w) /\ UNCHANGED <<owner, secrets>>
  /\ UNCHANGED <<form, shadow, status, contacts, members, code, sent, posts, proven, accepted, raced>>

(* generate_verification_code, whose error nobody sees, and the message with  *)
(* the code, which may fail.                                                  *)
SendCode(w) ==
  LET t == task[w].tenant
  IN
  /\ At(w, "codes")
  /\ \E p \in task[w].left :
       /\ \/ code' = [code EXCEPT ![p] = t] /\ UNCHANGED hurt
          \/ Hurt(t) /\ UNCHANGED code
       /\ \/ sent' = [sent EXCEPT ![p] = @ \cup {t}]
          \/ UNCHANGED sent
       /\ task' = [task EXCEPT ![w] = IF task[w].left = {p} THEN Idle
                                      ELSE [task[w] EXCEPT !.left = @ \ {p}]]
       /\ Answer(t, task[w].left = {p})
  /\ UNCHANGED <<form, shadow, status, contacts, members, owner, posts, proven, accepted, raced>>

CodeExpires(p) ==
  /\ code[p] # None
  /\ code' = [code EXCEPT ![p] = None]
  /\ UNCHANGED <<form, secrets, shadow, status, contacts, members, owner, sent, task, history>>

-------------------------------------------------------------------------------
(* POST /verify, with a code that was sent to the number or with a wrong one. *)
Post(w, p, typed) ==
  /\ At(w, "idle")
  /\ posts < MaxPosts
  /\ posts' = posts + 1
  /\ task' = [task EXCEPT ![w] =
       [Idle EXCEPT !.at = "find", !.phone = p, !.typed = typed]]
  /\ UNCHANGED <<form, secrets, shadow, redis, sent, proven, accepted, raced, hurt>>

(* find_tenant_by_phone                                                       *)
FindTenant(w) ==
  LET t == owner[task[w].phone]
  IN
  /\ At(w, "find")
  /\ \/ t # None /\ task' = [task EXCEPT ![w].at = "compare", ![w].tenant = t]
     \/ (t = None \/ MaxHurt > 0) /\ Done(w)
  /\ UNCHANGED <<form, secrets, shadow, redis, sent, history>>

(* verify_phone: GET, compare and DEL.                                        *)
Compare(w) ==
  LET r == task[w]
      valid == code[r.phone] # None /\ code[r.phone] = r.typed
  IN
  /\ At(w, "compare")
  /\ \/ valid  /\ Goto(w, "consume") /\ proven' = proven \cup {r.phone}
     \/ ~valid /\ Done(w) /\ UNCHANGED proven
     \/ MaxHurt > 0 /\ Done(w) /\ UNCHANGED proven
  /\ UNCHANGED <<form, secrets, shadow, redis, sent, posts, accepted, raced, hurt>>

Consume(w) ==
  LET r == task[w]
  IN
  /\ At(w, "consume")
  /\ \/ /\ code' = [code EXCEPT ![r.phone] = None]
        /\ accepted' = accepted \cup {<<r.tenant, r.phone>>}
        /\ Goto(w, "read")
     \/ /\ MaxHurt > 0
        /\ code' \in {code, [code EXCEPT ![r.phone] = None]}
        /\ Done(w)
        /\ UNCHANGED accepted
  /\ UNCHANGED <<form, secrets, shadow, status, contacts, members, owner, sent, posts, proven, raced, hurt>>

(* get_contacts, of mark_phone_verified or of the wizard, which marks them    *)
(* all.  An error reads like a tenant without contacts.                       *)
Changing(t) == {w \in Workers : At(w, "save") /\ task[w].tenant = t}

Marked(r, list) ==
  IF r.phone = None THEN [list EXCEPT !.verified = list.listed]
  ELSE [list EXCEPT !.verified = @ \cup {r.phone}]

AnyToMark(r, list) == TRUE
ToMark(r, list) == r.phone = None \/ r.phone \in list.listed

ReadContacts(w) ==
  LET r == task[w]
      Take(list) == IF ~ToMark(r, list) THEN Done(w)
                    ELSE task' = [task EXCEPT ![w].at = "save", ![w].list = Marked(r, list)]
  IN
  /\ At(w, "read")
  /\ \/ Take(contacts[r.tenant]) /\ UNCHANGED hurt
     \/ Take(NoList) /\ Hurt(r.tenant)
  /\ raced' = IF Changing(r.tenant) = {} THEN raced ELSE raced \cup {r.tenant}
  /\ UNCHANGED <<form, secrets, shadow, redis, sent, posts, proven, accepted>>

ToActivate(t) == [Idle EXCEPT !.at = "look", !.tenant = t]

SaveAndActivate(w) ==    \* active as soon as one contact is verified
  LET r == task[w]
  IN
  /\ At(w, "save")
  /\ contacts' = [contacts EXCEPT ![r.tenant] = r.list]
  /\ task' = [task EXCEPT ![w] = ToActivate(r.tenant)]
  /\ UNCHANGED <<form, secrets, shadow, status, members, owner, code, sent, posts, proven, accepted, raced, hurt>>

ActivateUnsaved(w) ==    \* the tenant is activated and its contacts are not saved
  LET r == task[w]
  IN
  /\ At(w, "save")
  /\ task' = [task EXCEPT ![w] =
       IF r.list.verified = r.list.listed THEN ToActivate(r.tenant) ELSE Idle]
  /\ UNCHANGED <<form, secrets, shadow, redis, sent, posts, proven, accepted, raced, hurt>>

(* save_contacts, and whether to activate by the list that was to be saved.   *)
SaveContacts(w) ==
  LET r == task[w]
  IN
  /\ At(w, "save")
  /\ \/ contacts' = [contacts EXCEPT ![r.tenant] = r.list] /\ UNCHANGED hurt
     \/ Hurt(r.tenant) /\ UNCHANGED contacts
  /\ task' = [task EXCEPT ![w] =
       IF r.list.verified = r.list.listed THEN ToActivate(r.tenant) ELSE Idle]
  /\ UNCHANGED <<form, secrets, shadow, status, members, owner, code, sent, posts, proven, accepted, raced>>

(* activate_tenant: GET, SET of the whole record, SADD.                       *)
LookUp(w) ==
  /\ At(w, "look")
  /\ \/ Goto(w, "activate") /\ UNCHANGED hurt
     \/ Abandon(w)
  /\ UNCHANGED <<form, secrets, shadow, redis, sent, posts, proven, accepted, raced>>

Activate(w) ==
  /\ At(w, "activate")
  /\ \/ status' = [status EXCEPT ![task[w].tenant] = "active"] /\ Goto(w, "join") /\ UNCHANGED hurt
     \/ Abandon(w) /\ UNCHANGED status
  /\ UNCHANGED <<form, secrets, shadow, contacts, members, owner, code, sent, posts, proven, accepted, raced>>

Join(w) ==
  /\ At(w, "join")
  /\ \/ members' = members \cup {task[w].tenant} /\ Done(w) /\ UNCHANGED hurt
     \/ Abandon(w) /\ UNCHANGED members
  /\ UNCHANGED <<form, secrets, shadow, status, contacts, owner, code, sent, posts, proven, accepted, raced>>

-------------------------------------------------------------------------------
(* POST and DELETE /tenant/{id}/shadow: GET of the record, and SET of all of    *)
(* it with another mode if the mode is to change.  Its status is then what it  *)
(* was at the GET, whatever activate_tenant has written since.                 *)
ReadRecord(l, t) ==
  /\ copy[l] = None
  /\ t \in secrets
  /\ status[t] # "none"
  /\ copy' = [copy EXCEPT ![l] = [tenant |-> t, status |-> status[t]]]
  /\ UNCHANGED <<form, secrets, undone, redis, sent, task, history>>

WriteRecord(l) ==
  LET c == copy[l]
  IN
  /\ c # None
  /\ status' = [status EXCEPT ![c.tenant] = c.status]
  /\ undone' = IF status[c.tenant] = "active" /\ c.status # "active"
               THEN undone \cup {c.tenant} ELSE undone
  /\ copy' = [copy EXCEPT ![l] = None]
  /\ UNCHANGED <<form, secrets, contacts, members, owner, code, sent, task, history>>

(* save_tenant fails, which nobody notices, or the process dies.               *)
DropRecord(l) ==
  /\ MaxHurt > 0
  /\ copy[l] # None
  /\ copy' = [copy EXCEPT ![l] = None]
  /\ UNCHANGED <<form, secrets, undone, redis, sent, task, history>>

-------------------------------------------------------------------------------
(* A worker dies between two commands.                                        *)
Die(w) ==
  /\ MaxHurt > 0
  /\ ~At(w, "idle")
  /\ Abandon(w)
  /\ UNCHANGED <<form, secrets, shadow, redis, sent, posts, proven, accepted, raced>>

Create(w) == CreateRecord(w) \/ CreateContacts(w) \/ CreateMember(w) \/ CreateIndex(w) \/ SendCode(w)
Verify(w) == FindTenant(w) \/ Compare(w) \/ Consume(w) \/ ReadContacts(w) \/ SaveContacts(w)
Promote(w) == LookUp(w) \/ Activate(w) \/ Join(w)
Serve(w) == Create(w) \/ Verify(w) \/ Promote(w)

Next == \/ \E w \in Workers :
             \/ Serve(w)
             \/ Die(w)
             \/ \E t \in Tenants, f \in Forms : Register(w, t, f)
             \/ \E p \in Phones : \E typed \in sent[p] \cup {None} : Post(w, p, typed)
        \/ \E p \in Phones : CodeExpires(p)
        \/ \E l \in Loops : \/ \E t \in Tenants : ReadRecord(l, t)
                           \/ WriteRecord(l)
                           \/ DropRecord(l)

Spec == Init /\ [][Next]_vars

-------------------------------------------------------------------------------
(* list_active_tenants: the active ones of the set, or, if that is empty, of  *)
(* all records.                                                               *)
Polled == {t \in IF members = {} THEN Tenants ELSE members : status[t] = "active"}

(* The keys in Redis and the requests keep their types.                       *)
TypeOK ==
  /\ form \in [Tenants -> Forms \cup {None}]
  /\ copy \in [Loops -> Copies \cup {None}]
  /\ status \in [Tenants -> {"none", "pending_verification", "active"}]
  /\ contacts \in [Tenants -> Lists]
  /\ members \subseteq Tenants
  /\ owner \in [Phones -> Tenants \cup {None}]
  /\ code \in [Phones -> Tenants \cup {None}]
  /\ sent \in [Phones -> SUBSET Tenants]
  /\ task \in [Workers -> Tasks]
  /\ hurt \cup raced \cup undone \cup secrets \subseteq Tenants

(* A tenant of a channel with verification is polled only after each of its   *)
(* numbers has shown that it receives what is sent to it, whatever requests   *)
(* overlap, whichever tenant its numbers were registered for as well, and     *)
(* whatever fails ("when all contacts for a tenant are verified, tenant       *)
(* becomes active").                                                          *)
PolledIsProven ==
  \A t \in Polled : form[t].channel = "whatsapp" => form[t].phones \subseteq proven

Verified(t) == form[t] # None /\ form[t].phones # {}
               /\ \A p \in form[t].phones : <<t, p>> \in accepted
Answered(t) == \A w \in Workers : task[w].tenant # t

(* A tenant all of whose codes were accepted is polled once its requests are  *)
(* answered, unless two of them changed the contacts at once, something failed *)
(* or a shadow request wrote an older record over its activation.             *)
VerifiedIsPolled ==
  \A t \in Tenants :
    Verified(t) /\ Answered(t) => t \in Polled \cup raced \cup hurt \cup undone

-------------------------------------------------------------------------------
(* What the repository says of /verify and is not so: "when all contacts for a *)
(* tenant are verified, tenant becomes active", shadow requests or not.       *)
VerifiedStaysPolled ==
  \A t \in Tenants : Verified(t) /\ Answered(t) => t \in Polled \cup raced \cup hurt

================================================================================
