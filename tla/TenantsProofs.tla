----------------------------- MODULE TenantsProofs -----------------------------
(***************************************************************************)
(* Proofs about Tenants: types, that a tenant is polled only after its      *)
(* numbers were proven, and that it is polled then, for any number of       *)
(* requests, tenants and numbers and whatever fails.                        *)
(***************************************************************************)
EXTENDS Tenants, TLAPS

(* A tenant of a channel with verification whose numbers have all answered,   *)
(* or one of another channel.                                                 *)
Sure(t) == form[t].channel = "whatsapp" => form[t].phones \subseteq proven

(* Contacts a tenant may be found to have: none yet, or the numbers of its    *)
(* form, verified no further than they were proven.                           *)
Shown(t, list) ==
  form[t].channel = "whatsapp" =>
    /\ list.listed \in {{}, form[t].phones}
    /\ list.verified \subseteq proven

(* What a request has established at each point.                              *)
Fit(r) ==
  /\ r.at \notin {"idle", "find"} => r.tenant \in Tenants /\ form[r.tenant] # None
  /\ r.at \in {"find", "compare", "consume"} => r.phone \in Phones
  /\ r.at \in {"consume", "read", "save"} =>
       r.phone \in proven \/ form[r.tenant].channel = "wizard"
  /\ r.at = "save" => /\ Shown(r.tenant, r.list)
                      /\ form[r.tenant].channel = "whatsapp" =>
                           r.list.listed = form[r.tenant].phones
  /\ r.at \in {"look", "activate", "join"} => Sure(r.tenant)

(* What the keys of a tenant say of it.                                       *)
Sound(t) ==
  /\ form[t] = None => contacts[t] = NoList /\ status[t] = "none"
  /\ form[t] # None => Shown(t, contacts[t]) /\ (status[t] = "active" => Sure(t))

(* What a shadow request has copied of a record.                              *)
Copied(c) == /\ form[c.tenant] # None
             /\ c.status = "active" => Sure(c.tenant)

(* The inductive invariant behind PolledIsProven.                             *)
Provenance ==
  /\ \A w \in Workers : Fit(task[w])
  /\ \A t \in Tenants : Sound(t)
  /\ \A p \in Phones : owner[p] # None => form[owner[p]] # None
  /\ proven \subseteq Phones
  /\ \A l \in Loops : copy[l] # None => Copied(copy[l])

-------------------------------------------------------------------------------
(* The idle task and the empty list are of their types.                       *)
LEMMA IdleFacts ==
  /\ NoList \in Lists /\ NoList.listed = {} /\ NoList.verified = {}
  /\ Idle \in Tasks /\ Idle.at = "idle" /\ Idle.tenant = None /\ Idle.phone = None
  /\ Idle.typed = None /\ Idle.left = {} /\ Idle.list = NoList
BY DEF Idle, Tasks, NoList, Lists, Points

(* A worker's request that goes on leaves the others as they are.             *)
LEMMA MoveFacts ==
  ASSUME task \in [Workers -> Tasks], NEW w \in Workers, NEW s \in Tasks,
         task' = [task EXCEPT ![w] = s]
  PROVE  /\ task' \in [Workers -> Tasks]
         /\ task'[w] = s
         /\ \A v \in Workers \ {w} : task'[v] = task[v]
OBVIOUS

(* What a request has established stays established while forms stay and      *)
(* proofs only come in.                                                       *)
LEMMA FitStays ==
  ASSUME NEW r, Fit(r), form' = form, proven \subseteq proven'
  PROVE  Fit(r)'
BY DEF Fit, Shown, Sure

(* A step of worker w from request r: the request it serves then, and what it  *)
(* changes beside it.                                                         *)
Changes(r) ==
  /\ form' = form
  /\ proven \subseteq proven' /\ proven' \subseteq Phones
  /\ \/ status' = status
     \/ r.at = "record" /\ status' = [status EXCEPT ![r.tenant] = InitialStatus(form[r.tenant].channel)]
     \/ r.at = "activate" /\ status' = [status EXCEPT ![r.tenant] = "active"]
  /\ \/ contacts' = contacts
     \/ /\ r.at = "contacts"
        /\ contacts' = [contacts EXCEPT ![r.tenant] =
                          [listed |-> form[r.tenant].phones, verified |-> {}]]
     \/ r.at = "save" /\ contacts' = [contacts EXCEPT ![r.tenant] = r.list]
  /\ \/ owner' = owner
     \/ r.at = "index" /\ \E p \in Phones : owner' = [owner EXCEPT ![p] = r.tenant]
  /\ \/ members' = members
     \/ r.at \in {"enlist", "join"} /\ members' = members \cup {r.tenant}

Steps(w) ==
  /\ \E s \in Tasks : task' = [task EXCEPT ![w] = s] /\ Fit(s)'
  /\ Changes(task[w])
  /\ code' \in [Phones -> Tenants \cup {None}]
  /\ sent' \in [Phones -> SUBSET Tenants]
  /\ hurt' \subseteq Tenants /\ raced' \subseteq Tenants

(* A request keeps the shadow requests' copies, and may return a secret.       *)
LEMMA ServeAside ==
  ASSUME TypeOK, Provenance, NEW w \in Workers, Serve(w) \/ Die(w)
  PROVE  UNCHANGED shadow /\ secrets' \subseteq Tenants
<1>1. secrets \subseteq Tenants
  BY DEF TypeOK
<1>2. task[w].at \in {"enlist", "index", "codes"} => task[w].tenant \in Tenants
  BY DEF Provenance, Fit
<1>3. CASE CreateMember(w) \/ CreateIndex(w) \/ SendCode(w)
  BY <1>1, <1>2, <1>3 DEF CreateMember, CreateIndex, SendCode, Indexing, Answer, At
<1>4. CASE UNCHANGED <<secrets, shadow>>
  BY <1>1, <1>4
<1>. QED
  BY <1>3, <1>4 DEF Serve, Create, Verify, Promote, CreateRecord, CreateContacts, FindTenant,
     Compare, Consume, ReadContacts, SaveContacts, LookUp, Activate, Join, Die

LEMMA ServeFacts ==
  ASSUME TypeOK, Provenance, NEW w \in Workers, Serve(w) \/ Die(w)
  PROVE  Steps(w)
<1>. DEFINE r == task[w]
<1>1. /\ task \in [Workers -> Tasks] /\ r \in Tasks
      /\ r.tenant \in Tenants \cup {None} /\ r.phone \in Phones \cup {None}
      /\ r.left \subseteq Phones /\ r.list \in Lists
      /\ Fit(r)
  BY DEF TypeOK, Tasks, Provenance
<1>2. /\ form \in [Tenants -> Forms \cup {None}]
      /\ contacts \in [Tenants -> Lists]
      /\ owner \in [Phones -> Tenants \cup {None}]
      /\ code \in [Phones -> Tenants \cup {None}]
      /\ sent \in [Phones -> SUBSET Tenants]
      /\ hurt \subseteq Tenants /\ raced \subseteq Tenants /\ proven \subseteq Phones
  BY DEF TypeOK, Provenance
<1>3. ASSUME r.at \notin {"idle", "find"}
      PROVE  /\ r.tenant \in Tenants /\ form[r.tenant] # None
             /\ form[r.tenant] \in Forms
             /\ form[r.tenant].channel \in Channels /\ form[r.tenant].phones \subseteq Phones
  BY <1>1, <1>2, <1>3 DEF Fit, Forms
<1>4. ASSUME NEW at \in Points \ {"idle"}
      PROVE  LET s == [r EXCEPT !.at = at] IN
             /\ s \in Tasks /\ s.at = at /\ s.tenant = r.tenant /\ s.phone = r.phone
             /\ s.left = r.left /\ s.list = r.list
  BY <1>1 DEF Tasks
<1>5. form' = form /\ proven \subseteq proven' => Fit(Idle)'
  BY IdleFacts DEF Fit
<1>6. ASSUME task' = [task EXCEPT ![w] = Idle], form' = form, proven \subseteq proven'
      PROVE  \E s \in Tasks : task' = [task EXCEPT ![w] = s] /\ Fit(s)'
  BY <1>5, <1>6, IdleFacts
<1>7. ASSUME Abandon(w) PROVE hurt' \subseteq Tenants /\ task' = [task EXCEPT ![w] = Idle]
  BY <1>2, <1>7 DEF Abandon, Hurt, Done
<1>8. ASSUME CreateRecord(w) PROVE Steps(w)
  <2>1. r.at = "record" /\ form' = form /\ proven' = proven /\ contacts' = contacts
        /\ owner' = owner /\ members' = members /\ code' = code /\ sent' = sent /\ raced' = raced
    BY <1>8 DEF CreateRecord, At
  <2>2. CASE Abandon(w) /\ status' = status
    BY <1>2, <1>6, <1>7, <2>1, <2>2 DEF Steps, Changes
  <2>3. CASE /\ status' = [status EXCEPT ![r.tenant] = InitialStatus(form[r.tenant].channel)]
             /\ Goto(w, "contacts") /\ hurt' = hurt
    <3>0. PICK s : s = [r EXCEPT !.at = "contacts"]
      OBVIOUS
    <3>1. s \in Tasks /\ s.at = "contacts" /\ s.tenant = r.tenant
      BY <1>4, <3>0 DEF Points
    <3>2. task' = [task EXCEPT ![w] = s]
      BY <3>0, <2>3 DEF Goto
    <3>3. Fit(s)'
      BY <1>3, <2>1, <3>1 DEF Fit
    <3>. QED  BY <1>2, <2>1, <2>3, <3>1, <3>2, <3>3 DEF Steps, Changes
  <2>. QED  BY <1>8, <2>2, <2>3 DEF CreateRecord
<1>9. ASSUME CreateContacts(w) PROVE Steps(w)
  <2>1. r.at = "contacts" /\ form' = form /\ proven' = proven /\ status' = status
        /\ owner' = owner /\ members' = members /\ code' = code /\ sent' = sent /\ raced' = raced
    BY <1>9 DEF CreateContacts, At
  <2>2. CASE Abandon(w) /\ contacts' = contacts
    BY <1>2, <1>6, <1>7, <2>1, <2>2 DEF Steps, Changes
  <2>3. CASE /\ contacts' = [contacts EXCEPT ![r.tenant] =
                               [listed |-> form[r.tenant].phones, verified |-> {}]]
             /\ Goto(w, "enlist") /\ hurt' = hurt
    <3>0. PICK s : s = [r EXCEPT !.at = "enlist"]
      OBVIOUS
    <3>1. s \in Tasks /\ s.at = "enlist" /\ s.tenant = r.tenant
      BY <1>4, <3>0 DEF Points
    <3>2. task' = [task EXCEPT ![w] = s]
      BY <3>0, <2>3 DEF Goto
    <3>3. Fit(s)'
      BY <1>3, <2>1, <3>1 DEF Fit
    <3>. QED  BY <1>2, <2>1, <2>3, <3>1, <3>2, <3>3 DEF Steps, Changes
  <2>. QED  BY <1>9, <2>2, <2>3 DEF CreateContacts
<1>10. ASSUME NEW left \in SUBSET Phones, Indexing(w, left),
              r.at \in {"enlist", "index"}, form' = form, proven' = proven
       PROVE  \E s \in Tasks : task' = [task EXCEPT ![w] = s] /\ Fit(s)'
  <2>. DEFINE next == IF left = {} THEN AfterIndex(form[r.tenant]) ELSE "index"
              rest == IF next = "codes" THEN form[r.tenant].phones ELSE left
  <2>1. /\ next \in {"index", "codes", "read", "idle"}
        /\ next = "read" => form[r.tenant].channel = "wizard"
    BY <1>3, <1>10 DEF AfterIndex, Channels
  <2>2. rest \subseteq Phones
    BY <1>3, <1>10
  <2>3. task' = [task EXCEPT ![w] = IF next = "idle" THEN Idle
                                    ELSE [r EXCEPT !.at = next, !.left = rest]]
    BY <1>10 DEF Indexing
  <2>. HIDE DEF next, rest
  <2>4. PICK s : s = [r EXCEPT !.at = next, !.left = rest]
    OBVIOUS
  <2>5. s \in Tasks /\ s.at = next /\ s.tenant = r.tenant
    BY <1>1, <2>1, <2>2, <2>4 DEF Tasks, Points
  <2>6. Fit(s)' \/ next = "idle"
    BY <1>3, <1>10, <2>1, <2>5 DEF Fit
  <2>7. CASE next = "idle"
    BY <1>5, <1>10, <2>3, <2>7, IdleFacts
  <2>8. CASE next # "idle"
    BY <2>3, <2>4, <2>5, <2>6, <2>8
  <2>. QED  BY <2>7, <2>8
<1>11. ASSUME CreateMember(w) PROVE Steps(w)
  <2>1. r.at = "enlist" /\ form' = form /\ proven' = proven /\ status' = status
        /\ contacts' = contacts /\ owner' = owner /\ code' = code /\ sent' = sent /\ raced' = raced
    BY <1>11 DEF CreateMember, At
  <2>2. CASE Abandon(w) /\ members' = members
    BY <1>2, <1>6, <1>7, <2>1, <2>2 DEF Steps, Changes
  <2>3. CASE members' = members \cup {r.tenant} /\ Indexing(w, form[r.tenant].phones) /\ hurt' = hurt
    BY <1>2, <1>3, <1>10, <2>1, <2>3 DEF Steps, Changes
  <2>. QED  BY <1>11, <2>2, <2>3 DEF CreateMember
<1>12. ASSUME CreateIndex(w) PROVE Steps(w)
  <2>1. r.at = "index" /\ form' = form /\ proven' = proven /\ status' = status
        /\ contacts' = contacts /\ members' = members /\ code' = code /\ sent' = sent /\ raced' = raced
    BY <1>12 DEF CreateIndex, At
  <2>2. CASE Abandon(w) /\ owner' = owner
    BY <1>2, <1>6, <1>7, <2>1, <2>2 DEF Steps, Changes
  <2>3. ASSUME NEW p \in r.left, owner' = [owner EXCEPT ![p] = r.tenant],
               Indexing(w, r.left \ {p}), hurt' = hurt
        PROVE  Steps(w)
    BY <1>1, <1>2, <1>10, <2>1, <2>3 DEF Steps, Changes
  <2>. QED  BY <1>12, <2>2, <2>3 DEF CreateIndex
<1>13. ASSUME SendCode(w) PROVE Steps(w)
  <2>1. r.at = "codes" /\ form' = form /\ proven' = proven /\ status' = status
        /\ contacts' = contacts /\ members' = members /\ owner' = owner /\ raced' = raced
    BY <1>13 DEF SendCode, At
  <2>2. PICK p \in r.left :
          /\ \/ code' = [code EXCEPT ![p] = r.tenant] /\ hurt' = hurt
             \/ Hurt(r.tenant) /\ code' = code
          /\ sent' = [sent EXCEPT ![p] = @ \cup {r.tenant}] \/ sent' = sent
          /\ task' = [task EXCEPT ![w] = IF r.left = {p} THEN Idle ELSE [r EXCEPT !.left = @ \ {p}]]
    BY <1>13 DEF SendCode
  <2>0. PICK go : go = [r EXCEPT !.left = @ \ {p}]
    OBVIOUS
  <2>3. go \in Tasks /\ go.at = "codes" /\ go.tenant = r.tenant
    BY <1>1, <2>0, <2>1 DEF Tasks
  <2>4. Fit(go)'
    BY <1>3, <2>1, <2>3 DEF Fit
  <2>5. \E s \in Tasks : task' = [task EXCEPT ![w] = s] /\ Fit(s)'
    BY <1>5, <2>0, <2>1, <2>2, <2>3, <2>4, IdleFacts
  <2>6. code' \in [Phones -> Tenants \cup {None}] /\ sent' \in [Phones -> SUBSET Tenants]
        /\ hurt' \subseteq Tenants
    BY <1>1, <1>2, <1>3, <2>1, <2>2 DEF Hurt
  <2>. QED  BY <1>2, <2>1, <2>5, <2>6 DEF Steps, Changes
<1>14. ASSUME FindTenant(w) PROVE Steps(w)
  <2>1. /\ r.at = "find" /\ form' = form /\ UNCHANGED <<redis, sent, history>>
        /\ r.phone \in Phones
    BY <1>1, <1>14 DEF FindTenant, At, Fit
  <2>a. PICK t : t = owner[r.phone]
    OBVIOUS
  <2>b. PICK s : s = [r EXCEPT !.at = "compare", !.tenant = t]
    OBVIOUS
  <2>2. t \in Tenants \cup {None} /\ (t # None => t \in Tenants /\ form[t] # None)
    BY <1>2, <2>1, <2>a DEF Provenance
  <2>3. s \in Tasks /\ s.at = "compare" /\ s.tenant = t /\ s.phone = r.phone
    BY <1>1, <2>2, <2>b DEF Tasks, Points
  <2>4. \/ t # None /\ task' = [task EXCEPT ![w] = s]
        \/ task' = [task EXCEPT ![w] = Idle]
    BY <1>14, <2>a, <2>b DEF FindTenant, Done
  <2>5. t # None => Fit(s)'
    BY <2>1, <2>2, <2>3 DEF Fit
  <2>6. \E x \in Tasks : task' = [task EXCEPT ![w] = x] /\ Fit(x)'
    BY <1>5, <2>1, <2>3, <2>4, <2>5, IdleFacts DEF history
  <2>. QED  BY <1>2, <2>1, <2>6 DEF Steps, Changes, redis, history
<1>15. ASSUME Compare(w) PROVE Steps(w)
  <2>1. /\ r.at = "compare" /\ form' = form /\ UNCHANGED <<redis, sent, hurt, raced>>
        /\ r.phone \in Phones
    BY <1>1, <1>15 DEF Compare, At, Fit
  <2>0. PICK s : s = [r EXCEPT !.at = "consume"]
    OBVIOUS
  <2>2. s \in Tasks /\ s.at = "consume" /\ s.tenant = r.tenant /\ s.phone = r.phone
    BY <1>4, <2>0 DEF Points
  <2>3. \/ task' = [task EXCEPT ![w] = s] /\ proven' = proven \cup {r.phone}
        \/ task' = [task EXCEPT ![w] = Idle] /\ proven' = proven
    BY <1>15, <2>0 DEF Compare, Goto, Done
  <2>4. r.phone \in proven' => Fit(s)'
    BY <1>3, <2>1, <2>2 DEF Fit
  <2>5. \E x \in Tasks : task' = [task EXCEPT ![w] = x] /\ Fit(x)'
    BY <1>5, <2>1, <2>2, <2>3, <2>4, IdleFacts
  <2>. QED  BY <1>2, <2>1, <2>3, <2>5 DEF Steps, Changes, redis
<1>16. ASSUME Consume(w) PROVE Steps(w)
  <2>1. /\ r.at = "consume" /\ form' = form /\ proven' = proven /\ status' = status
        /\ contacts' = contacts /\ members' = members /\ owner' = owner /\ raced' = raced
        /\ sent' = sent /\ hurt' = hurt
        /\ r.phone \in proven \/ form[r.tenant].channel = "wizard"
    BY <1>1, <1>16 DEF Consume, At, Fit
  <2>0. PICK s : s = [r EXCEPT !.at = "read"]
    OBVIOUS
  <2>2. s \in Tasks /\ s.at = "read" /\ s.tenant = r.tenant /\ s.phone = r.phone
    BY <1>4, <2>0 DEF Points
  <2>3. /\ task' = [task EXCEPT ![w] = s] \/ task' = [task EXCEPT ![w] = Idle]
        /\ code' \in {code, [code EXCEPT ![r.phone] = None]}
    BY <1>16, <2>0 DEF Consume, Goto, Done
  <2>4. Fit(s)'
    BY <1>3, <2>1, <2>2 DEF Fit
  <2>5. \E x \in Tasks : task' = [task EXCEPT ![w] = x] /\ Fit(x)'
    BY <1>5, <2>1, <2>2, <2>3, <2>4, IdleFacts
  <2>6. code' \in [Phones -> Tenants \cup {None}]
    BY <1>2, <2>3
  <2>. QED  BY <1>2, <2>1, <2>5, <2>6 DEF Steps, Changes
<1>17. ASSUME ReadContacts(w) PROVE Steps(w)
  <2>1. /\ r.at = "read" /\ form' = form /\ UNCHANGED <<redis, sent>> /\ proven' = proven
        /\ r.phone \in proven \/ form[r.tenant].channel = "wizard"
        /\ r.tenant \in Tenants /\ form[r.tenant] # None
    BY <1>1, <1>17 DEF ReadContacts, At, Fit
  <2>2. Shown(r.tenant, contacts[r.tenant]) /\ Shown(r.tenant, NoList)
    BY <2>1, IdleFacts DEF Provenance, Sound, Shown
  <2>3. ASSUME NEW list \in Lists, Shown(r.tenant, list), ToMark(r, list),
               task' = [task EXCEPT ![w].at = "save", ![w].list = Marked(r, list)]
        PROVE  \E s \in Tasks : task' = [task EXCEPT ![w] = s] /\ Fit(s)'
    <3>. DEFINE marked == Marked(r, list)
    <3>1. list.listed \subseteq Phones /\ list.verified \subseteq list.listed
      BY DEF Lists
    <3>2. /\ marked \in Lists /\ marked.listed = list.listed
          /\ marked.verified \subseteq list.verified \cup {r.phone} \/ r.phone = None
      <4>1. list \in [listed : SUBSET Phones, verified : SUBSET Phones]
        BY DEF Lists
      <4>2. CASE r.phone = None
        BY <3>1, <4>1, <4>2 DEF Marked, Lists
      <4>3. CASE r.phone # None
        BY <2>3, <3>1, <4>1, <4>3 DEF Marked, Lists, ToMark
      <4>. QED  BY <4>2, <4>3
    <3>. HIDE DEF marked
    <3>0. PICK s : s = [r EXCEPT !.at = "save", !.list = marked]
      OBVIOUS
    <3>3. s \in Tasks /\ s.at = "save" /\ s.tenant = r.tenant /\ s.phone = r.phone
          /\ s.list = marked
      BY <1>1, <3>0, <3>2 DEF Tasks, Points
    <3>4. task' = [task EXCEPT ![w] = s]
      BY <2>3, <3>0 DEF marked
    <3>5. form[r.tenant].channel = "whatsapp" =>
            /\ marked.listed = form[r.tenant].phones
            /\ marked.verified \subseteq proven
      <4>. SUFFICES ASSUME form[r.tenant].channel = "whatsapp"
                    PROVE  /\ marked.listed = form[r.tenant].phones
                           /\ marked.verified \subseteq proven
        OBVIOUS
      <4>1. r.phone \in proven /\ r.phone # None
        BY <1>2, <2>1, NoneAssumption
      <4>2. r.phone \in list.listed
        BY <2>3, <4>1 DEF ToMark
      <4>. QED  BY <2>3, <3>2, <4>1, <4>2 DEF Shown
    <3>6. Fit(s)'
      BY <2>1, <3>3, <3>5 DEF Fit, Shown
    <3>. QED  BY <3>3, <3>4, <3>6
  <2>4. contacts[r.tenant] \in Lists /\ NoList \in Lists
    BY <1>2, <2>1, IdleFacts
  <2>5. \E x \in Tasks : task' = [task EXCEPT ![w] = x] /\ Fit(x)'
    <3>1. CASE task' = [task EXCEPT ![w] = Idle]
      BY <1>5, <2>1, <3>1, IdleFacts
    <3>2. ASSUME NEW list \in {contacts[r.tenant], NoList}, ToMark(r, list),
                 task' = [task EXCEPT ![w].at = "save", ![w].list = Marked(r, list)]
          PROVE  \E x \in Tasks : task' = [task EXCEPT ![w] = x] /\ Fit(x)'
      BY <2>2, <2>3, <2>4, <3>2
    <3>. QED  BY <1>17, <3>1, <3>2 DEF ReadContacts, Done
  <2>6. hurt' \subseteq Tenants /\ raced' \subseteq Tenants
    BY <1>2, <1>17, <2>1 DEF ReadContacts, Hurt
  <2>. QED  BY <1>2, <2>1, <2>5, <2>6 DEF Steps, Changes, redis
<1>18. ASSUME SaveContacts(w) PROVE Steps(w)
  <2>1. /\ r.at = "save" /\ form' = form /\ proven' = proven /\ status' = status
        /\ members' = members /\ owner' = owner /\ code' = code /\ sent' = sent /\ raced' = raced
        /\ r.tenant \in Tenants /\ form[r.tenant] # None
    BY <1>1, <1>18 DEF SaveContacts, At, Fit
  <2>2. /\ contacts' = contacts \/ contacts' = [contacts EXCEPT ![r.tenant] = r.list]
        /\ hurt' = hurt \/ Hurt(r.tenant)
        /\ task' = [task EXCEPT ![w] =
             IF r.list.verified = r.list.listed THEN ToActivate(r.tenant) ELSE Idle]
    BY <1>18 DEF SaveContacts
  <2>0. PICK s : s = ToActivate(r.tenant)
    OBVIOUS
  <2>3. s \in Tasks /\ s.at = "look" /\ s.tenant = r.tenant
    BY <2>0, <2>1, IdleFacts DEF ToActivate, Tasks, Points
  <2>4. r.list.verified = r.list.listed => Fit(s)'
    <3>1. r.list.verified = r.list.listed => Sure(r.tenant)
      BY <1>1, <2>1 DEF Fit, Shown, Sure
    <3>. QED  BY <2>1, <2>3, <3>1 DEF Fit, Sure
  <2>5. \E x \in Tasks : task' = [task EXCEPT ![w] = x] /\ Fit(x)'
    BY <1>5, <2>0, <2>1, <2>2, <2>3, <2>4, IdleFacts
  <2>6. hurt' \subseteq Tenants
    BY <1>2, <2>2 DEF Hurt
  <2>. QED  BY <1>2, <2>1, <2>2, <2>5, <2>6 DEF Steps, Changes
<1>19. ASSUME LookUp(w) PROVE Steps(w)
  <2>1. /\ r.at = "look" /\ form' = form /\ UNCHANGED <<redis, sent>> /\ proven' = proven
        /\ raced' = raced /\ Sure(r.tenant)
    BY <1>1, <1>19 DEF LookUp, At, Fit
  <2>2. CASE Abandon(w)
    BY <1>2, <1>6, <1>7, <2>1, <2>2 DEF Steps, Changes, redis
  <2>3. CASE Goto(w, "activate") /\ hurt' = hurt
    <3>0. PICK s : s = [r EXCEPT !.at = "activate"]
      OBVIOUS
    <3>1. s \in Tasks /\ s.at = "activate" /\ s.tenant = r.tenant
      BY <1>4, <3>0 DEF Points
    <3>2. task' = [task EXCEPT ![w] = s]
      BY <3>0, <2>3 DEF Goto
    <3>3. Fit(s)'
      BY <1>3, <2>1, <3>1 DEF Fit, Sure
    <3>. QED  BY <1>2, <2>1, <2>3, <3>1, <3>2, <3>3 DEF Steps, Changes, redis
  <2>. QED  BY <1>19, <2>2, <2>3 DEF LookUp
<1>20. ASSUME Activate(w) PROVE Steps(w)
  <2>1. /\ r.at = "activate" /\ form' = form /\ proven' = proven /\ contacts' = contacts
        /\ owner' = owner /\ members' = members /\ code' = code /\ sent' = sent /\ raced' = raced
        /\ Sure(r.tenant)
    BY <1>1, <1>20 DEF Activate, At, Fit
  <2>2. CASE Abandon(w) /\ status' = status
    BY <1>2, <1>6, <1>7, <2>1, <2>2 DEF Steps, Changes
  <2>3. CASE status' = [status EXCEPT ![r.tenant] = "active"] /\ Goto(w, "join") /\ hurt' = hurt
    <3>0. PICK s : s = [r EXCEPT !.at = "join"]
      OBVIOUS
    <3>1. s \in Tasks /\ s.at = "join" /\ s.tenant = r.tenant
      BY <1>4, <3>0 DEF Points
    <3>2. task' = [task EXCEPT ![w] = s]
      BY <3>0, <2>3 DEF Goto
    <3>3. Fit(s)'
      BY <1>3, <2>1, <3>1 DEF Fit, Sure
    <3>. QED  BY <1>2, <2>1, <2>3, <3>1, <3>2, <3>3 DEF Steps, Changes
  <2>. QED  BY <1>20, <2>2, <2>3 DEF Activate
<1>21. ASSUME Join(w) PROVE Steps(w)
  <2>1. /\ r.at = "join" /\ form' = form /\ proven' = proven /\ status' = status
        /\ contacts' = contacts /\ owner' = owner /\ code' = code /\ sent' = sent /\ raced' = raced
        /\ task' = [task EXCEPT ![w] = Idle]
        /\ hurt' = hurt \/ hurt' \subseteq Tenants
        /\ members' = members \/ members' = members \cup {r.tenant}
    BY <1>7, <1>21 DEF Join, At, Done
  <2>. QED  BY <1>2, <1>6, <2>1 DEF Steps, Changes
<1>22. ASSUME Die(w) PROVE Steps(w)
  <2>1. /\ form' = form /\ proven' = proven /\ UNCHANGED <<redis, sent>> /\ raced' = raced
        /\ Abandon(w)
    BY <1>22 DEF Die
  <2>. QED  BY <1>2, <1>6, <1>7, <2>1 DEF Steps, Changes, redis
<1>. QED
  BY <1>8, <1>9, <1>11, <1>12, <1>13, <1>14, <1>15, <1>16, <1>17, <1>18, <1>19, <1>20,
     <1>21, <1>22 DEF Serve, Create, Verify, Promote

-------------------------------------------------------------------------------
(* Types and provenance.                                                      *)

(* Nothing is registered at first.                                            *)
LEMMA InitProvenance == Init => TypeOK /\ Provenance
<1>. SUFFICES ASSUME Init PROVE TypeOK /\ Provenance
  OBVIOUS
<1>1. TypeOK
  BY IdleFacts DEF Init, TypeOK
<1>2. Provenance
  BY IdleFacts DEF Init, Provenance, Fit, Sound
<1>. QED  BY <1>1, <1>2

(* What a step of a worker may do to a tenant's keys, and to the numbers'      *)
(* owners, leaves them sound.                                                 *)
LEMMA ServeProvenance ==
  ASSUME TypeOK, Provenance, NEW w \in Workers, Steps(w),
         UNCHANGED shadow, secrets' \subseteq Tenants
  PROVE  TypeOK' /\ Provenance'
<1>. DEFINE r == task[w]
<1>1. PICK s \in Tasks : task' = [task EXCEPT ![w] = s] /\ Fit(s)'
  BY DEF Steps
<1>2. /\ task' \in [Workers -> Tasks] /\ task'[w] = s
      /\ \A v \in Workers \ {w} : task'[v] = task[v]
  BY <1>1, MoveFacts DEF TypeOK
<1>3. Changes(r)
  BY DEF Steps
<1>4. r \in Tasks /\ r.list \in Lists /\ r.list.verified \subseteq r.list.listed /\ Fit(r)
  BY DEF TypeOK, Tasks, Provenance, Lists
<1>5. \A v \in Workers : Fit(task[v])'
  <2>1. ASSUME NEW v \in Workers \ {w} PROVE Fit(task[v])'
    <3>1. PICK x : x = task[v]
      OBVIOUS
    <3>2. Fit(x)'
      BY <1>3, <3>1, FitStays DEF Provenance, Changes
    <3>. QED  BY <1>2, <3>1, <3>2 DEF Fit, Shown, Sure
  <2>. QED  BY <1>1, <1>2, <2>1 DEF Fit, Shown, Sure
<1>6. ASSUME NEW t \in Tenants PROVE Sound(t)'
  <2>1. Sound(t) /\ form' = form /\ proven \subseteq proven'
    BY <1>3 DEF Provenance, Changes
  <2>2. ASSUME form[t] = None PROVE contacts'[t] = NoList /\ status'[t] = "none"
    <3>1. r.at \in {"record", "contacts", "save", "activate"} => r.tenant # t
      BY <1>4, <2>2 DEF Fit
    <3>. QED  BY <1>3, <2>1, <2>2, <3>1 DEF Changes, Sound, TypeOK
  <2>3. ASSUME form[t] # None, form[t].channel = "whatsapp"
        PROVE  /\ contacts'[t].listed \in {{}, form[t].phones}
               /\ contacts'[t].verified \subseteq proven'
               /\ status'[t] = "active" => form[t].phones \subseteq proven'
    <3>1. /\ contacts[t].listed \in {{}, form[t].phones}
          /\ contacts[t].verified \subseteq proven
          /\ status[t] = "active" => form[t].phones \subseteq proven
      BY <2>1, <2>3 DEF Sound, Shown, Sure
    <3>2. contacts'[t].listed \in {{}, form[t].phones} /\ contacts'[t].verified \subseteq proven
      <4>1. CASE contacts'[t] = contacts[t]
        BY <3>1, <4>1
      <4>2. CASE contacts'[t] = [listed |-> form[t].phones, verified |-> {}]
        BY <4>2
      <4>3. CASE r.at = "save" /\ r.tenant = t /\ contacts'[t] = r.list
        BY <1>4, <2>3, <4>3 DEF Fit, Shown
      <4>. QED  BY <1>3, <4>1, <4>2, <4>3 DEF Changes, TypeOK
    <3>3. status'[t] = "active" => form[t].phones \subseteq proven
      <4>1. CASE status'[t] = status[t]
        BY <3>1, <4>1
      <4>2. CASE status'[t] = InitialStatus(form[t].channel)
        BY <2>3, <4>2 DEF InitialStatus
      <4>3. CASE r.at = "activate" /\ r.tenant = t
        BY <1>4, <2>3, <4>3 DEF Fit, Sure
      <4>. QED  BY <1>3, <4>1, <4>2, <4>3 DEF Changes, TypeOK
    <3>. QED  BY <2>1, <3>2, <3>3
  <2>. QED  BY <2>1, <2>2, <2>3 DEF Sound, Shown, Sure
<1>7. ASSUME NEW p \in Phones, owner'[p] # None PROVE form'[owner'[p]] # None
  <2>1. r.at = "index" => r.tenant \in Tenants /\ form[r.tenant] # None
    BY <1>4 DEF Fit
  <2>. QED  BY <1>3, <1>7, <2>1 DEF Changes, Provenance, TypeOK
<1>a. \A l \in Loops : copy'[l] # None => Copied(copy[l])'
  BY <1>3 DEF shadow, Provenance, Changes, Copied, Sure
<1>8. Provenance'
  BY <1>3, <1>5, <1>6, <1>7, <1>a DEF Provenance, Changes
<1>9. /\ form' \in [Tenants -> Forms \cup {None}]
      /\ proven' \subseteq Phones
  BY <1>3 DEF Changes, TypeOK
<1>10. status' \in [Tenants -> {"none", "pending_verification", "active"}]
  <2>1. \A c : InitialStatus(c) \in {"pending_verification", "active"}
    BY DEF InitialStatus
  <2>. QED  BY <1>3, <2>1 DEF Changes, TypeOK
<1>11. contacts' \in [Tenants -> Lists]
  <2>1. r.at = "contacts" => [listed |-> form[r.tenant].phones, verified |-> {}] \in Lists
    BY <1>4 DEF Fit, TypeOK, Forms, Lists
  <2>. QED  BY <1>3, <1>4, <2>1 DEF Changes, TypeOK
<1>12. members' \subseteq Tenants /\ owner' \in [Phones -> Tenants \cup {None}]
  <2>1. r.at \in {"index", "enlist", "join"} => r.tenant \in Tenants
    BY <1>4 DEF Fit
  <2>. QED  BY <1>3, <2>1 DEF Changes, TypeOK
<1>13. /\ code' \in [Phones -> Tenants \cup {None}]
       /\ sent' \in [Phones -> SUBSET Tenants]
       /\ hurt' \cup raced' \cup undone' \cup secrets' \subseteq Tenants
       /\ copy' \in [Loops -> Copies \cup {None}]
  BY DEF Steps, shadow, TypeOK
<1>. QED  BY <1>2, <1>8, <1>9, <1>10, <1>11, <1>12, <1>13 DEF TypeOK

(* A registration gives a fresh tenant its form, which nobody has served yet.  *)
LEMMA RegisterProvenance ==
  ASSUME TypeOK, Provenance, NEW w \in Workers, NEW t \in Tenants, NEW f \in Forms,
         Register(w, t, f)
  PROVE  TypeOK' /\ Provenance'
<1>1. /\ form[t] = None /\ form' = [form EXCEPT ![t] = f]
      /\ UNCHANGED <<secrets, shadow, redis, sent, history>>
      /\ f # None
  BY NoneAssumption DEF Register
<1>2. PICK s : s = [Idle EXCEPT !.at = "record", !.tenant = t]
  OBVIOUS
<1>3. s \in Tasks /\ s.at = "record" /\ s.tenant = t
  BY <1>2, IdleFacts DEF Tasks, Points
<1>4. task' = [task EXCEPT ![w] = s]
  BY <1>2 DEF Register
<1>5. /\ task' \in [Workers -> Tasks] /\ task'[w] = s
      /\ \A v \in Workers \ {w} : task'[v] = task[v]
  BY <1>3, <1>4, MoveFacts DEF TypeOK
<1>6. form'[t] = f /\ \A u \in Tenants \ {t} : form'[u] = form[u]
  BY <1>1 DEF TypeOK
<1>7. TypeOK'
  BY <1>1, <1>5 DEF TypeOK, shadow, redis, history
<1>8. \A v \in Workers : Fit(task[v])'
  <2>1. Fit(task[w])'
    BY <1>1, <1>3, <1>5, <1>6 DEF Fit
  <2>2. ASSUME NEW v \in Workers \ {w} PROVE Fit(task[v])'
    <3>1. task'[v] = task[v] /\ Fit(task[v]) /\ task[v] \in Tasks
      BY <1>5 DEF Provenance, TypeOK
    <3>2. task[v].at \notin {"idle", "find"} =>
            task[v].tenant \in Tenants /\ form'[task[v].tenant] = form[task[v].tenant]
      BY <1>1, <1>6, <3>1 DEF Fit
    <3>3. proven' = proven
      BY <1>1 DEF history
    <3>. QED  BY <3>1, <3>2, <3>3 DEF Fit, Shown, Sure
  <2>. QED  BY <2>1, <2>2
<1>9. ASSUME NEW u \in Tenants PROVE Sound(u)'
  <2>1. contacts' = contacts /\ status' = status /\ proven' = proven
    BY <1>1 DEF redis, history
  <2>2. CASE u = t
    <3>1. contacts[t] = NoList /\ status[t] = "none"
      BY <1>1 DEF Provenance, Sound
    <3>. QED  BY <1>1, <1>6, <2>1, <2>2, <3>1, IdleFacts DEF Sound, Shown
  <2>3. CASE u # t
    BY <1>6, <2>1, <2>3 DEF Provenance, Sound, Shown, Sure
  <2>. QED  BY <2>2, <2>3
<1>10. \A p \in Phones : owner'[p] # None => form'[owner'[p]] # None
  BY <1>1, <1>6 DEF Provenance, redis, TypeOK
<1>11. \A l \in Loops : copy'[l] # None => Copied(copy[l])'
  <2>. SUFFICES ASSUME NEW l \in Loops, copy[l] # None PROVE Copied(copy[l])'
    BY <1>1 DEF shadow
  <2>1. /\ copy'[l] = copy[l] /\ Copied(copy[l]) /\ copy[l].tenant \in Tenants
        /\ proven' = proven
    BY <1>1 DEF shadow, history, Provenance, TypeOK, Copies
  <2>2. form'[copy[l].tenant] = form[copy[l].tenant]
    BY <1>1, <1>6, <2>1 DEF Copied
  <2>. QED  BY <2>1, <2>2 DEF Copied, Sure
<1>. QED  BY <1>1, <1>7, <1>8, <1>9, <1>10, <1>11 DEF Provenance, history

(* A copy of a sound record is sound, and so is a record that one is written   *)
(* over.                                                                      *)
LEMMA ShadowProvenance ==
  ASSUME TypeOK, Provenance, NEW l \in Loops,
         (\E t \in Tenants : ReadRecord(l, t)) \/ WriteRecord(l) \/ DropRecord(l)
  PROVE  TypeOK' /\ Provenance'
<1>1. /\ UNCHANGED <<form, secrets, contacts, members, owner, code, sent, task, history>>
      /\ \A v \in Workers : Fit(task[v])
      /\ \A t \in Tenants : Sound(t)
      /\ \A k \in Loops : copy[k] # None => Copied(copy[k])
  BY DEF ReadRecord, WriteRecord, DropRecord, redis, Provenance
<1>2. \A v \in Workers : Fit(task[v])'
  BY <1>1 DEF history, Fit, Shown, Sure
<1>3. ASSUME \A t \in Tenants : Sound(t)',
             \A k \in Loops : copy'[k] # None => Copied(copy'[k])
      PROVE  Provenance'
  BY <1>1, <1>2, <1>3 DEF Provenance, Copied, Sure, history
<1>4. ASSUME NEW t \in Tenants, ReadRecord(l, t)
      PROVE  TypeOK' /\ Provenance'
  <2>1. PICK c : c = [tenant |-> t, status |-> status[t]]
    OBVIOUS
  <2>2. /\ copy' = [copy EXCEPT ![l] = c] /\ status[t] # "none"
        /\ status' = status /\ undone' = undone
    BY <1>4, <2>1 DEF ReadRecord, redis
  <2>3. c \in Copies
    BY <2>1, <2>2 DEF TypeOK, Copies
  <2>4. c.tenant = t /\ c.status = status[t]
    BY <2>1
  <2>5. Copied(c)
    BY <1>1, <2>2, <2>4 DEF Sound, Copied
  <2>6. \A t_1 \in Tenants : Sound(t_1)'
    BY <1>1, <2>2 DEF Sound, Shown, Sure, history
  <2>7. \A k \in Loops : copy'[k] # None => Copied(copy'[k])
    BY <1>1, <2>2, <2>5 DEF TypeOK
  <2>8. copy' \in [Loops -> Copies \cup {None}]
    BY <2>2, <2>3 DEF TypeOK
  <2>. QED  BY <1>1, <1>3, <2>2, <2>6, <2>7, <2>8 DEF TypeOK, history
<1>5. ASSUME WriteRecord(l)
      PROVE  TypeOK' /\ Provenance'
  <2>1. PICK c : c = copy[l]
    OBVIOUS
  <2>2. /\ c # None /\ c \in Copies /\ Copied(c)
        /\ c.tenant \in Tenants /\ c.status \in {"pending_verification", "active"}
    BY <1>1, <1>5, <2>1 DEF WriteRecord, TypeOK, Copies
  <2>3. /\ status' = [status EXCEPT ![c.tenant] = c.status]
        /\ undone' \subseteq undone \cup {c.tenant}
        /\ copy' = [copy EXCEPT ![l] = None]
    BY <1>5, <2>1 DEF WriteRecord
  <2>4. ASSUME NEW t \in Tenants PROVE Sound(t)'
    <3>1. status'[t] = IF t = c.tenant THEN c.status ELSE status[t]
      BY <2>2, <2>3 DEF TypeOK
    <3>. QED  BY <1>1, <2>2, <3>1 DEF Sound, Shown, Sure, Copied, history
  <2>5. \A k \in Loops : copy'[k] # None => Copied(copy'[k])
    BY <1>1, <2>3 DEF TypeOK
  <2>. QED  BY <1>1, <1>3, <2>2, <2>3, <2>4, <2>5 DEF TypeOK, history
<1>6. ASSUME DropRecord(l)
      PROVE  TypeOK' /\ Provenance'
  <2>1. copy' = [copy EXCEPT ![l] = None] /\ status' = status /\ undone' = undone
    BY <1>6 DEF DropRecord, redis
  <2>2. \A t \in Tenants : Sound(t)'
    BY <1>1, <2>1 DEF Sound, Shown, Sure, history
  <2>3. \A k \in Loops : copy'[k] # None => Copied(copy'[k])
    BY <1>1, <2>1 DEF TypeOK
  <2>. QED  BY <1>1, <1>3, <2>1, <2>2, <2>3 DEF TypeOK, history
<1>. QED  BY <1>4, <1>5, <1>6

(* Every step keeps the types and what is known of tenants and requests.      *)
LEMMA NextProvenance == TypeOK /\ Provenance /\ [Next]_vars => TypeOK' /\ Provenance'
<1>. SUFFICES ASSUME TypeOK, Provenance, [Next]_vars PROVE TypeOK' /\ Provenance'
  OBVIOUS
<1>1. ASSUME NEW w \in Workers, Serve(w) \/ Die(w) PROVE TypeOK' /\ Provenance'
  BY <1>1, ServeFacts, ServeAside, ServeProvenance
<1>2. ASSUME NEW w \in Workers, NEW t \in Tenants, NEW f \in Forms, Register(w, t, f)
      PROVE  TypeOK' /\ Provenance'
  BY <1>2, RegisterProvenance
<1>3. ASSUME NEW w \in Workers, NEW p \in Phones, NEW typed \in sent[p] \cup {None},
             Post(w, p, typed)
      PROVE  TypeOK' /\ Provenance'
  <2>1. PICK s : s = [Idle EXCEPT !.at = "find", !.phone = p, !.typed = typed]
    OBVIOUS
  <2>2. s \in Tasks /\ s.at = "find" /\ s.phone = p
    <3>1. typed \in Tenants \cup {None}
      BY DEF TypeOK
    <3>. QED  BY <2>1, <3>1, IdleFacts DEF Tasks, Points
  <2>3. /\ task' = [task EXCEPT ![w] = s] /\ Fit(s)'
        /\ form' = form /\ UNCHANGED <<secrets, shadow, redis>> /\ sent' = sent
        /\ proven' = proven /\ raced' = raced /\ hurt' = hurt
    BY <1>3, <2>1, <2>2 DEF Post, Fit
  <2>4. Steps(w)
    BY <2>2, <2>3 DEF Steps, Changes, redis, TypeOK, Provenance
  <2>5. secrets' \subseteq Tenants
    BY <2>3 DEF TypeOK
  <2>. QED  BY <2>3, <2>4, <2>5, ServeProvenance
<1>4. ASSUME NEW p \in Phones, CodeExpires(p) PROVE TypeOK' /\ Provenance'
  BY <1>4 DEF CodeExpires, shadow, history, TypeOK, Provenance, Fit, Sound, Shown, Sure, Copied
<1>5. CASE UNCHANGED vars
  BY <1>5 DEF vars, shadow, redis, history, TypeOK, Provenance, Fit, Sound, Shown, Sure, Copied
<1>6. ASSUME NEW l \in Loops,
             (\E t \in Tenants : ReadRecord(l, t)) \/ WriteRecord(l) \/ DropRecord(l)
      PROVE  TypeOK' /\ Provenance'
  BY <1>6, ShadowProvenance
<1>. QED  BY <1>1, <1>2, <1>3, <1>4, <1>5, <1>6 DEF Next

(* Type correctness of Tenants, for any number of requests, tenants, numbers  *)
(* and failures.                                                              *)
THEOREM TenantsTypeCorrect == Spec => []TypeOK
BY InitProvenance, NextProvenance, PTL DEF Spec

(* tenants.py's promise: however requests overlap, whatever number is          *)
(* registered for several tenants and whatever fails, a tenant of a channel    *)
(* with verification is polled only after each of its numbers was proven.      *)
THEOREM PolledIsProvenCorrect == Spec => []PolledIsProven
<1>1. TypeOK /\ Provenance => PolledIsProven
  BY DEF TypeOK, Provenance, Sound, Sure, PolledIsProven, Polled
<1>. QED  BY <1>1, InitProvenance, NextProvenance, PTL DEF Spec

-------------------------------------------------------------------------------
(* A tenant whose codes were all accepted is polled.                          *)

Early == {"record", "contacts", "enlist"}

EarlyFor(w, t)   == task[w].tenant = t /\ task[w].at \in Early
Saving(w, t)     == task[w].tenant = t /\ task[w].at = "save"
Marking(w, t, p) == /\ task[w].tenant = t /\ task[w].at \in {"read", "save"}
                    /\ task[w].phone = p
Promoting(w, t)  == task[w].tenant = t /\ task[w].at \in {"look", "activate"}

(* Until its registration has enlisted it, nobody else serves a tenant, and no *)
(* code of it is accepted.                                                    *)
Fresh ==
  /\ \A w \in Workers :
       LET r == task[w] IN
       /\ r.at \in {"idle", "find"} => r.tenant = None
       /\ r.at \in Early =>
            /\ \A v \in Workers \ {w} : task[v].tenant # r.tenant
            /\ \A p \in Phones : owner[p] # r.tenant /\ <<r.tenant, p>> \notin accepted
       /\ r.at = "enlist" =>
            contacts[r.tenant] = [listed |-> form[r.tenant].phones, verified |-> {}]
  /\ \A t \in Tenants : form[t] = None => \A p \in Phones : <<t, p>> \notin accepted

(* From then on every accepted number is verified or about to be, one request  *)
(* at most holds a list to save, made from the list that is stored, and a      *)
(* tenant all of whose numbers are verified is active, was, or is about to be. *)
Live(t) ==
  form[t] # None /\ t \notin raced \cup hurt /\ (\A w \in Workers : ~EarlyFor(w, t)) =>
    /\ t \in members
    /\ contacts[t].listed = form[t].phones
    /\ \A p \in form[t].phones :
         <<t, p>> \in accepted =>
           p \in contacts[t].verified \/ \E w \in Workers : Marking(w, t, p)
    /\ \A w \in Workers : Saving(w, t) => task[w].list = Marked(task[w], contacts[t])
    /\ \A v, w \in Workers : Saving(v, t) /\ Saving(w, t) => v = w
    /\ contacts[t].verified = contacts[t].listed /\ form[t].phones # {} =>
         t \in undone \/ status[t] = "active" \/ \E w \in Workers : Promoting(w, t)

(* A step that keeps a tenant's contacts, leaves no list to save and hands on  *)
(* whatever was about to be done keeps the tenant alive.                      *)
LEMMA Steady ==
  ASSUME NEW w \in Workers, NEW t \in Tenants, Live(t), form'[t] = form[t],
         \A v \in Workers \ {w} : task'[v] = task[v],
         contacts'[t] = contacts[t],
         t \in members => t \in members',
         raced \subseteq raced', hurt \subseteq hurt', undone \subseteq undone',
         status[t] = "active" => status'[t] = "active",
         EarlyFor(w, t) => EarlyFor(w, t)' \/ t \in hurt',
         ~Saving(w, t)',
         \A p \in form[t].phones : Marking(w, t, p) => Marking(w, t, p)' \/ t \in hurt',
         \A p \in form[t].phones :
           <<t, p>> \in accepted' => <<t, p>> \in accepted \/ Marking(w, t, p)',
         Promoting(w, t) => Promoting(w, t)' \/ status'[t] = "active" \/ t \in hurt'
  PROVE  Live(t)'
<1>. SUFFICES ASSUME form[t] # None, t \notin raced' \cup hurt',
                     \A v \in Workers : ~EarlyFor(v, t)'
              PROVE  Live(t)'
  BY DEF Live
<1>1. \A v \in Workers : ~EarlyFor(v, t)
  BY DEF EarlyFor
<1>2. /\ t \in members
      /\ contacts[t].listed = form[t].phones
      /\ \A p \in form[t].phones :
           <<t, p>> \in accepted =>
             p \in contacts[t].verified \/ \E v \in Workers : Marking(v, t, p)
      /\ \A v \in Workers : Saving(v, t) => task[v].list = Marked(task[v], contacts[t])
      /\ \A u, v \in Workers : Saving(u, t) /\ Saving(v, t) => u = v
      /\ contacts[t].verified = contacts[t].listed /\ form[t].phones # {} =>
           t \in undone \/ status[t] = "active" \/ \E v \in Workers : Promoting(v, t)
  BY <1>1 DEF Live
<1>3. /\ \A v \in Workers \ {w} : Saving(v, t)' = Saving(v, t) /\ Promoting(v, t)' = Promoting(v, t)
      /\ \A v \in Workers \ {w} : \A p \in form[t].phones : Marking(v, t, p)' = Marking(v, t, p)
  BY DEF Saving, Promoting, Marking
<1>4. \A p \in form[t].phones :
        <<t, p>> \in accepted' =>
          p \in contacts[t].verified \/ \E v \in Workers : Marking(v, t, p)'
  BY <1>2, <1>3
<1>5. \A v \in Workers : Saving(v, t)' => v \in Workers \ {w}
  OBVIOUS
<1>6. /\ \A v \in Workers : Saving(v, t)' => task'[v].list = Marked(task'[v], contacts[t])
      /\ \A u, v \in Workers : Saving(u, t)' /\ Saving(v, t)' => u = v
  BY <1>2, <1>3, <1>5
<1>7. contacts[t].verified = contacts[t].listed /\ form[t].phones # {} =>
        t \in undone' \/ status'[t] = "active" \/ \E v \in Workers : Promoting(v, t)'
  BY <1>2, <1>3
<1>. QED  BY <1>2, <1>4, <1>6, <1>7 DEF Live, Marked

(* What a step of a worker means to the tenant it serves.                      *)
Path(r, s) ==
  /\ \/ s.tenant \in {None, r.tenant}
     \/ r.at = "find" /\ s.at = "compare" /\ s.tenant = owner[r.phone]
  /\ s.at \in {"idle", "find"} => s.tenant = None
  /\ s.at \in Early => r.at \in Early /\ s.tenant = r.tenant
  /\ s.at = "enlist" =>
       contacts'[r.tenant] = [listed |-> form[r.tenant].phones, verified |-> {}]
  /\ \/ accepted' = accepted
     \/ r.at = "consume" /\ accepted' = accepted \cup {<<r.tenant, r.phone>>}
  /\ hurt \subseteq hurt' /\ raced \subseteq raced'

(* A request that is at its next point, and one that has ended.                *)
LEMMA GotoFacts ==
  ASSUME TypeOK, NEW w \in Workers, NEW point, Goto(w, point)
  PROVE  /\ task'[w].at = point /\ task'[w].tenant = task[w].tenant
         /\ task'[w].phone = task[w].phone /\ task'[w].list = task[w].list
BY DEF TypeOK, Tasks, Goto

LEMMA DoneFacts ==
  ASSUME TypeOK, NEW w \in Workers, task' = [task EXCEPT ![w] = Idle]
  PROVE  task'[w].at = "idle" /\ task'[w].tenant = None
BY IdleFacts DEF TypeOK

LEMMA IndexingFacts ==
  ASSUME TypeOK, NEW w \in Workers, NEW left, Indexing(w, left),
         form[task[w].tenant] \in Forms
  PROVE  \/ task'[w].at \in {"index", "codes", "read"} /\ task'[w].tenant = task[w].tenant
         \/ task'[w].at = "idle" /\ task'[w].tenant = None
<1>. DEFINE t == task[w].tenant
            next == IF left = {} THEN AfterIndex(form[t]) ELSE "index"
            rest == IF next = "codes" THEN form[t].phones ELSE left
<1>1. next \in {"index", "codes", "read", "idle"}
  BY DEF AfterIndex, Forms, Channels
<1>2. task'[w] = IF next = "idle" THEN Idle ELSE [task[w] EXCEPT !.at = next, !.left = rest]
  BY DEF Indexing, TypeOK
<1>. HIDE DEF next, rest
<1>. QED  BY <1>1, <1>2, IdleFacts DEF TypeOK, Tasks

(* Every step of a worker keeps the tenant it serves alive.                    *)
LEMMA ServeLive ==
  ASSUME TypeOK, Provenance, Fresh, \A t \in Tenants : Live(t),
         NEW w \in Workers, Serve(w) \/ Die(w),
         NEW t, t = task[w].tenant
  PROVE  Path(task[w], task'[w]) /\ (t \in Tenants => Live(t)')
<1>. DEFINE r == task[w]
            s == task'[w]
            Goal == Path(r, s) /\ (t \in Tenants => Live(t)')
<1>1. /\ task \in [Workers -> Tasks] /\ r \in Tasks /\ Fit(r)
      /\ t \in Tenants => Live(t)
  BY DEF TypeOK, Provenance
<1>2. /\ form' = form /\ undone' = undone
      /\ \A v \in Workers \ {w} : task'[v] = task[v]
  BY ServeFacts, ServeAside, MoveFacts DEF Steps, Changes, TypeOK, shadow
<1>3. r.at \notin {"idle", "find"} => t \in Tenants /\ form[t] # None /\ form[t] \in Forms
  BY <1>1 DEF Fit, TypeOK
<1>4. None \notin Tenants
  BY NoneAssumption
<1>a. ASSUME Abandon(w), accepted' = accepted, raced' = raced PROVE Goal
  <2>1. s.at = "idle" /\ s.tenant = None /\ hurt' = hurt \cup ({t} \cap Tenants)
    BY <1>a, DoneFacts DEF Abandon, Hurt, Done
  <2>. QED  BY <1>a, <2>1 DEF Path, Live, Early
<1>b. ASSUME t \in Tenants, EarlyFor(w, t)' PROVE Live(t)'
  BY <1>b DEF Live
<1>5. ASSUME CreateRecord(w) PROVE Goal
  <2>1. CASE Abandon(w)
    BY <1>5, <1>a, <2>1 DEF CreateRecord
  <2>2. CASE Goto(w, "contacts") /\ hurt' = hurt
    <3>1. s.at = "contacts" /\ s.tenant = t
      BY <2>2, GotoFacts
    <3>. QED  BY <1>5, <1>b, <2>2, <3>1 DEF CreateRecord, At, Path, EarlyFor, Early
  <2>. QED  BY <1>5, <2>1, <2>2 DEF CreateRecord
<1>6. ASSUME CreateContacts(w) PROVE Goal
  <2>1. CASE Abandon(w)
    BY <1>6, <1>a, <2>1 DEF CreateContacts
  <2>2. CASE /\ contacts' = [contacts EXCEPT ![t] = [listed |-> form[t].phones, verified |-> {}]]
             /\ Goto(w, "enlist") /\ hurt' = hurt
    <3>1. s.at = "enlist" /\ s.tenant = t
      BY <2>2, GotoFacts
    <3>2. contacts'[t] = [listed |-> form[t].phones, verified |-> {}]
      BY <1>3, <1>6, <2>2 DEF CreateContacts, At, TypeOK
    <3>. QED  BY <1>6, <1>b, <2>2, <3>1, <3>2 DEF CreateContacts, At, Path, EarlyFor, Early
  <2>. QED  BY <1>6, <2>1, <2>2 DEF CreateContacts
<1>7. ASSUME CreateMember(w) PROVE Goal
  <2>1. CASE Abandon(w)
    BY <1>7, <1>a, <2>1 DEF CreateMember
  <2>2. CASE members' = members \cup {t} /\ Indexing(w, form[t].phones) /\ hurt' = hurt
    <3>1. \/ s.at \in {"index", "codes", "read"} /\ s.tenant = t
          \/ s.at = "idle" /\ s.tenant = None
      BY <1>3, <1>7, <2>2, IndexingFacts DEF CreateMember, At
    <3>2. r.at = "enlist" /\ contacts' = contacts /\ accepted' = accepted /\ raced' = raced
      BY <1>7 DEF CreateMember, At
    <3>3. /\ contacts[t] = [listed |-> form[t].phones, verified |-> {}]
          /\ \A v \in Workers \ {w} : task'[v].tenant # t
          /\ \A p \in Phones : <<t, p>> \notin accepted
          /\ form[t].phones \subseteq Phones
      BY <1>2, <1>3, <3>2 DEF Fresh, Early, Forms
    <3>4. \A v \in Workers : ~Saving(v, t)'
      BY <3>1, <3>3 DEF Saving
    <3>5. Live(t)'
      BY <1>2, <2>2, <3>2, <3>3, <3>4 DEF Live
    <3>. QED  BY <2>2, <3>1, <3>2, <3>5 DEF Path, Early
  <2>. QED  BY <1>7, <2>1, <2>2 DEF CreateMember
<1>8. ASSUME r.at \in {"index", "codes", "compare", "consume", "join"}, status' = status,
             contacts' = contacts, members \subseteq members', raced' = raced, hurt \subseteq hurt',
             accepted' = accepted,
             \/ s.at \in {"index", "codes", "read", "consume"} /\ s.tenant = t
             \/ s.at = "idle" /\ s.tenant = None
      PROVE  Goal
  <2>1. ~EarlyFor(w, t) /\ ~Saving(w, t)' /\ ~Promoting(w, t)
    BY <1>3, <1>4, <1>8 DEF EarlyFor, Saving, Promoting, Early
  <2>2. \A p \in form[t].phones : ~Marking(w, t, p)
    BY <1>8 DEF Marking
  <2>3. Live(t)'
    BY <1>1, <1>2, <1>3, <1>8, <2>1, <2>2, Steady
  <2>. QED  BY <1>8, <2>3 DEF Path, Early
<1>9. ASSUME CreateIndex(w) PROVE Goal
  <2>1. CASE Abandon(w)
    BY <1>9, <1>a, <2>1 DEF CreateIndex
  <2>2. ASSUME NEW p \in r.left, Indexing(w, r.left \ {p}), hurt' = hurt PROVE Goal
    <3>1. \/ s.at \in {"index", "codes", "read"} /\ s.tenant = t
          \/ s.at = "idle" /\ s.tenant = None
      BY <1>3, <1>9, <2>2, IndexingFacts DEF CreateIndex, At
    <3>. QED  BY <1>8, <1>9, <2>2, <3>1 DEF CreateIndex, At
  <2>. QED  BY <1>9, <2>1, <2>2 DEF CreateIndex
<1>10. ASSUME SendCode(w) PROVE Goal
  <2>1. r.at = "codes" /\ hurt \subseteq hurt'
    BY <1>10 DEF SendCode, At, Hurt
  <2>2. PICK p \in r.left :
          task' = [task EXCEPT ![w] = IF r.left = {p} THEN Idle ELSE [r EXCEPT !.left = @ \ {p}]]
    BY <1>10 DEF SendCode
  <2>3. \/ s.at = "codes" /\ s.tenant = t
        \/ s.at = "idle" /\ s.tenant = None
    BY <1>1, <2>1, <2>2, IdleFacts DEF Tasks
  <2>. QED  BY <1>8, <1>10, <2>1, <2>3 DEF SendCode
<1>11. ASSUME FindTenant(w) PROVE Goal
  <2>1. r.at = "find" /\ t \notin Tenants
    BY <1>4, <1>11 DEF FindTenant, At, Fresh
  <2>2. \/ s.at = "compare" /\ s.tenant = owner[r.phone]
        \/ s.at = "idle" /\ s.tenant = None
    <3>1. CASE task' = [task EXCEPT ![w] = Idle]
      BY <3>1, DoneFacts
    <3>2. CASE task' = [task EXCEPT ![w].at = "compare", ![w].tenant = owner[r.phone]]
      BY <1>1, <3>2 DEF Tasks
    <3>. QED  BY <1>11, <3>1, <3>2 DEF FindTenant, Done
  <2>. QED  BY <1>11, <2>1, <2>2 DEF FindTenant, Path, Early, history
<1>12. ASSUME Compare(w) PROVE Goal
  <2>1. \/ s.at = "consume" /\ s.tenant = t
        \/ s.at = "idle" /\ s.tenant = None
    BY <1>12, GotoFacts, DoneFacts DEF Compare, Done
  <2>. QED  BY <1>8, <1>12, <2>1 DEF Compare, At, redis
<1>13. ASSUME Consume(w) PROVE Goal
  <2>1. CASE Done(w) /\ accepted' = accepted
    BY <1>8, <1>13, <2>1, DoneFacts DEF Consume, At, Done
  <2>2. CASE accepted' = accepted \cup {<<t, r.phone>>} /\ Goto(w, "read")
    <3>1. s.at = "read" /\ s.tenant = t /\ s.phone = r.phone
      BY <2>2, GotoFacts
    <3>2. /\ r.at = "consume" /\ status' = status /\ contacts' = contacts
          /\ members' = members /\ raced' = raced /\ hurt' = hurt
      BY <1>13 DEF Consume, At
    <3>3. /\ ~EarlyFor(w, t) /\ ~Saving(w, t)' /\ ~Promoting(w, t)
          /\ \A p \in form[t].phones : ~Marking(w, t, p)
      BY <3>1, <3>2 DEF EarlyFor, Saving, Promoting, Marking, Early
    <3>4. \A p \in form[t].phones :
            <<t, p>> \in accepted' => <<t, p>> \in accepted \/ Marking(w, t, p)'
      BY <2>2, <3>1 DEF Marking
    <3>5. Live(t)'
      BY <1>1, <1>2, <1>3, <3>2, <3>3, <3>4, Steady
    <3>. QED  BY <2>2, <3>1, <3>2, <3>5 DEF Path, Early
  <2>. QED  BY <1>13, <2>1, <2>2 DEF Consume
<1>14. ASSUME ReadContacts(w) PROVE Goal
  <2>1. /\ r.at = "read" /\ status' = status /\ contacts' = contacts /\ members' = members
        /\ accepted' = accepted /\ t \in Tenants
        /\ raced' = IF Changing(t) = {} THEN raced ELSE raced \cup {t}
    BY <1>3, <1>14 DEF ReadContacts, At, redis
  <2>2. /\ \/ s.at = "idle" /\ s.tenant = None
           \/ s.at = "save" /\ s.tenant = t
        /\ hurt \subseteq hurt' /\ raced \subseteq raced'
    <3>1. CASE task' = [task EXCEPT ![w] = Idle]
      BY <1>14, <2>1, <3>1, DoneFacts DEF ReadContacts, Hurt
    <3>2. ASSUME NEW list, task' = [task EXCEPT ![w].at = "save", ![w].list = list]
          PROVE  s.at = "save" /\ s.tenant = t
      BY <1>1, <3>2 DEF Tasks
    <3>. QED  BY <1>14, <2>1, <3>1, <3>2 DEF ReadContacts, Hurt, Done
  <2>3. Path(r, s)
    BY <2>1, <2>2 DEF Path, Early
  <2>4. ASSUME t \notin raced' \cup hurt', \A v \in Workers : ~EarlyFor(v, t)'
        PROVE  Live(t)'
    <3>1. \A v \in Workers : ~EarlyFor(v, t)
      BY <1>2, <2>1, <2>4 DEF EarlyFor, Early
    <3>2. t \notin raced /\ t \notin hurt /\ Changing(t) = {}
      BY <2>1, <2>2, <2>4
    <3>3. /\ t \in members
          /\ contacts[t].listed = form[t].phones
          /\ \A p \in form[t].phones :
               <<t, p>> \in accepted =>
                 p \in contacts[t].verified \/ \E v \in Workers : Marking(v, t, p)
          /\ contacts[t].verified = contacts[t].listed /\ form[t].phones # {} =>
               t \in undone \/ status[t] = "active" \/ \E v \in Workers : Promoting(v, t)
      BY <1>1, <1>3, <2>1, <3>1, <3>2 DEF Live
    <3>4. \A v \in Workers \ {w} : ~Saving(v, t)'
      BY <1>2, <3>2 DEF Changing, Saving, At
    <3>5. \A v \in Workers : Promoting(v, t) => Promoting(v, t)'
      BY <1>2, <2>1 DEF Promoting
    <3>6. /\ IF ToMark(r, contacts[t])
             THEN task' = [task EXCEPT ![w].at = "save", ![w].list = Marked(r, contacts[t])]
             ELSE task' = [task EXCEPT ![w] = Idle]
          /\ hurt' = hurt
      <4>1. ~Hurt(t)
        BY <2>1, <2>4 DEF Hurt
      <4>. QED  BY <1>14, <4>1 DEF ReadContacts, Done
    <3>7. CASE ToMark(r, contacts[t])
      <4>1. s.at = "save" /\ s.tenant = t /\ s.phone = r.phone /\ s.list = Marked(r, contacts[t])
        BY <1>1, <3>6, <3>7 DEF Tasks
      <4>2. \A v \in Workers : \A p \in form[t].phones : Marking(v, t, p) => Marking(v, t, p)'
        BY <1>2, <4>1 DEF Marking
      <4>3. s.list = Marked(s, contacts[t])
        BY <4>1 DEF Marked
      <4>4. \A u, v \in Workers : Saving(u, t)' /\ Saving(v, t)' => u = v
        BY <3>4
      <4>5. \A v \in Workers : Saving(v, t)' => task'[v].list = Marked(task'[v], contacts[t])
        BY <3>4, <4>3
      <4>. QED  BY <1>2, <2>1, <3>3, <3>5, <4>2, <4>4, <4>5 DEF Live, Marked
    <3>8. CASE ~ToMark(r, contacts[t])
      <4>1. s.at = "idle" /\ s.tenant = None
        BY <3>6, <3>8, DoneFacts
      <4>2. \A p \in form[t].phones : ~Marking(w, t, p)
        BY <3>3, <3>8 DEF ToMark, Marking
      <4>3. \A v \in Workers : \A p \in form[t].phones : Marking(v, t, p) => Marking(v, t, p)'
        BY <1>2, <4>2 DEF Marking
      <4>4. \A v \in Workers : ~Saving(v, t)'
        BY <3>4, <4>1 DEF Saving
      <4>. QED  BY <1>2, <2>1, <3>3, <3>5, <4>3, <4>4 DEF Live
    <3>. QED  BY <3>7, <3>8
  <2>5. Live(t)'
    BY <2>4 DEF Live
  <2>. QED  BY <2>3, <2>5
<1>15. ASSUME SaveContacts(w) PROVE Goal
  <2>1. /\ r.at = "save" /\ status' = status /\ members' = members
        /\ accepted' = accepted /\ t \in Tenants /\ raced' = raced
    BY <1>3, <1>15 DEF SaveContacts, At
  <2>2. /\ s = IF r.list.verified = r.list.listed THEN ToActivate(t) ELSE Idle
        /\ hurt \subseteq hurt'
    BY <1>1, <1>15 DEF SaveContacts, Hurt
  <2>3. IF r.list.verified = r.list.listed THEN s.at = "look" /\ s.tenant = t
        ELSE s.at = "idle" /\ s.tenant = None
    BY <2>2, IdleFacts DEF ToActivate, Tasks
  <2>4. Path(r, s)
    BY <2>1, <2>2, <2>3 DEF Path, Early
  <2>5. ASSUME t \notin raced' \cup hurt', \A v \in Workers : ~EarlyFor(v, t)'
        PROVE  Live(t)'
    <3>1. \A v \in Workers : ~EarlyFor(v, t)
      BY <1>2, <2>1, <2>5 DEF EarlyFor, Early
    <3>2. /\ t \in members
          /\ contacts[t].listed = form[t].phones
          /\ \A p \in form[t].phones :
               <<t, p>> \in accepted =>
                 p \in contacts[t].verified \/ \E v \in Workers : Marking(v, t, p)
          /\ \A v \in Workers : Saving(v, t) => task[v].list = Marked(task[v], contacts[t])
          /\ \A u, v \in Workers : Saving(u, t) /\ Saving(v, t) => u = v
      BY <1>1, <1>3, <2>1, <2>2, <2>5, <3>1 DEF Live
    <3>3. contacts'[t] = r.list
      <4>1. ~Hurt(t)
        BY <2>1, <2>5 DEF Hurt
      <4>. QED  BY <1>15, <2>1, <4>1 DEF SaveContacts, TypeOK
    <3>4. r.list = Marked(r, contacts[t]) /\ \A v \in Workers \ {w} : ~Saving(v, t)
      BY <2>1, <3>2 DEF Saving
    <3>5. /\ r.list.listed = form[t].phones
          /\ contacts[t].verified \subseteq r.list.verified
          /\ r.phone = None \/ r.phone \in r.list.verified
          /\ r.phone = None => r.list.verified = form[t].phones
      <4>1. /\ contacts[t] \in [listed : SUBSET Phones, verified : SUBSET Phones]
            /\ contacts[t].verified \subseteq contacts[t].listed
        BY <2>1 DEF TypeOK, Lists
      <4>. QED  BY <3>2, <3>4, <4>1 DEF Marked
    <3>6. \A v \in Workers : ~Saving(v, t)'
      BY <1>2, <2>3, <3>4 DEF Saving
    <3>7. \A v \in Workers \ {w} : \A p \in form[t].phones : Marking(v, t, p) => Marking(v, t, p)'
      BY <1>2 DEF Marking
    <3>8. \A p \in form[t].phones : Marking(w, t, p) => p \in r.list.verified
      BY <3>5 DEF Marking
    <3>9. \A p \in form[t].phones :
            <<t, p>> \in accepted' =>
              p \in contacts'[t].verified \/ \E v \in Workers : Marking(v, t, p)'
      BY <2>1, <3>2, <3>3, <3>5, <3>7, <3>8
    <3>10. r.list.verified = r.list.listed => Promoting(w, t)'
      BY <2>3 DEF Promoting
    <3>. QED  BY <1>2, <2>1, <3>2, <3>3, <3>5, <3>6, <3>9, <3>10 DEF Live
  <2>6. Live(t)'
    BY <2>5 DEF Live
  <2>. QED  BY <2>4, <2>6
<1>16. ASSUME r.at \in {"look", "activate"}, Goto(w, "activate") \/ Goto(w, "join"),
              contacts' = contacts, members' = members, raced' = raced, hurt' = hurt,
              accepted' = accepted, status[t] = "active" => status'[t] = "active",
              Goto(w, "join") => status'[t] = "active"
       PROVE  Goal
  <2>1. /\ s.at \in {"activate", "join"} /\ s.tenant = t
        /\ s.at = "join" => status'[t] = "active"
    BY <1>16, GotoFacts
  <2>2. /\ ~EarlyFor(w, t) /\ ~Saving(w, t)'
        /\ Promoting(w, t)' \/ status'[t] = "active"
        /\ \A p \in form[t].phones : ~Marking(w, t, p)
    BY <1>16, <2>1 DEF EarlyFor, Saving, Promoting, Marking, Early
  <2>3. Live(t)'
    BY <1>1, <1>2, <1>3, <1>16, <2>2, Steady
  <2>. QED  BY <1>16, <2>1, <2>3 DEF Path, Early
<1>17. ASSUME LookUp(w) PROVE Goal
  <2>1. CASE Abandon(w)
    BY <1>17, <1>a, <2>1 DEF LookUp
  <2>2. CASE Goto(w, "activate") /\ hurt' = hurt
    BY <1>16, <1>17, <2>2, GotoFacts DEF LookUp, At, redis
  <2>. QED  BY <1>17, <2>1, <2>2 DEF LookUp
<1>18. ASSUME Activate(w) PROVE Goal
  <2>1. CASE Abandon(w)
    BY <1>18, <1>a, <2>1 DEF Activate
  <2>2. CASE status' = [status EXCEPT ![t] = "active"] /\ Goto(w, "join") /\ hurt' = hurt
    <3>1. status'[t] = "active"
      BY <1>3, <1>18, <2>2 DEF Activate, At, TypeOK
    <3>. QED  BY <1>16, <1>18, <2>2, <3>1 DEF Activate, At
  <2>. QED  BY <1>18, <2>1, <2>2 DEF Activate
<1>19. ASSUME Join(w) PROVE Goal
  <2>1. CASE Abandon(w)
    BY <1>19, <1>a, <2>1 DEF Join
  <2>2. CASE members' = members \cup {t} /\ Done(w) /\ hurt' = hurt
    BY <1>8, <1>19, <2>2, DoneFacts DEF Join, At, Done
  <2>. QED  BY <1>19, <2>1, <2>2 DEF Join
<1>20. ASSUME Die(w) PROVE Goal
  BY <1>20, <1>a DEF Die
<1>. QED
  BY <1>5, <1>6, <1>7, <1>9, <1>10, <1>11, <1>12, <1>13, <1>14, <1>15, <1>17, <1>18,
     <1>19, <1>20 DEF Serve, Create, Verify, Promote

(* What a worker does to the tenant it serves, keeps every tenant alive and    *)
(* every registration to itself.                                              *)
LEMMA ServeFresh ==
  ASSUME TypeOK, Provenance, Fresh, \A t \in Tenants : Live(t),
         NEW w \in Workers, Serve(w) \/ Die(w)
  PROVE  Fresh' /\ \A t \in Tenants : Live(t)'
<1>. DEFINE r == task[w]
            s == task'[w]
<1>1. /\ task \in [Workers -> Tasks] /\ Fit(r)
      /\ Changes(r) /\ form' = form /\ undone' = undone
      /\ \A v \in Workers \ {w} : task'[v] = task[v]
  BY ServeFacts, ServeAside, MoveFacts DEF Steps, Changes, TypeOK, Provenance, shadow
<1>2. PICK t : t = task[w].tenant
  OBVIOUS
<1>3. Path(r, s) /\ (t \in Tenants => Live(t)')
  BY <1>2, ServeLive
<1>4. t \in Tenants \cup {None} /\ None \notin Tenants
  BY <1>2, NoneAssumption DEF TypeOK, Tasks
<1>5. r.at \notin {"idle", "find"} => t \in Tenants /\ form[t] # None
  BY <1>1, <1>2 DEF Fit
<1>6. r.at = "consume" => \A v \in Workers : task[v].at \in Early => task[v].tenant # t
  BY <1>2 DEF Fresh, Early
<1>7. ASSUME NEW u \in Tenants \ {t} PROVE Live(u)'
  <2>1. contacts'[u] = contacts[u]
    BY <1>1, <1>2, <1>7 DEF Changes, TypeOK
  <2>2. status[u] = "active" => status'[u] = "active"
    BY <1>1, <1>2, <1>7 DEF Changes, TypeOK
  <2>3. /\ u \in members => u \in members'
        /\ \A p \in form[u].phones : <<u, p>> \in accepted' => <<u, p>> \in accepted
        /\ raced \subseteq raced' /\ hurt \subseteq hurt'
    BY <1>1, <1>2, <1>3, <1>7 DEF Changes, Path
  <2>4. task[w].tenant # u /\ (s.tenant = u => s.at = "compare")
    BY <1>2, <1>3, <1>4, <1>7 DEF Path
  <2>5. /\ ~EarlyFor(w, u) /\ ~Saving(w, u)' /\ ~Promoting(w, u)
        /\ \A p \in form[u].phones : ~Marking(w, u, p)
    BY <2>4 DEF EarlyFor, Saving, Promoting, Marking
  <2>. QED  BY <1>1, <2>1, <2>2, <2>3, <2>5, Steady
<1>8. ASSUME NEW v \in Workers,
             task'[v].at \in Early
      PROVE  /\ task[v].at \in Early /\ task'[v].tenant = task[v].tenant
             /\ \A x \in Workers \ {v} : task'[x].tenant # task[v].tenant
             /\ \A p \in Phones : /\ owner'[p] # task[v].tenant
                                  /\ <<task[v].tenant, p>> \notin accepted'
  <2>1. task[v].at \in Early /\ task'[v].tenant = task[v].tenant
    BY <1>1, <1>3, <1>8 DEF Path
  <2>2. /\ \A x \in Workers \ {v} : task[x].tenant # task[v].tenant
        /\ \A p \in Phones : owner[p] # task[v].tenant /\ <<task[v].tenant, p>> \notin accepted
        /\ task[v].tenant \in Tenants
    BY <2>1 DEF Fresh, Provenance, Fit, Early
  <2>3. r.at \in {"index", "consume"} => task[v].tenant # t
    BY <1>2, <2>1, <2>2 DEF Early
  <2>4. \A p \in Phones : owner'[p] # task[v].tenant
    BY <1>1, <1>2, <2>2, <2>3 DEF Changes, TypeOK
  <2>5. \A p \in Phones : <<task[v].tenant, p>> \notin accepted'
    BY <1>2, <1>3, <2>2, <2>3 DEF Path
  <2>6. r.at = "find" => r.phone \in Phones
    BY <1>1 DEF Fit
  <2>7. \A x \in Workers \ {v} : task'[x].tenant # task[v].tenant
    BY <1>1, <1>2, <1>3, <1>4, <2>2, <2>6 DEF Path
  <2>. QED  BY <2>1, <2>4, <2>5, <2>7
<1>9. ASSUME NEW v \in Workers, task'[v].at = "enlist"
      PROVE  contacts'[task'[v].tenant] =
               [listed |-> form[task'[v].tenant].phones, verified |-> {}]
  <2>1. task[v].at \in Early /\ task'[v].tenant = task[v].tenant
    BY <1>8, <1>9 DEF Early
  <2>2. CASE v = w
    BY <1>3, <1>9, <2>1, <2>2 DEF Path
  <2>3. CASE v # w
    <3>1. /\ contacts[task[v].tenant] = [listed |-> form[task[v].tenant].phones, verified |-> {}]
          /\ task[v].tenant # r.tenant
          /\ task[v].tenant \in Tenants
      BY <1>1, <1>9, <2>1, <2>3 DEF Fresh, Provenance, Fit
    <3>. QED  BY <1>1, <2>1, <3>1 DEF Changes, TypeOK
  <2>. QED  BY <2>2, <2>3
<1>10. \A v \in Workers : task'[v].at \in {"idle", "find"} => task'[v].tenant = None
  BY <1>1, <1>3 DEF Fresh, Path
<1>11. \A u \in Tenants : form'[u] = None => \A p \in Phones : <<u, p>> \notin accepted'
  BY <1>1, <1>2, <1>3, <1>5 DEF Fresh, Path
<1>12. Fresh'
  BY <1>1, <1>8, <1>9, <1>10, <1>11 DEF Fresh
<1>. QED  BY <1>3, <1>7, <1>12

(* A fresh tenant's registration begins with nobody else serving it.           *)
LEMMA RegisterFresh ==
  ASSUME TypeOK, Provenance, Fresh, \A t \in Tenants : Live(t),
         NEW w \in Workers, NEW t \in Tenants, NEW f \in Forms, Register(w, t, f)
  PROVE  Fresh' /\ \A u \in Tenants : Live(u)'
<1>1. /\ task[w].at = "idle" /\ form[t] = None /\ form' = [form EXCEPT ![t] = f]
      /\ UNCHANGED <<shadow, redis, sent, history>>
  BY DEF Register, At
<1>2. /\ \A v \in Workers \ {w} : task'[v] = task[v]
      /\ task'[w].at = "record" /\ task'[w].tenant = t
  BY IdleFacts DEF Register, TypeOK, Tasks
<1>3. /\ contacts' = contacts /\ status' = status /\ members' = members /\ owner' = owner
      /\ accepted' = accepted /\ raced' = raced /\ hurt' = hurt /\ undone' = undone
  BY <1>1 DEF shadow, redis, history
<1>4. None \notin Tenants
  BY NoneAssumption
<1>5. \A v \in Workers : task[v].tenant # t
  BY <1>1, <1>4 DEF Fresh, Provenance, Fit
<1>6. \A p \in Phones : owner[p] # t /\ <<t, p>> \notin accepted
  BY <1>1, <1>4 DEF Fresh, Provenance
<1>7. form'[t] = f /\ \A u \in Tenants \ {t} : form'[u] = form[u]
  BY <1>1 DEF TypeOK
<1>8. Fresh'
  <2>1. ASSUME NEW v \in Workers
        PROVE  /\ task'[v].at \in {"idle", "find"} => task'[v].tenant = None
               /\ task'[v].at \in Early =>
                    /\ \A x \in Workers \ {v} : task'[x].tenant # task'[v].tenant
                    /\ \A p \in Phones : /\ owner[p] # task'[v].tenant
                                         /\ <<task'[v].tenant, p>> \notin accepted
               /\ task'[v].at = "enlist" =>
                    contacts[task'[v].tenant] =
                      [listed |-> form'[task'[v].tenant].phones, verified |-> {}]
    <3>1. CASE v = w
      BY <1>2, <1>5, <1>6, <3>1
    <3>2. CASE v # w
      <4>1. task'[v] = task[v]
        BY <1>2, <3>2
      <4>2. task[v].at = "enlist" => task[v].tenant \in Tenants \ {t}
        BY <1>5 DEF Provenance, Fit
      <4>3. \A x \in Workers : task'[x].tenant \in {t, task[x].tenant}
        BY <1>2
      <4>4. task[v].at \in Early =>
              /\ \A x \in Workers \ {v} : task'[x].tenant # task[v].tenant
              /\ \A p \in Phones : owner[p] # task[v].tenant /\ <<task[v].tenant, p>> \notin accepted
        BY <1>5, <4>3 DEF Fresh
      <4>5. task[v].at = "enlist" =>
              contacts[task[v].tenant] =
                [listed |-> form'[task[v].tenant].phones, verified |-> {}]
        BY <1>7, <4>2 DEF Fresh
      <4>6. task[v].at \in {"idle", "find"} => task[v].tenant = None
        BY DEF Fresh
      <4>. QED  BY <4>1, <4>4, <4>5, <4>6
    <3>. QED  BY <3>1, <3>2
  <2>2. \A u \in Tenants : form'[u] = None => \A p \in Phones : <<u, p>> \notin accepted
    BY <1>6, <1>7 DEF Fresh
  <2>. QED  BY <1>3, <2>1, <2>2 DEF Fresh
<1>9. Live(t)'
  BY <1>2 DEF Live, EarlyFor, Early
<1>10. ASSUME NEW u \in Tenants \ {t} PROVE Live(u)'
  <2>1. /\ ~EarlyFor(w, u) /\ ~Saving(w, u)' /\ ~Promoting(w, u)
        /\ \A p \in form[u].phones : ~Marking(w, u, p)
    BY <1>1, <1>2 DEF EarlyFor, Saving, Promoting, Marking, Early
  <2>. QED  BY <1>2, <1>3, <1>7, <2>1, Steady
<1>. QED  BY <1>8, <1>9, <1>10

(* Every step keeps every tenant alive.                                       *)
LEMMA NextFresh ==
  TypeOK /\ Provenance /\ Fresh /\ (\A t \in Tenants : Live(t)) /\ [Next]_vars
    => Fresh' /\ (\A t \in Tenants : Live(t))'
<1>. SUFFICES ASSUME TypeOK, Provenance, Fresh, \A t \in Tenants : Live(t), [Next]_vars
              PROVE  Fresh' /\ \A t \in Tenants : Live(t)'
  OBVIOUS
<1>1. ASSUME NEW w \in Workers, Serve(w) \/ Die(w)
      PROVE  Fresh' /\ \A t \in Tenants : Live(t)'
  BY <1>1, ServeFresh
<1>2. ASSUME NEW w \in Workers, NEW t \in Tenants, NEW f \in Forms, Register(w, t, f)
      PROVE  Fresh' /\ \A u \in Tenants : Live(u)'
  BY <1>2, RegisterFresh
<1>3. ASSUME NEW w \in Workers, NEW phone \in Phones, NEW typed \in sent[phone] \cup {None},
             Post(w, phone, typed)
      PROVE  Fresh' /\ \A t \in Tenants : Live(t)'
  <2>1. /\ task[w].at = "idle" /\ form' = form
        /\ contacts' = contacts /\ status' = status /\ members' = members /\ owner' = owner
        /\ accepted' = accepted /\ raced' = raced /\ hurt' = hurt /\ undone' = undone
    BY <1>3 DEF Post, At, shadow, redis
  <2>2. /\ \A v \in Workers \ {w} : task'[v] = task[v]
        /\ task'[w].at = "find" /\ task'[w].tenant = None
    BY <1>3, IdleFacts DEF Post, TypeOK, Tasks
  <2>3. Fresh'
    <3>1. \A v \in Workers : task'[v].tenant = task[v].tenant
      BY <2>1, <2>2 DEF Fresh
    <3>. QED  BY <2>1, <2>2, <3>1 DEF Fresh, Early
  <2>4. ASSUME NEW t \in Tenants PROVE Live(t)'
    <3>1. /\ ~EarlyFor(w, t) /\ ~Saving(w, t)' /\ ~Promoting(w, t)
          /\ \A p \in form[t].phones : ~Marking(w, t, p)
      BY <2>1, <2>2 DEF EarlyFor, Saving, Promoting, Marking, Early
    <3>. QED  BY <2>1, <2>2, <3>1, Steady
  <2>. QED  BY <2>3, <2>4
<1>4. ASSUME UNCHANGED <<form, contacts, members, owner, task, accepted, raced, hurt>>,
             undone \subseteq undone',
             \A t \in Tenants : status[t] = "active" => status'[t] = "active" \/ t \in undone'
      PROVE  Fresh' /\ \A t \in Tenants : Live(t)'
  <2>1. Fresh'
    BY <1>4 DEF Fresh
  <2>2. ASSUME NEW t \in Tenants PROVE Live(t)'
    BY <1>4 DEF Live, EarlyFor, Saving, Marking, Promoting, Marked
  <2>. QED  BY <2>1, <2>2
<1>5. ASSUME NEW p \in Phones, CodeExpires(p)
      PROVE  Fresh' /\ \A t \in Tenants : Live(t)'
  BY <1>4, <1>5 DEF CodeExpires, shadow, history
<1>6. CASE UNCHANGED vars
  BY <1>4, <1>6 DEF vars, shadow, redis, history
<1>7. ASSUME NEW l \in Loops,
             (\E t \in Tenants : ReadRecord(l, t)) \/ WriteRecord(l) \/ DropRecord(l)
      PROVE  Fresh' /\ \A t \in Tenants : Live(t)'
  <2>1. CASE WriteRecord(l)
    <3>1. \A t \in Tenants : status[t] = "active" => status'[t] = "active" \/ t \in undone'
      BY <2>1 DEF WriteRecord, TypeOK, Copies
    <3>2. undone \subseteq undone'
      BY <2>1 DEF WriteRecord
    <3>. QED  BY <1>4, <2>1, <3>1, <3>2 DEF WriteRecord, history
  <2>2. CASE (\E t \in Tenants : ReadRecord(l, t)) \/ DropRecord(l)
    BY <1>4, <2>2 DEF ReadRecord, DropRecord, redis, history
  <2>. QED  BY <1>7, <2>1, <2>2
<1>. QED  BY <1>1, <1>2, <1>3, <1>5, <1>6, <1>7 DEF Next

(* A tenant all of whose codes were accepted is polled once its requests are   *)
(* answered: only overlapping changes of its contacts, a failure or a shadow   *)
(* request that writes an older record over its activation keep it out, for    *)
(* any number of requests, tenants and numbers.                               *)
THEOREM VerifiedIsPolledCorrect == Spec => []VerifiedIsPolled
<1>1. Init => Fresh /\ \A t \in Tenants : Live(t)
  <2>. SUFFICES ASSUME Init PROVE Fresh /\ \A t \in Tenants : Live(t)
    OBVIOUS
  <2>1. Fresh
    BY IdleFacts DEF Init, Fresh, Early
  <2>2. \A t \in Tenants : Live(t)
    BY DEF Init, Live
  <2>. QED  BY <2>1, <2>2
<1>2. TypeOK /\ Provenance /\ Fresh /\ (\A t \in Tenants : Live(t)) => VerifiedIsPolled
  <2>. SUFFICES ASSUME TypeOK, Provenance, Fresh, NEW t \in Tenants, Live(t),
                       Verified(t), Answered(t), t \notin raced \cup hurt \cup undone
                PROVE  t \in Polled
    BY DEF VerifiedIsPolled
  <2>1. /\ form[t] # None /\ form[t].phones # {}
        /\ \A p \in form[t].phones : <<t, p>> \in accepted
        /\ \A w \in Workers : ~EarlyFor(w, t) /\ ~Promoting(w, t)
                              /\ \A p \in form[t].phones : ~Marking(w, t, p)
    BY DEF Verified, Answered, EarlyFor, Promoting, Marking
  <2>2. /\ t \in members
        /\ contacts[t].listed = form[t].phones
        /\ form[t].phones \subseteq contacts[t].verified
        /\ contacts[t].verified = contacts[t].listed => status[t] = "active"
    BY <2>1 DEF Live
  <2>3. contacts[t].verified \subseteq contacts[t].listed
    BY DEF TypeOK, Lists
  <2>. QED  BY <2>2, <2>3 DEF Polled
<1>. QED  BY <1>1, <1>2, InitProvenance, NextProvenance, NextFresh, PTL DEF Spec

================================================================================
