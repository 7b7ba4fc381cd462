-------------------------- MODULE MembershipProofs --------------------------
(***************************************************************************)
(* Proofs about Membership, for any number of accounts, businesses,        *)
(* invites and concurrent requests, and about the Migrations of its tables. *)
(* OneOwner is not inductive: a stale entity could undo an owner's row or a *)
(* business's owner when it is saved.  The invariant says what every        *)
(* request in flight has read and why saving it is harmless.  The second    *)
(* part, from Proper on, is about the migrations: its invariant says which  *)
(* schema each list of applied migrations stands for.                       *)
(***************************************************************************)
EXTENDS Membership, Migrations, TLAPS

Past == [managers: SUBSET (Accounts \X Businesses), approved: SUBSET Businesses,
         activated: SUBSET Businesses]

\* An owner's row and a registered Business point at each other.
OwnerRow(a, us, bs) ==
    us[a] # None /\ us[a].role = "owner" =>
        us[a].active /\ bs[us[a].biz].status # "none" /\ bs[us[a].biz].owner = a
OwnerThere(b, us, bs) ==
    bs[b].status # "none" =>
        /\ bs[b].owner \in Accounts
        /\ us[bs[b].owner] # None
        /\ us[bs[b].owner].role = "owner"
        /\ us[bs[b].owner].biz = b
Owners(us, bs) == /\ \A a \in Accounts : OwnerRow(a, us, bs)
                  /\ \A b \in Businesses : OwnerThere(b, us, bs)

InvitesNamed(is) == \A i \in Invites : is[i].status # "none" => is[i].biz \in Businesses

\* What a request holds at each of its stages.
HasFields(q) ==
    /\ q.pc \notin {"idle", "decide"} => q.by \in Accounts
    /\ q.pc \in {"teammate", "save", "remove", "leave", "replace", "insert"} => q.target \in Accounts
    /\ q.pc \in {"teammate", "remove", "leave"} => q.actor \in User
    /\ q.pc \in {"teammate", "invitees", "replace", "insert"} => q.role \in {"waiter", "manager"}
    /\ q.pc \in {"invitees", "replace", "insert", "revise", "decide"} => q.biz \in Businesses
    /\ q.pc \in {"find", "entry", "expire", "account", "create"} => q.then \in {"idle", "account"}
HasInvite(q, is) ==
    q.pc \in {"expire", "member", "admit", "redeemed", "revoke"} =>
        q.inv \in Invites /\ is[q.inv].biz \in Businesses

\* A user entity to be saved is the owner's own row, or neither it nor the table's is an owner's.
Harmless(row, a, us) ==
    /\ row \in User
    /\ us[a] # None
    /\ (row.role = "owner" \/ us[a].role = "owner") => row = us[a]
HasRow(q, us) ==
    /\ q.pc = "save" => Harmless(q.row, q.target, us)
    /\ q.pc = "revise" => Harmless(q.row, q.by, us)
    /\ q.pc = "admit" /\ q.row # None => us[q.by] # None /\ us[q.by].role # "owner"

\* A Business entity to be saved still has the owner of the table's.
HasState(q, bs) ==
    /\ q.pc \in {"revise", "decide"} => /\ q.state \in Business
                                        /\ bs[q.biz].status # "none"
                                        /\ q.state.owner = bs[q.biz].owner
    /\ q.pc = "decide" => q.state.status # "none"

ReqOK(q, us, bs, is) == HasFields(q) /\ HasInvite(q, is) /\ HasRow(q, us) /\ HasState(q, bs)

Inv == /\ TypeOK
       /\ Owners(users, businesses)
       /\ InvitesNamed(invites)
       /\ \A r \in Requests : ReqOK(requests[r], users, businesses, invites)

\* What no step does to the tables: take a row away, or touch an owner's.
UsersKept(us, us2) ==
    \A a \in Accounts : us[a] # None =>
        us2[a] # None /\ ((us[a].role = "owner" \/ us2[a].role = "owner") => us2[a] = us[a])
BusinessesKept(bs, bs2) ==
    \A b \in Businesses : bs[b].status # "none" => bs2[b].status # "none" /\ bs2[b].owner = bs[b].owner
InvitesKept(is, is2) ==
    \A i \in Invites : is[i].biz \in Businesses => is2[i].biz \in Businesses

-----------------------------------------------------------------------------
(* What carries over from one state of the tables to the next. *)

LEMMA ReqCarries ==
    ASSUME NEW q, NEW us, NEW us2, NEW bs, NEW bs2, NEW is, NEW is2,
           ReqOK(q, us, bs, is), UsersKept(us, us2), BusinessesKept(bs, bs2), InvitesKept(is, is2)
    PROVE  ReqOK(q, us2, bs2, is2)
<1>1. HasFields(q)  BY DEF ReqOK
<1>2. HasInvite(q, is2)  BY DEF ReqOK, HasInvite, InvitesKept
<1>3. HasRow(q, us2)
  <2>1. q.pc = "save" => Harmless(q.row, q.target, us2)
    BY DEF ReqOK, HasFields, HasRow, Harmless, UsersKept
  <2>2. q.pc = "revise" => Harmless(q.row, q.by, us2)
    BY DEF ReqOK, HasFields, HasRow, Harmless, UsersKept
  <2>3. q.pc = "admit" /\ q.row # None => us2[q.by] # None /\ us2[q.by].role # "owner"
    BY DEF ReqOK, HasFields, HasRow, UsersKept
  <2>4. QED  BY <2>1, <2>2, <2>3 DEF HasRow
<1>4. HasState(q, bs2)  BY DEF ReqOK, HasFields, HasState, BusinessesKept
<1>5. QED  BY <1>1, <1>2, <1>3, <1>4 DEF ReqOK

\* Owners stay owners when nothing of theirs is touched and nobody else becomes one.
LEMMA OwnersCarry ==
    ASSUME NEW us, NEW us2, NEW bs, NEW bs2, Owners(us, bs), UsersKept(us, us2),
           BusinessesKept(bs, bs2),
           us \in [Accounts -> User \cup {None}],
           \A a \in Accounts : us2[a] # None /\ us2[a].role = "owner" => us[a] # None,
           \A b \in Businesses : bs2[b].status # "none" => bs[b].status # "none"
    PROVE  Owners(us2, bs2)
<1>1. ASSUME NEW a \in Accounts PROVE OwnerRow(a, us2, bs2)
  <2> SUFFICES ASSUME us2[a] # None, us2[a].role = "owner"
               PROVE  us2[a].active /\ bs2[us2[a].biz].status # "none" /\ bs2[us2[a].biz].owner = a
    BY DEF OwnerRow
  <2>1. us[a] # None /\ us2[a] = us[a]  BY DEF UsersKept
  <2>2. us[a].biz \in Businesses  BY <2>1 DEF User
  <2>3. us[a].active /\ bs[us[a].biz].status # "none" /\ bs[us[a].biz].owner = a
    BY <2>1 DEF Owners, OwnerRow
  <2>4. QED  BY <2>1, <2>2, <2>3 DEF BusinessesKept
<1>2. ASSUME NEW b \in Businesses PROVE OwnerThere(b, us2, bs2)
  BY DEF Owners, OwnerThere, UsersKept, BusinessesKept
<1>3. QED  BY <1>1, <1>2 DEF Owners

\* A step of one request that keeps the tables' shape and leaves that request in order.
LEMMA StepKeeps ==
    ASSUME Inv, NEW r \in Requests, NEW q \in Request,
           requests' = [requests EXCEPT ![r] = q],
           users' \in [Accounts -> User \cup {None}], businesses' \in [Businesses -> Business],
           invites' \in [Invites -> Invite], past' \in Past, issued' \in 0..MaxRequests,
           UsersKept(users, users'), BusinessesKept(businesses, businesses'),
           InvitesKept(invites, invites'), InvitesNamed(invites'), Owners(users', businesses'),
           ReqOK(q, users', businesses', invites')
    PROVE  Inv'
<1>1. requests' \in [Requests -> Request]  BY DEF Inv, TypeOK
<1>2. TypeOK'  BY <1>1 DEF TypeOK, Past
<1>3. ASSUME NEW s \in Requests PROVE ReqOK(requests'[s], users', businesses', invites')
  <2>1. CASE s = r
    <3>1. requests'[s] = q  BY <2>1 DEF Inv, TypeOK
    <3>2. QED  BY <3>1
  <2>2. CASE s # r
    <3>1. requests'[s] = requests[s]  BY <2>2 DEF Inv, TypeOK
    <3>2. ReqOK(requests[s], users, businesses, invites)  BY DEF Inv
    <3>3. ReqOK(requests[s], users', businesses', invites')  BY <3>2, ReqCarries
    <3>4. QED  BY <3>1, <3>3
  <2>3. QED  BY <2>1, <2>2
<1>4. QED  BY <1>2, <1>3 DEF Inv

LEMMA NothingTouched ==
    /\ UsersKept(users, users)
    /\ BusinessesKept(businesses, businesses)
    /\ InvitesKept(invites, invites)
BY DEF UsersKept, BusinessesKept, InvitesKept

\* A step that only reads the tables.
LEMMA ReadKeeps ==
    ASSUME Inv, NEW r \in Requests, NEW q \in Request, Continue(r, q),
           UNCHANGED <<users, businesses, invites>>, past' \in Past,
           ReqOK(q, users, businesses, invites)
    PROVE  Inv'
<1>1. issued' \in 0..MaxRequests  BY DEF Continue, Inv, TypeOK
<1>2. /\ users' \in [Accounts -> User \cup {None}] /\ businesses' \in [Businesses -> Business]
      /\ invites' \in [Invites -> Invite]
  BY DEF Inv, TypeOK
<1>3. InvitesNamed(invites') /\ Owners(users', businesses')  BY DEF Inv
<1>4. ReqOK(q, users', businesses', invites')  OBVIOUS
<1>5. requests' = [requests EXCEPT ![r] = q]  BY DEF Continue
<1>6. /\ UsersKept(users, users') /\ BusinessesKept(businesses, businesses')
      /\ InvitesKept(invites, invites')
  BY NothingTouched
<1>7. QED  BY <1>1, <1>2, <1>3, <1>4, <1>5, <1>6, StepKeeps

LEMMA BeginKeeps ==
    ASSUME Inv, NEW r \in Requests, NEW q \in Request, NEW operation, Begin(operation, r, q),
           UNCHANGED <<users, businesses, invites, past>>,
           ReqOK(q, users, businesses, invites)
    PROVE  Inv'
<1>1. issued' \in 0..MaxRequests  BY BoundAssumption DEF Begin, Inv, TypeOK
<1>2. /\ users' \in [Accounts -> User \cup {None}] /\ businesses' \in [Businesses -> Business]
      /\ invites' \in [Invites -> Invite] /\ past' \in Past
  BY DEF Inv, TypeOK, Past
<1>3. InvitesNamed(invites') /\ Owners(users', businesses')  BY DEF Inv
<1>4. ReqOK(q, users', businesses', invites')  OBVIOUS
<1>5. requests' = [requests EXCEPT ![r] = q]  BY DEF Begin
<1>6. /\ UsersKept(users, users') /\ BusinessesKept(businesses, businesses')
      /\ InvitesKept(invites, invites')
  BY NothingTouched
<1>7. QED  BY <1>1, <1>2, <1>3, <1>4, <1>5, <1>6, StepKeeps

\* A step that changes users but makes no owner.
LEMMA UsersStepKeeps ==
    ASSUME Inv, NEW r \in Requests, NEW q \in Request, Continue(r, q),
           UNCHANGED <<businesses, invites>>, past' \in Past,
           users' \in [Accounts -> User \cup {None}], UsersKept(users, users'),
           \A a \in Accounts : users'[a] # None /\ users'[a].role = "owner" => users[a] # None,
           ReqOK(q, users', businesses, invites)
    PROVE  Inv'
<1>1. issued' \in 0..MaxRequests  BY DEF Continue, Inv, TypeOK
<1>2. businesses' \in [Businesses -> Business] /\ invites' \in [Invites -> Invite]
  BY DEF Inv, TypeOK
<1>3. /\ BusinessesKept(businesses, businesses') /\ InvitesKept(invites, invites')
      /\ InvitesNamed(invites')
  BY NothingTouched DEF Inv
<1>4. Owners(users', businesses')
  <2>1. Owners(users, businesses) /\ users \in [Accounts -> User \cup {None}]  BY DEF Inv, TypeOK
  <2>2. Owners(users', businesses)  BY <2>1, NothingTouched, OwnersCarry
  <2>3. QED  BY <2>2
<1>5. ReqOK(q, users', businesses', invites')  OBVIOUS
<1>6. requests' = [requests EXCEPT ![r] = q]  BY DEF Continue
<1>7. QED  BY <1>1, <1>2, <1>3, <1>4, <1>5, <1>6, StepKeeps

\* A step that changes invites only.
LEMMA InvitesStepKeeps ==
    ASSUME Inv, NEW r \in Requests, NEW q \in Request, Continue(r, q),
           UNCHANGED <<users, businesses>>, past' \in Past,
           invites' \in [Invites -> Invite], InvitesKept(invites, invites'), InvitesNamed(invites'),
           ReqOK(q, users, businesses, invites')
    PROVE  Inv'
<1>1. issued' \in 0..MaxRequests  BY DEF Continue, Inv, TypeOK
<1>2. users' \in [Accounts -> User \cup {None}] /\ businesses' \in [Businesses -> Business]
  BY DEF Inv, TypeOK
<1>3. UsersKept(users, users') /\ BusinessesKept(businesses, businesses')
  BY NothingTouched
<1>4. Owners(users', businesses')  BY DEF Inv
<1>5. ReqOK(q, users', businesses', invites')  OBVIOUS
<1>6. requests' = [requests EXCEPT ![r] = q]  BY DEF Continue
<1>7. QED  BY <1>1, <1>2, <1>3, <1>4, <1>5, <1>6, StepKeeps

LEMMA RevokeType ==
    ASSUME Inv, NEW set, \A i \in set : invites[i].status = "pending", Revoke(set)
    PROVE  /\ invites' \in [Invites -> Invite]
           /\ InvitesKept(invites, invites')
           /\ InvitesNamed(invites')
<1> DEFINE after(i) == IF i \in set THEN [invites[i] EXCEPT !.status = "revoked"] ELSE invites[i]
<1>1. \A i \in Invites : invites[i] \in Invite  BY DEF Inv, TypeOK
<1>2. \A i \in Invites : /\ after(i) \in Invite
                         /\ after(i).biz = invites[i].biz
                         /\ after(i).status # "none" => invites[i].status # "none"
  BY <1>1 DEF Invite, InviteStatuses
<1>3. invites' = [i \in Invites |-> after(i)]  BY DEF Revoke
<1> HIDE DEF after
<1>4. QED  BY <1>2, <1>3 DEF InvitesKept, InvitesNamed, Inv

LEMMA IdleOK == Idle \in Request /\ ReqOK(Idle, users, businesses, invites)
BY NoneAssumption DEF Idle, Request, Stages, ReqOK, HasFields, HasInvite, HasRow, HasState

\* An answered request owes nothing, whatever the tables hold.
LEMMA IdleOwesNothing == ASSUME NEW us, NEW bs, NEW is PROVE ReqOK(Idle, us, bs, is)
BY DEF Idle, ReqOK, HasFields, HasInvite, HasRow, HasState

LEMMA NotNone == None \notin User /\ None \notin Accounts /\ None \notin Businesses /\ None \notin Invites
BY NoneAssumption

LEMMA RowType == ASSUME Inv, NEW a \in Accounts, users[a] # None PROVE users[a] \in User
BY DEF Inv, TypeOK

-----------------------------------------------------------------------------
(* The staff operations. *)

LEMMA StaffBeginKeeps ==
    ASSUME Inv, NEW r \in Requests, NEW a \in Accounts, StaffBegin(r, a) PROVE Inv'
<1>1. CASE UpdateLanguage(r, a)
  <2> DEFINE q == [Idle EXCEPT !.pc = "language", !.by = a]
  <2>1. q \in Request  BY DEF Idle, Request, Stages
  <2>2. ReqOK(q, users, businesses, invites)
    BY DEF Idle, ReqOK, HasFields, HasInvite, HasRow, HasState
  <2>3. QED  BY <1>1, <2>1, <2>2, BeginKeeps DEF UpdateLanguage
<1>2. CASE Leave(r, a)
  <2> DEFINE q == [Idle EXCEPT !.pc = "leave", !.by = a, !.actor = users[a], !.target = a]
  <2>1. users[a] \in User  BY <1>2, RowType DEF Leave, Active
  <2>2. q \in Request  BY <2>1 DEF Idle, Request, Stages
  <2>3. ReqOK(q, users, businesses, invites)
    BY <2>1 DEF Idle, ReqOK, HasFields, HasInvite, HasRow, HasState
  <2>4. QED  BY <1>2, <2>2, <2>3, BeginKeeps DEF Leave
<1>3. ASSUME NEW target \in Accounts, Remove(r, a, target) PROVE Inv'
  <2> DEFINE q == [Idle EXCEPT !.pc = "remove", !.by = a, !.actor = users[a], !.target = target]
  <2>1. users[a] \in User  BY <1>3, RowType DEF Remove, Active
  <2>2. q \in Request  BY <2>1 DEF Idle, Request, Stages
  <2>3. ReqOK(q, users, businesses, invites)
    BY <2>1 DEF Idle, ReqOK, HasFields, HasInvite, HasRow, HasState
  <2>4. QED  BY <1>3, <2>2, <2>3, BeginKeeps DEF Remove
<1>4. ASSUME NEW target \in Accounts, NEW role \in {"waiter", "manager"},
             ChangeRole(r, a, target, role)
      PROVE Inv'
  <2> DEFINE q == [Idle EXCEPT !.pc = "teammate", !.by = a, !.actor = users[a], !.target = target,
                               !.role = role]
  <2>1. users[a] \in User  BY <1>4, RowType DEF ChangeRole, Active
  <2>2. q \in Request  BY <2>1 DEF Idle, Request, Stages, Roles
  <2>3. ReqOK(q, users, businesses, invites)
    BY <2>1 DEF Idle, ReqOK, HasFields, HasInvite, HasRow, HasState
  <2>4. QED  BY <1>4, <2>2, <2>3, BeginKeeps DEF ChangeRole
<1>5. QED  BY <1>1, <1>2, <1>3, <1>4 DEF StaffBegin

LEMMA StaffStepKeeps ==
    ASSUME Inv, NEW r \in Requests, StaffStep(r) PROVE Inv'
<1> DEFINE p == requests[r]
<1>1. p \in Request /\ ReqOK(p, users, businesses, invites)  BY DEF Inv, TypeOK
<1>2. past \in Past  BY DEF Inv, TypeOK, Past
<1>3. CASE ReadLanguage(r)
  <2>1. p.pc = "language" /\ p.by \in Accounts
    BY <1>1, <1>3 DEF ReadLanguage, ReqOK, HasFields
  <2>2. CASE Active(p.by)
    <3> DEFINE q == [p EXCEPT !.pc = "save", !.target = p.by, !.row = users[p.by], !.inv = None]
    <3>1. users[p.by] \in User  BY <2>1, <2>2, RowType DEF Active
    <3>2. q \in Request
      <4>1. "save" \in Stages  BY DEF Stages
      <4>2. QED  BY <1>1, <2>1, <3>1, <4>1 DEF Request
    <3>3. ReqOK(q, users, businesses, invites)
      BY <1>1, <2>1, <2>2, <3>1
      DEF Active, Request, Harmless, ReqOK, HasFields, HasInvite, HasRow, HasState
    <3>4. Continue(r, q)  BY <1>3, <2>2 DEF ReadLanguage
    <3>5. QED  BY <1>2, <1>3, <3>2, <3>3, <3>4, ReadKeeps DEF ReadLanguage
  <2>3. CASE ~Active(p.by)
    BY <1>2, <1>3, <2>3, IdleOK, ReadKeeps DEF ReadLanguage
  <2>4. QED  BY <2>2, <2>3
<1>4. CASE ReadTeammate(r)
  <2>1. /\ p.pc = "teammate" /\ p.by \in Accounts /\ p.target \in Accounts
        /\ p.actor \in User /\ p.role \in {"waiter", "manager"}
    BY <1>1, <1>4 DEF ReadTeammate, ReqOK, HasFields
  <2>2. past' \in Past
    <3>1. <<p.target, p.actor.biz>> \in Accounts \X Businesses  BY <2>1 DEF User
    <3>2. QED  BY <1>2, <1>4, <3>1 DEF ReadTeammate, Past
  <2>3. CASE TeammateOf(p)
    <3> DEFINE q == [p EXCEPT !.pc = "save", !.row = [users[p.target] EXCEPT !.role = p.role]]
    <3>1. users[p.target] \in User  BY <2>1, <2>3, RowType DEF TeammateOf, Active
    <3>2. q.row \in User  BY <1>1, <2>1, <3>1 DEF User, Roles, Request
    <3>3. q \in Request
      <4>1. "save" \in Stages  BY DEF Stages
      <4>2. QED  BY <1>1, <2>1, <3>2, <4>1 DEF Request
    <3>4. Harmless(q.row, q.target, users)
      BY <1>1, <2>1, <2>3, <3>1, <3>2 DEF Harmless, TeammateOf, Active, User, Request
    <3>5. ReqOK(q, users, businesses, invites)
      BY <1>1, <2>1, <3>4 DEF Request, ReqOK, HasFields, HasInvite, HasRow, HasState
    <3>6. Continue(r, q)  BY <1>4, <2>3 DEF ReadTeammate
    <3>7. QED  BY <1>4, <2>2, <3>3, <3>5, <3>6, ReadKeeps DEF ReadTeammate
  <2>4. CASE ~TeammateOf(p)
    BY <1>4, <2>2, <2>4, IdleOK, ReadKeeps DEF ReadTeammate
  <2>5. QED  BY <2>3, <2>4
<1>5. CASE SaveUser(r)
  <2>1. p.target \in Accounts /\ Harmless(p.row, p.target, users)
    BY <1>1, <1>5 DEF SaveUser, ReqOK, HasFields, HasRow
  <2>2. users' = [users EXCEPT ![p.target] = p.row]  BY <1>5 DEF SaveUser
  <2>3. users' \in [Accounts -> User \cup {None}]  BY <2>1, <2>2 DEF Inv, TypeOK, Harmless
  <2>4. UsersKept(users, users')
    BY <2>1, <2>2, NotNone DEF UsersKept, Harmless, Inv, TypeOK
  <2>5. \A a \in Accounts : users'[a] # None /\ users'[a].role = "owner" => users[a] # None
    BY <2>1, <2>2 DEF Harmless, Inv, TypeOK
  <2>6. Continue(r, Idle) /\ UNCHANGED <<businesses, invites, past>>  BY <1>5 DEF SaveUser
  <2>7. past' \in Past  BY <1>2, <2>6
  <2>8. QED  BY <2>3, <2>4, <2>5, <2>6, <2>7, IdleOK, IdleOwesNothing, UsersStepKeeps
<1>6. CASE EndMembership(r)
  <2>1. p.target \in Accounts  BY <1>1, <1>6 DEF EndMembership, ReqOK, HasFields
  <2>2. CASE ~MayEnd(p)
    BY <1>2, <1>6, <2>2, IdleOK, ReadKeeps DEF EndMembership
  <2>3. CASE MayEnd(p)
    <3>1. users[p.target] \in User /\ users[p.target] # None /\ users[p.target].role # "owner"
      BY <2>1, <2>3, RowType DEF MayEnd, Active
    <3>2. users' = [users EXCEPT ![p.target] = [users[p.target] EXCEPT !.active = FALSE]]
      BY <1>6, <2>3 DEF EndMembership
    <3>3. [users[p.target] EXCEPT !.active = FALSE] \in User  BY <3>1 DEF User
    <3>4. users' \in [Accounts -> User \cup {None}]  BY <2>1, <3>2, <3>3 DEF Inv, TypeOK
    <3>5. UsersKept(users, users')
      BY <2>1, <3>1, <3>2, <3>3, NotNone DEF UsersKept, Inv, TypeOK, User
    <3>6. \A a \in Accounts : users'[a] # None /\ users'[a].role = "owner" => users[a] # None
      BY <2>1, <3>1, <3>2 DEF Inv, TypeOK
    <3>7. Revoke(Forsaken(p.target))  BY <1>6, <2>3 DEF EndMembership
    <3>8. /\ invites' \in [Invites -> Invite]
          /\ InvitesKept(invites, invites') /\ InvitesNamed(invites')
      BY <3>7, RevokeType DEF Forsaken
    <3>9. Continue(r, Idle) /\ UNCHANGED <<businesses, past>>  BY <1>6 DEF EndMembership
    <3>10. Owners(users', businesses')
      <4>1. Owners(users, businesses) /\ users \in [Accounts -> User \cup {None}]
        BY DEF Inv, TypeOK
      <4>2. Owners(users', businesses)  BY <3>5, <3>6, <4>1, NothingTouched, OwnersCarry
      <4>3. QED  BY <3>9, <4>2
    <3>11. /\ businesses' \in [Businesses -> Business] /\ BusinessesKept(businesses, businesses')
           /\ past' \in Past /\ issued' \in 0..MaxRequests
           /\ requests' = [requests EXCEPT ![r] = Idle]
      BY <1>2, <3>9, NothingTouched DEF Continue, Inv, TypeOK
    <3>12. QED  BY <3>4, <3>5, <3>8, <3>10, <3>11, IdleOK, IdleOwesNothing, StepKeeps
  <2>4. QED  BY <2>2, <2>3
<1>7. QED  BY <1>3, <1>4, <1>5, <1>6 DEF StaffStep

-----------------------------------------------------------------------------
(* Invites. *)

LEMMA InviteBeginKeeps ==
    ASSUME Inv, NEW r \in Requests, NEW a \in Accounts, InviteBegin(r, a) PROVE Inv'
<1>1. CASE StartBot(r, a)
  <2> DEFINE q == [Idle EXCEPT !.pc = "find", !.by = a]
  <2>1. q \in Request  BY DEF Idle, Request, Stages
  <2>2. ReqOK(q, users, businesses, invites)
    BY DEF Idle, ReqOK, HasFields, HasInvite, HasRow, HasState
  <2>3. QED  BY <1>1, <2>1, <2>2, BeginKeeps DEF StartBot
<1>2. ASSUME NEW role \in {"waiter", "manager"}, NEW chosen \in SUBSET Accounts,
             InviteBatch(r, a, role, chosen)
      PROVE Inv'
  <2> DEFINE q == [Idle EXCEPT !.pc = "invitees", !.by = a, !.biz = users[a].biz, !.role = role,
                               !.todo = chosen]
  <2>1. users[a].biz \in Businesses  BY <1>2, RowType DEF InviteBatch, Active, User
  <2>2. q \in Request  BY <2>1 DEF Idle, Request, Stages, Roles
  <2>3. ReqOK(q, users, businesses, invites)
    BY <2>1 DEF Idle, ReqOK, HasFields, HasInvite, HasRow, HasState
  <2>4. QED  BY <1>2, <2>2, <2>3, BeginKeeps DEF InviteBatch
<1>3. ASSUME NEW i \in Invites, RevokeInvite(r, a, i) PROVE Inv'
  <2> DEFINE q == [Idle EXCEPT !.pc = "revoke", !.by = a, !.inv = i]
  <2>1. invites[i].biz \in Businesses
    BY <1>3 DEF RevokeInvite, Inv, InvitesNamed
  <2>2. q \in Request  BY DEF Idle, Request, Stages
  <2>3. ReqOK(q, users, businesses, invites)
    BY <2>1 DEF Idle, ReqOK, HasFields, HasInvite, HasRow, HasState
  <2>4. QED  BY <1>3, <2>2, <2>3, BeginKeeps DEF RevokeInvite
<1>4. QED  BY <1>1, <1>2, <1>3 DEF InviteBegin

\* The request after an invitee is done with.
LEMMA NextInviteeOK ==
    ASSUME NEW q \in Request, q.by \in Accounts, q.role \in {"waiter", "manager"},
           q.biz \in Businesses, NEW us, NEW bs, NEW is
    PROVE  NextInvitee(q) \in Request /\ ReqOK(NextInvitee(q), us, bs, is)
<1>1. CASE q.todo = {q.target}
  BY <1>1, IdleOK, IdleOwesNothing DEF NextInvitee
<1>2. CASE q.todo # {q.target}
  <2> DEFINE n == [q EXCEPT !.pc = "invitees", !.target = None, !.todo = q.todo \ {q.target}]
  <2>1. NextInvitee(q) = n  BY <1>2 DEF NextInvitee
  <2>2. n \in Request
    <3>1. "invitees" \in Stages  BY DEF Stages
    <3>2. QED  BY <3>1 DEF Request
  <2>3. ReqOK(n, us, bs, is)  BY DEF Request, ReqOK, HasFields, HasInvite, HasRow, HasState
  <2>4. QED  BY <2>1, <2>2, <2>3
<1>3. QED  BY <1>1, <1>2

\* Saving a status over an Invite.
LEMMA SetInviteType ==
    ASSUME Inv, NEW i \in Invites, NEW status \in InviteStatuses, invites[i].biz \in Businesses,
           SetInvite(i, status)
    PROVE  /\ invites' \in [Invites -> Invite]
           /\ InvitesKept(invites, invites')
           /\ InvitesNamed(invites')
<1>1. invites[i] \in Invite  BY DEF Inv, TypeOK
<1>2. [invites[i] EXCEPT !.status = status] \in Invite  BY <1>1 DEF Invite
<1>3. invites' = [invites EXCEPT ![i] = [invites[i] EXCEPT !.status = status]]  BY DEF SetInvite
<1>4. invites' \in [Invites -> Invite]  BY <1>2, <1>3 DEF Inv, TypeOK
<1>5. \A j \in Invites : invites'[j].biz = invites[j].biz /\ (j # i => invites'[j] = invites[j])
  BY <1>1, <1>3 DEF Inv, TypeOK, Invite
<1>6. QED  BY <1>4, <1>5 DEF InvitesKept, InvitesNamed, Inv

LEMMA InviteStepKeeps ==
    ASSUME Inv, NEW r \in Requests, InviteStep(r) PROVE Inv'
<1> DEFINE p == requests[r]
<1>1. p \in Request /\ ReqOK(p, users, businesses, invites)  BY DEF Inv, TypeOK
<1>2. past \in Past  BY DEF Inv, TypeOK, Past
<1>3. ASSUME NEW x \in Accounts, CheckInvitee(r, x) PROVE Inv'
  <2> DEFINE q == [p EXCEPT !.target = x]
  <2>1. /\ p.pc = "invitees" /\ p.by \in Accounts /\ p.role \in {"waiter", "manager"}
        /\ p.biz \in Businesses
    BY <1>1, <1>3 DEF CheckInvitee, ReqOK, HasFields, Request
  <2>2. /\ q \in Request /\ q.by \in Accounts /\ q.role \in {"waiter", "manager"}
        /\ q.biz \in Businesses /\ q.target = x
    BY <1>1, <2>1 DEF Request
  <2>3. CASE Active(x)
    <3>1. Continue(r, NextInvitee(q))  BY <1>3, <2>3 DEF CheckInvitee
    <3>2. NextInvitee(q) \in Request /\ ReqOK(NextInvitee(q), users, businesses, invites)
      BY <2>2, NextInviteeOK
    <3>3. QED  BY <1>2, <1>3, <3>1, <3>2, ReadKeeps DEF CheckInvitee
  <2>4. CASE ~Active(x)
    <3> DEFINE n == [q EXCEPT !.pc = "replace"]
    <3>1. Continue(r, n)  BY <1>3, <2>4 DEF CheckInvitee
    <3>2. n \in Request
      <4>1. "replace" \in Stages  BY DEF Stages
      <4>2. QED  BY <2>2, <4>1 DEF Request
    <3>3. ReqOK(n, users, businesses, invites)
      BY <2>2 DEF Request, ReqOK, HasFields, HasInvite, HasRow, HasState
    <3>4. QED  BY <1>2, <1>3, <3>1, <3>2, <3>3, ReadKeeps DEF CheckInvitee
  <2>5. QED  BY <2>3, <2>4
<1>4. CASE ReplacePending(r)
  <2> DEFINE q == [p EXCEPT !.pc = "insert"]
  <2>1. Revoke(PendingFor(p.target)) /\ Continue(r, q) /\ UNCHANGED <<users, businesses, past>>
    BY <1>4 DEF ReplacePending
  <2>2. /\ invites' \in [Invites -> Invite]
        /\ InvitesKept(invites, invites') /\ InvitesNamed(invites')
    BY <2>1, RevokeType DEF PendingFor
  <2>3. q \in Request
    <3>1. "insert" \in Stages  BY DEF Stages
    <3>2. QED  BY <1>1, <3>1 DEF Request
  <2>4. ReqOK(q, users, businesses, invites')
    BY <1>1, <1>4 DEF ReplacePending, Request, ReqOK, HasFields, HasInvite, HasRow, HasState
  <2>5. past' \in Past  BY <1>2, <2>1
  <2>6. QED  BY <2>1, <2>2, <2>3, <2>4, <2>5, InvitesStepKeeps
<1>5. CASE InsertInvite(r)
  <2>1. /\ p.pc = "insert" /\ p.by \in Accounts /\ p.target \in Accounts
        /\ p.role \in {"waiter", "manager"} /\ p.biz \in Businesses
    BY <1>1, <1>5 DEF InsertInvite, ReqOK, HasFields
  <2>2. NextInvitee(p) \in Request /\ ReqOK(NextInvitee(p), users, businesses, invites')
    BY <1>1, <2>1, NextInviteeOK
  <2>3. Continue(r, NextInvitee(p)) /\ UNCHANGED <<users, businesses>>  BY <1>5 DEF InsertInvite
  <2>4. CASE UNCHANGED <<invites, past>>
    BY <1>2, <2>2, <2>3, <2>4, ReadKeeps
  <2>5. CASE ~UNCHANGED <<invites, past>>
    <3> DEFINE new == [status |-> "pending", to |-> p.target, biz |-> p.biz, role |-> p.role,
                       by |-> p.by, late |-> FALSE]
    <3>1. PICK i \in Invites : invites' = [invites EXCEPT ![i] = new]
      BY <1>5, <2>5 DEF InsertInvite
    <3>2. new \in Invite /\ new.biz \in Businesses  BY <2>1 DEF Invite, InviteStatuses
    <3> HIDE DEF new
    <3>3. invites' \in [Invites -> Invite]  BY <3>1, <3>2 DEF Inv, TypeOK
    <3>4. InvitesKept(invites, invites') /\ InvitesNamed(invites')
      BY <3>1, <3>2 DEF InvitesKept, InvitesNamed, Inv, TypeOK
    <3>5. past' \in Past
      <4>1. <<p.target, p.biz>> \in Accounts \X Businesses  BY <2>1
      <4>2. QED  BY <1>2, <1>5, <4>1 DEF InsertInvite, Past
    <3>6. QED  BY <2>2, <2>3, <3>3, <3>4, <3>5, InvitesStepKeeps
  <2>6. QED  BY <2>4, <2>5
<1>6. CASE FindInvite(r)
  <2>1. p.pc = "find" /\ p.by \in Accounts /\ p.then \in {"idle", "account"}
    BY <1>1, <1>6 DEF FindInvite, ReqOK, HasFields
  <2>2. CASE Continue(r, Idle)
    BY <1>2, <1>6, <2>2, IdleOK, ReadKeeps DEF FindInvite
  <2>3. ASSUME NEW i \in PendingFor(p.by), NEW stage \in {"expire", "member"},
               Continue(r, [p EXCEPT !.pc = stage, !.inv = i])
        PROVE Inv'
    <3> DEFINE q == [p EXCEPT !.pc = stage, !.inv = i]
    <3>1. i \in Invites /\ invites[i].biz \in Businesses  BY DEF PendingFor, InvitesNamed, Inv
    <3>2. q \in Request
      <4>1. stage \in Stages  BY DEF Stages
      <4>2. QED  BY <1>1, <3>1, <4>1 DEF Request
    <3>3. ReqOK(q, users, businesses, invites)
      BY <1>1, <2>1, <3>1 DEF Request, ReqOK, HasFields, HasInvite, HasRow, HasState
    <3>4. QED  BY <1>2, <1>6, <2>3, <3>2, <3>3, ReadKeeps DEF FindInvite
  <2>4. QED  BY <1>6, <2>2, <2>3 DEF FindInvite
<1>7. CASE ExpireInvite(r)
  <2>1. /\ p.pc = "expire" /\ p.by \in Accounts /\ p.then \in {"idle", "account"}
        /\ p.inv \in Invites /\ invites[p.inv].biz \in Businesses
    BY <1>1, <1>7 DEF ExpireInvite, ReqOK, HasFields, HasInvite
  <2>2. SetInvite(p.inv, "expired") /\ UNCHANGED <<users, businesses, past>>
    BY <1>7 DEF ExpireInvite
  <2>3. /\ invites' \in [Invites -> Invite]
        /\ InvitesKept(invites, invites') /\ InvitesNamed(invites')
    BY <2>1, <2>2, SetInviteType DEF InviteStatuses
  <2>4. past' \in Past  BY <1>2, <2>2
  <2>5. CASE p.then = "idle"
    BY <1>7, <2>2, <2>3, <2>4, <2>5, IdleOK, IdleOwesNothing, InvitesStepKeeps DEF ExpireInvite
  <2>6. CASE p.then # "idle"
    <3> DEFINE q == [p EXCEPT !.pc = p.then, !.inv = None]
    <3>1. q \in Request
      <4>1. "insert" \in Stages  BY DEF Stages
      <4>2. QED  BY <1>1, <2>1, <4>1 DEF Request
    <3>2. ReqOK(q, users, businesses, invites')
      BY <1>1, <2>1, <2>6 DEF Request, ReqOK, HasFields, HasInvite, HasRow, HasState
    <3>3. Continue(r, q)  BY <1>7, <2>6 DEF ExpireInvite
    <3>4. QED  BY <2>2, <2>3, <2>4, <3>1, <3>2, <3>3, InvitesStepKeeps
  <2>7. QED  BY <2>5, <2>6
<1>8. CASE ReadMember(r)
  <2>1. /\ p.pc = "member" /\ p.by \in Accounts
        /\ p.inv \in Invites /\ invites[p.inv].biz \in Businesses
    BY <1>1, <1>8 DEF ReadMember, ReqOK, HasFields, HasInvite
  <2>2. CASE Active(p.by)
    BY <1>2, <1>8, <2>2, IdleOK, ReadKeeps DEF ReadMember
  <2>3. CASE ~Active(p.by)
    <3> DEFINE q == [p EXCEPT !.pc = "admit", !.row = users[p.by]]
    <3>1. users[p.by] \in User \cup {None}  BY <2>1 DEF Inv, TypeOK
    <3>2. q \in Request
      <4>1. "admit" \in Stages  BY DEF Stages
      <4>2. QED  BY <1>1, <3>1, <4>1 DEF Request
    <3>3. users[p.by] # None => users[p.by].role # "owner"
      BY <2>1, <2>3 DEF Active, Inv, Owners, OwnerRow
    <3>4. ReqOK(q, users, businesses, invites)
      BY <1>1, <2>1, <3>3 DEF Request, ReqOK, HasFields, HasInvite, HasRow, HasState
    <3>5. Continue(r, q)  BY <1>8, <2>3 DEF ReadMember
    <3>6. QED  BY <1>2, <1>8, <3>2, <3>4, <3>5, ReadKeeps DEF ReadMember
  <2>4. QED  BY <2>2, <2>3
<1>9. CASE Admit(r)
  <2>1. /\ p.pc = "admit" /\ p.by \in Accounts
        /\ p.inv \in Invites /\ invites[p.inv].biz \in Businesses
        /\ p.row # None => users[p.by] # None /\ users[p.by].role # "owner"
    BY <1>1, <1>9 DEF Admit, ReqOK, HasFields, HasInvite, HasRow
  <2>2. CASE InsertLoses(p)
    <3>1. UNCHANGED <<users, businesses, invites, past>>  BY <1>9, <2>2 DEF Admit
    <3>2. Continue(r, Idle)  BY <1>9, <2>2 DEF Admit
    <3>3. QED  BY <1>2, <3>1, <3>2, IdleOK, ReadKeeps
  <2>3. CASE ~InsertLoses(p)
    <3> DEFINE row == [biz |-> invites[p.inv].biz, role |-> invites[p.inv].role, active |-> TRUE]
               q == [p EXCEPT !.pc = "redeemed", !.row = None]
    <3>1. users' = [users EXCEPT ![p.by] = row]  BY <1>9, <2>3 DEF Admit
    <3>2. row \in User /\ row.role # "owner" /\ row # None
      <4>1. invites[p.inv].role \in {"waiter", "manager"}  BY <2>1 DEF Inv, TypeOK, Invite
      <4>2. row \in User /\ row.role # "owner"  BY <2>1, <4>1 DEF User, Roles
      <4>3. QED  BY <4>2, NotNone
    <3> HIDE DEF row
    <3>3. users[p.by] # None => users[p.by].role # "owner"  BY <2>1, <2>3 DEF InsertLoses
    <3>4. users' \in [Accounts -> User \cup {None}]  BY <3>1, <3>2 DEF Inv, TypeOK
    <3>5. UsersKept(users, users')
      BY <2>1, <3>1, <3>2, <3>3 DEF UsersKept, Inv, TypeOK
    <3>6. \A a \in Accounts : users'[a] # None /\ users'[a].role = "owner" => users[a] # None
      BY <2>1, <3>1, <3>2 DEF Inv, TypeOK
    <3>7. q \in Request
      <4>1. "redeemed" \in Stages  BY DEF Stages
      <4>2. QED  BY <1>1, <4>1 DEF Request
    <3>8. ReqOK(q, users', businesses, invites)
      BY <1>1, <2>1 DEF Request, ReqOK, HasFields, HasInvite, HasRow, HasState
    <3>9. Continue(r, q) /\ UNCHANGED <<businesses, invites, past>>  BY <1>9, <2>3 DEF Admit
    <3>10. past' \in Past  BY <1>2, <3>9
    <3>11. QED  BY <3>4, <3>5, <3>6, <3>7, <3>8, <3>9, <3>10, UsersStepKeeps
  <2>4. QED  BY <2>2, <2>3
<1>10. CASE SaveRedeemed(r)
  <2> DEFINE q == [p EXCEPT !.pc = "language"]
  <2>1. /\ p.pc = "redeemed" /\ p.by \in Accounts
        /\ p.inv \in Invites /\ invites[p.inv].biz \in Businesses
    BY <1>1, <1>10 DEF SaveRedeemed, ReqOK, HasFields, HasInvite
  <2>2. SetInvite(p.inv, "redeemed") /\ Continue(r, q) /\ UNCHANGED <<users, businesses, past>>
    BY <1>10 DEF SaveRedeemed
  <2>3. /\ invites' \in [Invites -> Invite]
        /\ InvitesKept(invites, invites') /\ InvitesNamed(invites')
    BY <2>1, <2>2, SetInviteType DEF InviteStatuses
  <2>4. q \in Request
    <3>1. "language" \in Stages  BY DEF Stages
    <3>2. QED  BY <1>1, <3>1 DEF Request
  <2>5. ReqOK(q, users, businesses, invites')
    BY <1>1, <2>1 DEF Request, ReqOK, HasFields, HasInvite, HasRow, HasState
  <2>6. past' \in Past  BY <1>2, <2>2
  <2>7. QED  BY <2>2, <2>3, <2>4, <2>5, <2>6, InvitesStepKeeps
<1>11. CASE SaveRevoked(r)
  <2>1. p.inv \in Invites /\ invites[p.inv].biz \in Businesses
    BY <1>1, <1>11 DEF SaveRevoked, ReqOK, HasInvite
  <2>2. SetInvite(p.inv, "revoked") /\ Continue(r, Idle) /\ UNCHANGED <<users, businesses, past>>
    BY <1>11 DEF SaveRevoked
  <2>3. /\ invites' \in [Invites -> Invite]
        /\ InvitesKept(invites, invites') /\ InvitesNamed(invites')
    BY <2>1, <2>2, SetInviteType DEF InviteStatuses
  <2>4. past' \in Past  BY <1>2, <2>2
  <2>5. QED  BY <2>2, <2>3, <2>4, IdleOK, IdleOwesNothing, InvitesStepKeeps
<1>12. QED
  BY <1>3, <1>4, <1>5, <1>6, <1>7, <1>8, <1>9, <1>10, <1>11 DEF InviteStep

-----------------------------------------------------------------------------
(* Registrations and decisions. *)

LEMMA RegistrationBeginKeeps ==
    ASSUME Inv, NEW r \in Requests, NEW a \in Accounts, RegistrationBegin(r, a) PROVE Inv'
<1>1. CASE OpenMiniApp(r, a)
  <2> DEFINE q == [Idle EXCEPT !.pc = "entry", !.by = a]
  <2>1. q \in Request  BY DEF Idle, Request, Stages
  <2>2. ReqOK(q, users, businesses, invites)
    BY DEF Idle, ReqOK, HasFields, HasInvite, HasRow, HasState
  <2>3. QED  BY <1>1, <2>1, <2>2, BeginKeeps DEF OpenMiniApp
<1>2. CASE Register(r, a)
  <2> DEFINE q == [Idle EXCEPT !.pc = "entry", !.by = a, !.then = "account"]
  <2>1. q \in Request  BY DEF Idle, Request, Stages
  <2>2. ReqOK(q, users, businesses, invites)
    BY DEF Idle, ReqOK, HasFields, HasInvite, HasRow, HasState
  <2>3. QED  BY <1>2, <2>1, <2>2, BeginKeeps DEF Register
<1>3. QED  BY <1>1, <1>2 DEF RegistrationBegin

LEMMA DecisionBeginKeeps ==
    ASSUME Inv, NEW r \in Requests, DecisionBegin(r) PROVE Inv'
<1>1. PICK b \in Businesses, decision \in Decisions : Decide(r, b, decision)
  BY DEF DecisionBegin
<1> DEFINE after == [businesses[b] EXCEPT !.status = Outcome(decision)]
           step == IF decision = "approve" THEN "approve" ELSE "idle"
           q == [Idle EXCEPT !.pc = "decide", !.biz = b, !.then = step, !.state = after]
<1>2. businesses[b] \in Business  BY DEF Inv, TypeOK
<1>3. Outcome(decision) \in Statuses \ {"none"}  BY DEF Decisions, Outcome, Statuses
<1>4. after \in Business /\ after.owner = businesses[b].owner /\ after.status # "none"
  BY <1>2, <1>3 DEF Business
<1>5. businesses[b].status # "none"  BY <1>1 DEF Decide, Decidable, Decisions
<1>6. step \in Stages \cup {"approve"}  BY DEF Stages
<1>7. Begin(decision, r, q) /\ UNCHANGED <<users, businesses, invites, past>>
  BY <1>1 DEF Decide
<1> HIDE DEF after, step
<1>8. q \in Request  BY <1>4, <1>6 DEF Idle, Request, Stages
<1>9. ReqOK(q, users, businesses, invites)
  BY <1>4, <1>5 DEF Idle, ReqOK, HasFields, HasInvite, HasRow, HasState
<1>10. QED  BY <1>7, <1>8, <1>9, BeginKeeps

\* The inserted Business and its prospective owner.
LEMMA CreateKeepsOwners ==
    ASSUME Inv, NEW a \in Accounts, NEW b \in Businesses, users[a] = None,
           businesses[b] = NoBusiness,
           businesses' = [businesses EXCEPT ![b] = [status |-> "pending", owner |-> a]],
           users' = [users EXCEPT ![a] = [biz |-> b, role |-> "owner", active |-> TRUE]]
    PROVE  /\ users' \in [Accounts -> User \cup {None}]
           /\ businesses' \in [Businesses -> Business]
           /\ UsersKept(users, users') /\ BusinessesKept(businesses, businesses')
           /\ Owners(users', businesses')
<1> DEFINE row == [biz |-> b, role |-> "owner", active |-> TRUE]
           new == [status |-> "pending", owner |-> a]
<1>1. row \in User /\ row # None
  <2>1. row \in User  BY DEF User, Roles
  <2> HIDE DEF row
  <2>2. QED  BY <2>1, NotNone
<1>2. new \in Business  BY DEF Business, Statuses
<1>3. businesses[b].status = "none"  BY DEF NoBusiness
<1>4. /\ users \in [Accounts -> User \cup {None}]
      /\ businesses \in [Businesses -> Business]
  BY DEF Inv, TypeOK
<1>5. users'[a] = row /\ (\A c \in Accounts \ {a} : users'[c] = users[c])  BY <1>4
<1>6. businesses'[b] = new /\ (\A c \in Businesses \ {b} : businesses'[c] = businesses[c])  BY <1>4
<1>7. users' \in [Accounts -> User \cup {None}] /\ businesses' \in [Businesses -> Business]
  BY <1>1, <1>2, <1>4
<1>8. UsersKept(users, users')  BY <1>5 DEF UsersKept
<1>9. BusinessesKept(businesses, businesses')  BY <1>3, <1>6 DEF BusinessesKept
<1>10. ASSUME NEW c \in Accounts PROVE OwnerRow(c, users', businesses')
  <2>1. CASE c = a  BY <1>5, <1>6, <2>1 DEF OwnerRow
  <2>2. CASE c # a
    <3> SUFFICES ASSUME users[c] # None, users[c].role = "owner"
                 PROVE  /\ users[c].active
                        /\ businesses'[users[c].biz].status # "none"
                        /\ businesses'[users[c].biz].owner = c
      BY <1>5, <2>2 DEF OwnerRow
    <3>1. users[c].biz \in Businesses  BY <1>4 DEF User
    <3>2. /\ users[c].active /\ businesses[users[c].biz].status # "none"
          /\ businesses[users[c].biz].owner = c
      BY DEF Inv, Owners, OwnerRow
    <3>3. users[c].biz # b  BY <1>3, <3>2
    <3>4. QED  BY <1>6, <3>1, <3>2, <3>3
  <2>3. QED  BY <2>1, <2>2
<1>11. ASSUME NEW c \in Businesses PROVE OwnerThere(c, users', businesses')
  <2>1. CASE c = b  BY <1>1, <1>5, <1>6, <2>1 DEF OwnerThere
  <2>2. CASE c # b
    <3>1. businesses'[c] = businesses[c] /\ OwnerThere(c, users, businesses)
      BY <1>6, <2>2 DEF Inv, Owners
    <3>2. QED  BY <1>5, <3>1 DEF OwnerThere
  <2>3. QED  BY <2>1, <2>2
<1>12. QED  BY <1>7, <1>8, <1>9, <1>10, <1>11 DEF Owners

\* Saving a Business entity that still names the table's owner.
LEMMA SaveBusinessKeepsOwners ==
    ASSUME Inv, NEW b \in Businesses, NEW state \in Business, state.status # "none",
           businesses[b].status # "none", state.owner = businesses[b].owner,
           businesses' = [businesses EXCEPT ![b] = state], UNCHANGED users
    PROVE  /\ businesses' \in [Businesses -> Business]
           /\ BusinessesKept(businesses, businesses')
           /\ Owners(users', businesses')
<1>1. businesses \in [Businesses -> Business] /\ users \in [Accounts -> User \cup {None}]
  BY DEF Inv, TypeOK
<1>2. businesses' \in [Businesses -> Business]  BY <1>1
<1>3. BusinessesKept(businesses, businesses')  BY <1>1 DEF BusinessesKept
<1>4. \A c \in Businesses : businesses'[c].status # "none" => businesses[c].status # "none"
  BY <1>1
<1>5. Owners(users, businesses')
  <2>1. ASSUME NEW a \in Accounts PROVE OwnerRow(a, users, businesses')
    <3>1. users[a] # None => users[a].biz \in Businesses  BY <1>1 DEF User
    <3>2. OwnerRow(a, users, businesses)  BY DEF Inv, Owners
    <3>3. QED  BY <1>3, <3>1, <3>2 DEF OwnerRow, BusinessesKept
  <2>2. ASSUME NEW c \in Businesses PROVE OwnerThere(c, users, businesses')
    <3>1. OwnerThere(c, users, businesses)  BY DEF Inv, Owners
    <3>2. QED  BY <1>3, <1>4, <3>1 DEF OwnerThere, BusinessesKept
  <2>3. QED  BY <2>1, <2>2 DEF Owners
<1>6. QED  BY <1>2, <1>3, <1>5

LEMMA RegistrationStepKeeps ==
    ASSUME Inv, NEW r \in Requests, RegistrationStep(r) PROVE Inv'
<1> DEFINE p == requests[r]
<1>1. p \in Request /\ ReqOK(p, users, businesses, invites)  BY DEF Inv, TypeOK
<1>2. past \in Past  BY DEF Inv, TypeOK, Past
<1>3. CASE ReadEntry(r)
  <2>1. p.pc = "entry" /\ p.by \in Accounts /\ p.then \in {"idle", "account"}
    BY <1>1, <1>3 DEF ReadEntry, ReqOK, HasFields
  <2>2. UNCHANGED <<users, businesses, invites, past>>  BY <1>3 DEF ReadEntry
  <2>3. CASE Continue(r, Idle)
    BY <1>2, <2>2, <2>3, IdleOK, ReadKeeps
  <2>4. CASE p.then # "idle" /\ Continue(r, [p EXCEPT !.pc = p.then])
    <3> DEFINE q == [p EXCEPT !.pc = p.then]
    <3>1. p.then \in Stages  BY <2>1 DEF Stages
    <3>2. q \in Request  BY <1>1, <3>1 DEF Request
    <3>3. ReqOK(q, users, businesses, invites)
      BY <1>1, <2>1, <2>4 DEF Request, ReqOK, HasFields, HasInvite, HasRow, HasState
    <3>4. QED  BY <1>2, <2>2, <2>4, <3>2, <3>3, ReadKeeps
  <2>5. ASSUME NEW i \in PendingFor(p.by), Continue(r, [p EXCEPT !.pc = "expire", !.inv = i])
        PROVE Inv'
    <3> DEFINE q == [p EXCEPT !.pc = "expire", !.inv = i]
    <3>1. i \in Invites /\ invites[i].biz \in Businesses  BY DEF PendingFor, InvitesNamed, Inv
    <3>2. "expire" \in Stages  BY DEF Stages
    <3>3. q \in Request  BY <1>1, <3>1, <3>2 DEF Request
    <3>4. ReqOK(q, users, businesses, invites)
      BY <1>1, <2>1, <3>1 DEF Request, ReqOK, HasFields, HasInvite, HasRow, HasState
    <3>5. QED  BY <1>2, <2>2, <2>5, <3>3, <3>4, ReadKeeps
  <2>6. QED  BY <1>3, <2>3, <2>4, <2>5 DEF ReadEntry
<1>4. CASE ReadAccount(r)
  <2>1. p.pc = "account" /\ p.by \in Accounts  BY <1>1, <1>4 DEF ReadAccount, ReqOK, HasFields
  <2>2. UNCHANGED <<users, businesses, invites, past>>  BY <1>4 DEF ReadAccount
  <2>3. CASE users[p.by] = None
    <3> DEFINE q == [p EXCEPT !.pc = "create", !.then = "idle"]
    <3>1. "create" \in Stages /\ "idle" \in Stages  BY DEF Stages
    <3>2. q \in Request  BY <1>1, <3>1 DEF Request
    <3>3. ReqOK(q, users, businesses, invites)
      BY <1>1, <2>1 DEF Request, ReqOK, HasFields, HasInvite, HasRow, HasState
    <3>4. Continue(r, q)  BY <1>4, <2>3 DEF ReadAccount
    <3>5. QED  BY <1>2, <2>2, <3>2, <3>3, <3>4, ReadKeeps
  <2>4. CASE users[p.by] # None /\ Revisable(p.by)
    <3> DEFINE b == users[p.by].biz
               state == businesses[b]
               q == [p EXCEPT !.pc = "revise", !.row = users[p.by], !.then = "idle", !.biz = b,
                              !.state = state]
    <3>1. users[p.by] \in User  BY <2>1, <2>4, RowType
    <3>2. b \in Businesses /\ state \in Business  BY <3>1 DEF User, Inv, TypeOK
    <3>3. state.status # "none"  BY <2>4 DEF Revisable
    <3>4. "revise" \in Stages /\ "idle" \in Stages  BY DEF Stages
    <3>5. q \in Request  BY <1>1, <3>1, <3>2, <3>4 DEF Request
    <3>6. /\ q.pc = "revise" /\ q.by = p.by /\ q.row = users[p.by] /\ q.biz = b /\ q.state = state
      BY <1>1 DEF Request
    <3>7. ReqOK(q, users, businesses, invites)
      BY <2>1, <2>4, <3>1, <3>2, <3>3, <3>6
      DEF ReqOK, HasFields, HasInvite, HasRow, HasState, Harmless
    <3>8. Continue(r, q)  BY <1>4, <2>4 DEF ReadAccount
    <3>9. QED  BY <1>2, <2>2, <3>5, <3>7, <3>8, ReadKeeps
  <2>5. CASE users[p.by] # None /\ ~Revisable(p.by)
    <3>1. Continue(r, Idle)  BY <1>4, <2>5 DEF ReadAccount
    <3>2. QED  BY <1>2, <2>2, <3>1, IdleOK, ReadKeeps
  <2>6. QED  BY <2>3, <2>4, <2>5
<1>5. CASE CreateBusiness(r)
  <2> DEFINE q == [p EXCEPT !.pc = "entry"]
  <2>1. p.pc = "create" /\ p.by \in Accounts /\ p.then \in {"idle", "account"}
    BY <1>1, <1>5 DEF CreateBusiness, ReqOK, HasFields
  <2>2. "entry" \in Stages  BY DEF Stages
  <2>3. q \in Request  BY <1>1, <2>2 DEF Request
  <2>4. \A us, bs : ReqOK(q, us, bs, invites)
    BY <1>1, <2>1 DEF Request, ReqOK, HasFields, HasInvite, HasRow, HasState
  <2>5. Continue(r, q) /\ UNCHANGED <<invites, past>>  BY <1>5 DEF CreateBusiness
  <2>6. CASE UNCHANGED <<users, businesses>>
    BY <1>2, <2>3, <2>4, <2>5, <2>6, ReadKeeps
  <2>7. CASE ~UNCHANGED <<users, businesses>>
    <3>1. users[p.by] = None  BY <1>5, <2>7 DEF CreateBusiness, Unregistered
    <3>2. PICK b \in Businesses :
            /\ businesses[b] = NoBusiness
            /\ businesses' = [businesses EXCEPT ![b] = [status |-> "pending", owner |-> p.by]]
            /\ users' = [users EXCEPT ![p.by] = [biz |-> b, role |-> "owner", active |-> TRUE]]
      BY <1>5, <2>7 DEF CreateBusiness
    <3>3. /\ users' \in [Accounts -> User \cup {None}] /\ businesses' \in [Businesses -> Business]
          /\ UsersKept(users, users') /\ BusinessesKept(businesses, businesses')
          /\ Owners(users', businesses')
      BY <2>1, <3>1, <3>2, CreateKeepsOwners
    <3>4. /\ invites' \in [Invites -> Invite] /\ InvitesKept(invites, invites')
          /\ InvitesNamed(invites') /\ past' \in Past /\ issued' \in 0..MaxRequests
          /\ requests' = [requests EXCEPT ![r] = q]
      BY <1>2, <2>5, NothingTouched DEF Continue, Inv, TypeOK
    <3>5. ReqOK(q, users', businesses', invites')  BY <2>4, <2>5
    <3>6. QED  BY <2>3, <3>3, <3>4, <3>5, StepKeeps
  <2>8. QED  BY <2>6, <2>7
<1>6. CASE Revise(r)
  <2> DEFINE state == [p.state EXCEPT !.status = "pending"]
             q == [p EXCEPT !.pc = "save", !.target = p.by]
  <2>1. /\ p.pc = "revise" /\ p.by \in Accounts /\ p.biz \in Businesses /\ p.state \in Business
        /\ businesses[p.biz].status # "none" /\ p.state.owner = businesses[p.biz].owner
        /\ Harmless(p.row, p.by, users)
    BY <1>1, <1>6 DEF Revise, ReqOK, HasFields, HasRow, HasState
  <2>2. state \in Business /\ state.status # "none" /\ state.owner = p.state.owner
    BY <2>1 DEF Business, Statuses
  <2>3. /\ businesses' = [businesses EXCEPT ![p.biz] = state]
        /\ Continue(r, q) /\ UNCHANGED <<users, invites, past>>
    BY <1>6 DEF Revise
  <2> HIDE DEF state
  <2>4. /\ businesses' \in [Businesses -> Business] /\ BusinessesKept(businesses, businesses')
        /\ Owners(users', businesses')
    BY <2>1, <2>2, <2>3, SaveBusinessKeepsOwners
  <2>5. "save" \in Stages  BY DEF Stages
  <2>6. q \in Request  BY <1>1, <2>1, <2>5 DEF Request
  <2>7. q.pc = "save" /\ q.by = p.by /\ q.target = p.by /\ q.row = p.row  BY <1>1 DEF Request
  <2>8. ReqOK(q, users', businesses', invites')
    BY <2>1, <2>3, <2>7 DEF ReqOK, HasFields, HasInvite, HasRow, HasState
  <2>9. /\ users' \in [Accounts -> User \cup {None}] /\ UsersKept(users, users')
        /\ invites' \in [Invites -> Invite] /\ InvitesKept(invites, invites')
        /\ InvitesNamed(invites') /\ past' \in Past /\ issued' \in 0..MaxRequests
        /\ requests' = [requests EXCEPT ![r] = q]
    BY <1>2, <2>3, NothingTouched DEF Continue, Inv, TypeOK
  <2>10. QED  BY <2>4, <2>6, <2>8, <2>9, StepKeeps
<1>7. CASE SaveDecision(r)
  <2>1. /\ p.pc = "decide" /\ p.biz \in Businesses /\ p.state \in Business
        /\ businesses[p.biz].status # "none" /\ p.state.owner = businesses[p.biz].owner
        /\ p.state.status # "none"
    BY <1>1, <1>7 DEF SaveDecision, ReqOK, HasFields, HasState
  <2>2. /\ businesses' = [businesses EXCEPT ![p.biz] = p.state]
        /\ Continue(r, Idle) /\ UNCHANGED <<users, invites>>
    BY <1>7 DEF SaveDecision
  <2>3. /\ businesses' \in [Businesses -> Business] /\ BusinessesKept(businesses, businesses')
        /\ Owners(users', businesses')
    BY <2>1, <2>2, SaveBusinessKeepsOwners
  <2>4. past' \in Past  BY <1>2, <1>7, <2>1 DEF SaveDecision, Past
  <2>5. /\ users' \in [Accounts -> User \cup {None}] /\ UsersKept(users, users')
        /\ invites' \in [Invites -> Invite] /\ InvitesKept(invites, invites')
        /\ InvitesNamed(invites') /\ issued' \in 0..MaxRequests
        /\ requests' = [requests EXCEPT ![r] = Idle]
    BY <2>2, NothingTouched DEF Continue, Inv, TypeOK
  <2>6. QED  BY <2>3, <2>4, <2>5, IdleOK, IdleOwesNothing, StepKeeps
<1>8. QED  BY <1>3, <1>4, <1>5, <1>6, <1>7 DEF RegistrationStep

LEMMA LapseKeeps ==
    ASSUME Inv, NEW i \in Invites, InviteLapses(i) PROVE Inv'
<1>1. invites[i] \in Invite  BY DEF Inv, TypeOK
<1>2. invites' = [invites EXCEPT ![i] = [invites[i] EXCEPT !.late = TRUE]]  BY DEF InviteLapses
<1>3. [invites[i] EXCEPT !.late = TRUE] \in Invite  BY <1>1 DEF Invite
<1>4. invites' \in [Invites -> Invite]  BY <1>2, <1>3 DEF Inv, TypeOK
<1>5. \A j \in Invites : invites'[j].biz = invites[j].biz /\ invites'[j].status = invites[j].status
  BY <1>1, <1>2 DEF Inv, TypeOK, Invite
<1>6. InvitesKept(invites, invites') /\ InvitesNamed(invites')
  BY <1>5 DEF InvitesKept, InvitesNamed, Inv
<1>7. UNCHANGED <<users, businesses, requests, past, issued>>  BY DEF InviteLapses
<1>8. TypeOK'  BY <1>4, <1>7 DEF Inv, TypeOK
<1>9. \A r \in Requests : ReqOK(requests[r], users, businesses, invites')
  BY <1>6, NothingTouched, ReqCarries DEF Inv
<1>10. QED  BY <1>6, <1>7, <1>8, <1>9 DEF Inv

-----------------------------------------------------------------------------
(* The invariant, and what follows from it. *)

LEMMA InitInv == Init => Inv
<1> SUFFICES ASSUME Init PROVE Inv
  OBVIOUS
<1>1. users \in [Accounts -> User \cup {None}]  BY StaffAssumption DEF Init
<1>2. ASSUME NEW b \in Businesses
      PROVE  /\ businesses[b] \in Business
             /\ OwnerThere(b, users, businesses)
             /\ \A a \in Accounts : users[a] # None /\ users[a].role = "owner" /\ users[a].biz = b
                  => businesses[b].status # "none" /\ businesses[b].owner = a
  <2> DEFINE Mine(a) == Staff[a] # None /\ Staff[a].biz = b /\ Staff[a].role = "owner"
  <2>1. businesses[b] = InitialOwner(b)  BY DEF Init
  <2>2. CASE \E a \in Accounts : Mine(a)
    <3> DEFINE o == CHOOSE a \in Accounts : Mine(a)
    <3>1. o \in Accounts /\ Mine(o)  BY <2>2
    <3>2. businesses[b] = [status |-> "active", owner |-> o]  BY <2>1, <2>2 DEF InitialOwner
    <3> HIDE DEF o
    <3>3. \A a \in Accounts : Mine(a) => a = o  BY <3>1, StaffAssumption
    <3>4. QED  BY <3>1, <3>2, <3>3 DEF Business, Statuses, OwnerThere, Init
  <2>3. CASE ~\E a \in Accounts : Mine(a)
    <3>1. businesses[b] = NoBusiness  BY <2>1, <2>3 DEF InitialOwner
    <3>2. \A a \in Accounts : ~Mine(a)  BY <2>3
    <3>3. QED  BY <3>1, <3>2 DEF NoBusiness, Business, Statuses, OwnerThere, Init
  <2>4. QED  BY <2>2, <2>3
<1>3. businesses \in [Businesses -> Business]
  <2>1. businesses = [b \in Businesses |-> InitialOwner(b)]  BY DEF Init
  <2>2. \A b \in Businesses : InitialOwner(b) \in Business  BY <1>2, <2>1
  <2>3. QED  BY <2>1, <2>2
<1>4. ASSUME NEW a \in Accounts PROVE OwnerRow(a, users, businesses)
  <2>1. users[a] # None => users[a].active /\ users[a].biz \in Businesses
    BY StaffAssumption DEF Init, User
  <2>2. QED  BY <1>2, <2>1 DEF OwnerRow
<1>5. NoInvite \in Invite /\ NoInvite.status = "none"  BY DEF NoInvite, Invite, InviteStatuses
<1>6. invites \in [Invites -> Invite] /\ InvitesNamed(invites)
  BY <1>5 DEF Init, InvitesNamed
<1>7. requests \in [Requests -> Request]  BY IdleOK DEF Init
<1>8. \A r \in Requests : ReqOK(requests[r], users, businesses, invites)
  BY IdleOwesNothing DEF Init
<1>9. past \in Past
  <2> DEFINE managers == {<<a, Staff[a].biz>> : a \in {x \in Accounts : IsManager(Staff[x])}}
  <2>1. managers \subseteq Accounts \X Businesses
    BY StaffAssumption DEF IsManager, User
  <2> HIDE DEF managers
  <2>2. past = [managers |-> managers,
                approved |-> {b \in Businesses : InitialOwner(b) # NoBusiness},
                activated |-> {b \in Businesses : InitialOwner(b) # NoBusiness}]
    BY DEF Init, managers
  <2>3. QED  BY <2>1, <2>2 DEF Past
<1>10. issued \in 0..MaxRequests  BY BoundAssumption DEF Init
<1>11. TypeOK  BY <1>1, <1>3, <1>6, <1>7, <1>9, <1>10 DEF TypeOK, Past
<1>12. QED  BY <1>2, <1>4, <1>6, <1>8, <1>11 DEF Inv, Owners

LEMMA NextInv == Inv /\ [Next]_vars => Inv'
<1> SUFFICES ASSUME Inv, [Next]_vars PROVE Inv'
  OBVIOUS
<1>1. ASSUME NEW r \in Requests, NEW a \in Accounts,
             StaffBegin(r, a) \/ InviteBegin(r, a) \/ RegistrationBegin(r, a)
      PROVE Inv'
  BY <1>1, StaffBeginKeeps, InviteBeginKeeps, RegistrationBeginKeeps
<1>2. ASSUME NEW r \in Requests, DecisionBegin(r) PROVE Inv'
  BY <1>2, DecisionBeginKeeps
<1>3. ASSUME NEW r \in Requests, StaffStep(r) \/ InviteStep(r) \/ RegistrationStep(r) PROVE Inv'
  BY <1>3, StaffStepKeeps, InviteStepKeeps, RegistrationStepKeeps
<1>4. ASSUME NEW i \in Invites, InviteLapses(i) PROVE Inv'
  BY <1>4, LapseKeeps
<1>5. CASE UNCHANGED vars
  BY <1>5 DEF vars, Inv, TypeOK
<1>6. QED  BY <1>1, <1>2, <1>3, <1>4, <1>5 DEF Next

\* The invariant holds throughout: what a request has read never lets its save
\* take an owner's row or a Business's owner away.
THEOREM Inductive == Spec => []Inv
<1>1. Init => Inv  BY InitInv
<1>2. Inv /\ [Next]_vars => Inv'  BY NextInv
<1>3. QED  BY <1>1, <1>2, PTL DEF Spec

\* Every table row, and every request in flight, has its type.
THEOREM TypeCorrect == Spec => []TypeOK
<1>1. Inv => TypeOK  BY DEF Inv
<1>2. QED  BY <1>1, Inductive, PTL

\* OneOwner: exactly one owner per registered Business, its registrant, active.
THEOREM OwnersSound == Spec => []OneOwner
<1>1. Inv => OneOwner
  <2> SUFFICES ASSUME Inv, NEW b \in Businesses, businesses[b].status # "none"
               PROVE  /\ {a \in Accounts : users[a] # None /\ users[a].biz = b
                                             /\ users[a].role = "owner"}
                           = {businesses[b].owner}
                      /\ Active(businesses[b].owner)
    BY DEF OneOwner
  <2>1. /\ businesses[b].owner \in Accounts
        /\ users[businesses[b].owner] # None
        /\ users[businesses[b].owner].role = "owner"
        /\ users[businesses[b].owner].biz = b
    BY DEF Inv, Owners, OwnerThere
  <2>2. \A a \in Accounts : users[a] # None /\ users[a].biz = b /\ users[a].role = "owner"
          => users[a].active /\ businesses[b].owner = a
    BY DEF Inv, Owners, OwnerRow
  <2>3. QED  BY <2>1, <2>2 DEF Active
<1>2. QED  BY <1>1, Inductive, PTL

-----------------------------------------------------------------------------
(***************************************************************************)
(* Who works for a Business.  That a row of the users table rests on an    *)
(* Invite, an activated Business and a grant of its Owner is not inductive: *)
(* requests write rows, Invites and Businesses they have read earlier.      *)
(* Grounded says the same of what they are about to write; Inv above says   *)
(* why an owner stays one meanwhile.                                        *)
(***************************************************************************)
\* A membership or an Invite rests on an Invite of that Business, or on the staff of the start.
Entitled(a, b, is) ==
    \/ Staff[a] # None /\ Staff[a].biz = b
    \/ \E i \in Invites : is[i].status # "none" /\ is[i].to = a /\ is[i].biz = b
GrantedIn(a, b, role, ps) == b \in ps.activated /\ (role = "manager" => <<a, b>> \in ps.managers)
OwnsIn(a, b, us) ==
    us[a] # None /\ us[a].active /\ us[a].biz = b /\ us[a].role = "owner"

\* A row that is no owner's, in the table or about to be saved.
RowGrounded(row, a, is, ps) ==
    row.role # "owner" => Entitled(a, row.biz, is) /\ GrantedIn(a, row.biz, row.role, ps)
UsersGrounded(us, is, ps) == \A a \in Accounts : us[a] # None => RowGrounded(us[a], a, is, ps)
InvitesGrounded(is, ps) ==
    \A i \in Invites : is[i].status # "none" => GrantedIn(is[i].to, is[i].biz, is[i].role, ps)
BusinessesGrounded(bs, ps) == \A b \in Businesses : bs[b].status = "active" => b \in ps.activated

ReqGrounded(q, us, is, ps) ==
    /\ q.pc = "save" => q.row.active /\ RowGrounded(q.row, q.target, is, ps)
    /\ q.pc = "revise" => q.row.active /\ RowGrounded(q.row, q.by, is, ps)
    /\ q.pc = "leave" => q.target = q.by
    /\ q.pc = "remove" /\ q.actor.role = "owner" => OwnsIn(q.by, q.actor.biz, us)
    /\ q.pc \in {"invitees", "replace", "insert"} =>
         q.biz \in ps.activated /\ (q.role = "manager" => OwnsIn(q.by, q.biz, us))
    /\ q.pc \in {"expire", "member", "admit", "redeemed", "revoke"} => is[q.inv].status # "none"
    /\ q.pc \in {"member", "admit", "redeemed"} => is[q.inv].to = q.by

Grounded ==
    /\ UsersGrounded(users, invites, past)
    /\ InvitesGrounded(invites, past)
    /\ BusinessesGrounded(businesses, past)
    /\ \A r \in Requests : ReqGrounded(requests[r], users, invites, past)

\* What no step does: change whom, what and where an Invite is for, or forget.
InvitesFixed(is, is2) ==
    \A i \in Invites : is[i].status # "none" =>
        /\ is2[i].status # "none"
        /\ is2[i].to = is[i].to /\ is2[i].biz = is[i].biz /\ is2[i].role = is[i].role
PastGrows(ps, ps2) == ps.managers \subseteq ps2.managers /\ ps.activated \subseteq ps2.activated

-----------------------------------------------------------------------------
(* What carries over from one state of the tables to the next. *)

LEMMA EntitledCarries ==
    ASSUME NEW is, NEW is2, InvitesFixed(is, is2), NEW a, NEW b, Entitled(a, b, is)
    PROVE  Entitled(a, b, is2)
BY DEF Entitled, InvitesFixed

LEMMA RowCarries ==
    ASSUME NEW is, NEW is2, NEW ps, NEW ps2, InvitesFixed(is, is2), PastGrows(ps, ps2),
           NEW row, NEW a, RowGrounded(row, a, is, ps)
    PROVE  RowGrounded(row, a, is2, ps2)
<1> SUFFICES ASSUME row.role # "owner"
             PROVE  Entitled(a, row.biz, is2) /\ GrantedIn(a, row.biz, row.role, ps2)
  BY DEF RowGrounded
<1>1. Entitled(a, row.biz, is) /\ GrantedIn(a, row.biz, row.role, ps)  BY DEF RowGrounded
<1>2. Entitled(a, row.biz, is2)  BY <1>1, EntitledCarries
<1>3. GrantedIn(a, row.biz, row.role, ps2)  BY <1>1 DEF GrantedIn, PastGrows
<1>4. QED  BY <1>2, <1>3

LEMMA OwnsCarries ==
    ASSUME NEW us, NEW us2, UsersKept(us, us2), NEW a \in Accounts, NEW b, OwnsIn(a, b, us)
    PROVE  OwnsIn(a, b, us2)
BY DEF OwnsIn, UsersKept

LEMMA GroundCarries ==
    ASSUME NEW q, NEW us, NEW us2, NEW is, NEW is2, NEW ps, NEW ps2,
           HasFields(q), HasInvite(q, is), ReqGrounded(q, us, is, ps),
           UsersKept(us, us2), InvitesFixed(is, is2), PastGrows(ps, ps2)
    PROVE  ReqGrounded(q, us2, is2, ps2)
<1>1. q.pc = "save" => q.row.active /\ RowGrounded(q.row, q.target, is2, ps2)
  BY RowCarries DEF ReqGrounded
<1>2. q.pc = "revise" => q.row.active /\ RowGrounded(q.row, q.by, is2, ps2)
  BY RowCarries DEF ReqGrounded
<1>3. q.pc = "leave" => q.target = q.by  BY DEF ReqGrounded
<1>4. q.pc = "remove" /\ q.actor.role = "owner" => OwnsIn(q.by, q.actor.biz, us2)
  BY OwnsCarries DEF ReqGrounded, HasFields
<1>5. q.pc \in {"invitees", "replace", "insert"} =>
        q.biz \in ps2.activated /\ (q.role = "manager" => OwnsIn(q.by, q.biz, us2))
  BY OwnsCarries DEF ReqGrounded, HasFields, PastGrows
<1>6. q.pc \in {"expire", "member", "admit", "redeemed", "revoke"} =>
        /\ is2[q.inv].status # "none"
        /\ is2[q.inv].to = is[q.inv].to
  BY DEF ReqGrounded, HasInvite, InvitesFixed
<1>7. q.pc \in {"member", "admit", "redeemed"} => is2[q.inv].to = q.by
  BY <1>6 DEF ReqGrounded
<1>8. QED  BY <1>1, <1>2, <1>3, <1>4, <1>5, <1>6, <1>7 DEF ReqGrounded

\* A step of one request leaves the others grounded.
LEMMA GroundKept ==
    ASSUME Inv, Grounded, NEW r \in Requests, NEW q, requests' = [requests EXCEPT ![r] = q],
           UsersKept(users, users'), InvitesFixed(invites, invites'), PastGrows(past, past'),
           UsersGrounded(users', invites', past'), InvitesGrounded(invites', past'),
           BusinessesGrounded(businesses', past'), ReqGrounded(q, users', invites', past')
    PROVE  Grounded'
<1>1. ASSUME NEW s \in Requests PROVE ReqGrounded(requests'[s], users', invites', past')
  <2>1. CASE s = r
    <3>1. requests'[s] = q  BY <2>1 DEF Inv, TypeOK
    <3>2. QED  BY <3>1
  <2>2. CASE s # r
    <3>1. requests'[s] = requests[s]  BY <2>2 DEF Inv, TypeOK
    <3>2. HasFields(requests[s]) /\ HasInvite(requests[s], invites)  BY DEF Inv, ReqOK
    <3>3. ReqGrounded(requests[s], users, invites, past)  BY DEF Grounded
    <3>4. ReqGrounded(requests[s], users', invites', past')  BY <3>2, <3>3, GroundCarries
    <3>5. QED  BY <3>1, <3>4
  <2>3. QED  BY <2>1, <2>2
<1>2. QED  BY <1>1 DEF Grounded

LEMMA NothingLost ==
    UsersKept(users, users) /\ InvitesFixed(invites, invites) /\ PastGrows(past, past)
BY DEF UsersKept, InvitesFixed, PastGrows

\* Rows and Invites stay grounded when Invites are only added to and history grows.
LEMMA TablesCarry ==
    ASSUME Grounded, NEW is2, NEW ps2, InvitesFixed(invites, is2), PastGrows(past, ps2)
    PROVE  UsersGrounded(users, is2, ps2) /\ BusinessesGrounded(businesses, ps2)
<1>1. UsersGrounded(users, is2, ps2)
  BY RowCarries DEF Grounded, UsersGrounded
<1>2. BusinessesGrounded(businesses, ps2)  BY DEF Grounded, BusinessesGrounded, PastGrows
<1>3. QED  BY <1>1, <1>2

\* A step that only reads the tables.
LEMMA ReadGrounded ==
    ASSUME Inv, Grounded, NEW r \in Requests, NEW q, requests' = [requests EXCEPT ![r] = q],
           UNCHANGED <<users, businesses, invites>>, PastGrows(past, past'),
           ReqGrounded(q, users, invites, past')
    PROVE  Grounded'
<1>1. UsersKept(users, users') /\ InvitesFixed(invites, invites')  BY NothingLost
<1>2. UsersGrounded(users', invites', past') /\ BusinessesGrounded(businesses', past')
  BY NothingLost, TablesCarry
<1>3. InvitesGrounded(invites', past')
  BY DEF Grounded, InvitesGrounded, GrantedIn, PastGrows
<1>4. ReqGrounded(q, users', invites', past')  OBVIOUS
<1>5. QED  BY <1>1, <1>2, <1>3, <1>4, GroundKept

LEMMA BeginGrounded ==
    ASSUME Inv, Grounded, NEW r \in Requests, NEW q, NEW operation, Begin(operation, r, q),
           UNCHANGED <<users, businesses, invites, past>>,
           ReqGrounded(q, users, invites, past)
    PROVE  Grounded'
<1>1. requests' = [requests EXCEPT ![r] = q]  BY DEF Begin
<1>2. PastGrows(past, past')  BY NothingLost
<1>3. ReqGrounded(q, users, invites, past')  OBVIOUS
<1>4. UNCHANGED <<users, businesses, invites>>  OBVIOUS
<1>5. QED  BY <1>1, <1>2, <1>3, <1>4, ReadGrounded

\* A step that changes Invites only.
LEMMA InvitesStepGrounded ==
    ASSUME Inv, Grounded, NEW r \in Requests, NEW q, requests' = [requests EXCEPT ![r] = q],
           UNCHANGED <<users, businesses>>, PastGrows(past, past'),
           InvitesFixed(invites, invites'), InvitesGrounded(invites', past'),
           ReqGrounded(q, users, invites', past')
    PROVE  Grounded'
<1>1. UsersKept(users, users')  BY NothingLost
<1>2. UsersGrounded(users', invites', past') /\ BusinessesGrounded(businesses', past')
  BY TablesCarry
<1>3. ReqGrounded(q, users', invites', past')  OBVIOUS
<1>4. QED  BY <1>1, <1>2, <1>3, GroundKept

LEMMA IdleGrounded == ASSUME NEW us, NEW is, NEW ps PROVE ReqGrounded(Idle, us, is, ps)
BY DEF Idle, ReqGrounded

\* Saving another status over an Invite, or revoking some.
LEMMA SetInviteGrounded ==
    ASSUME Inv, Grounded, NEW i \in Invites, NEW status \in InviteStatuses \ {"none"},
           invites[i].status # "none", SetInvite(i, status), UNCHANGED past
    PROVE  InvitesFixed(invites, invites') /\ InvitesGrounded(invites', past')
<1>1. invites[i] \in Invite  BY DEF Inv, TypeOK
<1>2. invites' = [invites EXCEPT ![i] = [invites[i] EXCEPT !.status = status]]  BY DEF SetInvite
<1>3. \A j \in Invites :
        /\ invites'[j].to = invites[j].to /\ invites'[j].biz = invites[j].biz
        /\ invites'[j].role = invites[j].role
        /\ invites'[j].status # "none" <=> invites[j].status # "none"
  BY <1>1, <1>2 DEF Inv, TypeOK, Invite
<1>4. QED  BY <1>3 DEF InvitesFixed, InvitesGrounded, Grounded

LEMMA RevokeGrounded ==
    ASSUME Inv, Grounded, NEW set, \A i \in set : invites[i].status = "pending", Revoke(set),
           UNCHANGED past
    PROVE  InvitesFixed(invites, invites') /\ InvitesGrounded(invites', past')
<1> DEFINE after(i) == IF i \in set THEN [invites[i] EXCEPT !.status = "revoked"] ELSE invites[i]
<1>1. \A i \in Invites : invites[i] \in Invite  BY DEF Inv, TypeOK
<1>2. \A i \in Invites :
        /\ after(i).to = invites[i].to /\ after(i).biz = invites[i].biz
        /\ after(i).role = invites[i].role
        /\ after(i).status # "none" <=> invites[i].status # "none"
  BY <1>1 DEF Invite
<1>3. invites' = [i \in Invites |-> after(i)]  BY DEF Revoke
<1> HIDE DEF after
<1>4. QED  BY <1>2, <1>3 DEF InvitesFixed, InvitesGrounded, Grounded

-----------------------------------------------------------------------------
(* Requests begin. *)

LEMMA BeginsGrounded ==
    ASSUME Inv, Grounded, NEW r \in Requests,
           \/ \E a \in Accounts : StaffBegin(r, a) \/ InviteBegin(r, a) \/ RegistrationBegin(r, a)
           \/ DecisionBegin(r)
    PROVE  Grounded'
<1>1. ASSUME NEW a \in Accounts, UpdateLanguage(r, a) PROVE Grounded'
  <2> DEFINE q == [Idle EXCEPT !.pc = "language", !.by = a]
  <2>1. ReqGrounded(q, users, invites, past)  BY DEF Idle, ReqGrounded
  <2>2. QED  BY <1>1, <2>1, BeginGrounded DEF UpdateLanguage
<1>2. ASSUME NEW a \in Accounts, Leave(r, a) PROVE Grounded'
  <2> DEFINE q == [Idle EXCEPT !.pc = "leave", !.by = a, !.actor = users[a], !.target = a]
  <2>1. ReqGrounded(q, users, invites, past)  BY DEF Idle, ReqGrounded
  <2>2. QED  BY <1>2, <2>1, BeginGrounded DEF Leave
<1>3. ASSUME NEW a \in Accounts, NEW target \in Accounts, Remove(r, a, target) PROVE Grounded'
  <2> DEFINE q == [Idle EXCEPT !.pc = "remove", !.by = a, !.actor = users[a], !.target = target]
  <2>1. users[a].role = "owner" => OwnsIn(a, users[a].biz, users)
    BY <1>3 DEF Remove, Active, OwnsIn
  <2>2. ReqGrounded(q, users, invites, past)  BY <2>1 DEF Idle, ReqGrounded
  <2>3. QED  BY <1>3, <2>2, BeginGrounded DEF Remove
<1>4. ASSUME NEW a \in Accounts, NEW target \in Accounts, NEW role \in {"waiter", "manager"},
             ChangeRole(r, a, target, role)
      PROVE Grounded'
  <2> DEFINE q == [Idle EXCEPT !.pc = "teammate", !.by = a, !.actor = users[a], !.target = target,
                               !.role = role]
  <2>1. ReqGrounded(q, users, invites, past)  BY DEF Idle, ReqGrounded
  <2>2. QED  BY <1>4, <2>1, BeginGrounded DEF ChangeRole
<1>5. ASSUME NEW a \in Accounts, StartBot(r, a) PROVE Grounded'
  <2> DEFINE q == [Idle EXCEPT !.pc = "find", !.by = a]
  <2>1. ReqGrounded(q, users, invites, past)  BY DEF Idle, ReqGrounded
  <2>2. QED  BY <1>5, <2>1, BeginGrounded DEF StartBot
\* An Invite is sent from an active Business, as a manager only by its Owner.
<1>6. ASSUME NEW a \in Accounts, NEW role \in {"waiter", "manager"}, NEW chosen \in SUBSET Accounts,
             InviteBatch(r, a, role, chosen)
      PROVE Grounded'
  <2> DEFINE q == [Idle EXCEPT !.pc = "invitees", !.by = a, !.biz = users[a].biz, !.role = role,
                               !.todo = chosen]
  <2>1. Active(a) /\ businesses[users[a].biz].status = "active"
    BY <1>6 DEF InviteBatch, MayInvite
  <2>2. users[a].biz \in Businesses  BY <2>1, RowType DEF Active, User
  <2>3. users[a].biz \in past.activated  BY <2>1, <2>2 DEF Grounded, BusinessesGrounded
  <2>4. role = "manager" => users[a].role = "owner"  BY <1>6 DEF InviteBatch, InvitableRoles
  <2>5. role = "manager" => OwnsIn(a, users[a].biz, users)  BY <2>1, <2>4 DEF Active, OwnsIn
  <2>6. ReqGrounded(q, users, invites, past)  BY <2>3, <2>5 DEF Idle, ReqGrounded
  <2>7. QED  BY <1>6, <2>6, BeginGrounded DEF InviteBatch
<1>7. ASSUME NEW a \in Accounts, NEW i \in Invites, RevokeInvite(r, a, i) PROVE Grounded'
  <2> DEFINE q == [Idle EXCEPT !.pc = "revoke", !.by = a, !.inv = i]
  <2>1. invites[i].status # "none"  BY <1>7 DEF RevokeInvite
  <2>2. ReqGrounded(q, users, invites, past)  BY <2>1 DEF Idle, ReqGrounded
  <2>3. QED  BY <1>7, <2>2, BeginGrounded DEF RevokeInvite
<1>8. ASSUME NEW a \in Accounts, OpenMiniApp(r, a) PROVE Grounded'
  <2> DEFINE q == [Idle EXCEPT !.pc = "entry", !.by = a]
  <2>1. ReqGrounded(q, users, invites, past)  BY DEF Idle, ReqGrounded
  <2>2. QED  BY <1>8, <2>1, BeginGrounded DEF OpenMiniApp
<1>9. ASSUME NEW a \in Accounts, Register(r, a) PROVE Grounded'
  <2> DEFINE q == [Idle EXCEPT !.pc = "entry", !.by = a, !.then = "account"]
  <2>1. ReqGrounded(q, users, invites, past)  BY DEF Idle, ReqGrounded
  <2>2. QED  BY <1>9, <2>1, BeginGrounded DEF Register
<1>10. ASSUME NEW b \in Businesses, NEW decision \in Decisions, Decide(r, b, decision)
       PROVE Grounded'
  <2> DEFINE after == [businesses[b] EXCEPT !.status = Outcome(decision)]
             step == IF decision = "approve" THEN "approve" ELSE "idle"
             q == [Idle EXCEPT !.pc = "decide", !.biz = b, !.then = step, !.state = after]
  <2>1. ReqGrounded(q, users, invites, past)  BY DEF Idle, ReqGrounded
  <2>2. Begin(decision, r, q) /\ UNCHANGED <<users, businesses, invites, past>>
    BY <1>10 DEF Decide
  <2> HIDE DEF q
  <2>3. QED  BY <2>1, <2>2, BeginGrounded
<1>11. QED
  BY <1>1, <1>2, <1>3, <1>4, <1>5, <1>6, <1>7, <1>8, <1>9, <1>10
  DEF StaffBegin, InviteBegin, RegistrationBegin, DecisionBegin

-----------------------------------------------------------------------------
(* The staff operations. *)

LEMMA StaffStepGrounded ==
    ASSUME Inv, Grounded, NEW r \in Requests, StaffStep(r) PROVE Grounded'
<1> DEFINE p == requests[r]
<1>1. /\ p \in Request /\ HasFields(p) /\ HasInvite(p, invites) /\ HasRow(p, users)
      /\ ReqGrounded(p, users, invites, past)
  BY DEF Inv, TypeOK, ReqOK, Grounded
<1>2. CASE ReadLanguage(r)
  <2>1. p.pc = "language" /\ p.by \in Accounts  BY <1>1, <1>2 DEF ReadLanguage, HasFields
  <2>2. UNCHANGED <<users, businesses, invites>> /\ PastGrows(past, past')
    BY <1>2, NothingLost DEF ReadLanguage
  <2>3. CASE Active(p.by)
    <3> DEFINE q == [p EXCEPT !.pc = "save", !.target = p.by, !.row = users[p.by], !.inv = None]
    <3>1. requests' = [requests EXCEPT ![r] = q]  BY <1>2, <2>3 DEF ReadLanguage, Continue
    <3>2. q.pc = "save" /\ q.target = p.by /\ q.row = users[p.by]  BY <1>1 DEF Request
    <3>3. users[p.by].active /\ RowGrounded(users[p.by], p.by, invites, past)
      BY <2>1, <2>3 DEF Active, Grounded, UsersGrounded
    <3>4. ReqGrounded(q, users, invites, past')
      BY <1>2, <3>2, <3>3 DEF ReadLanguage, ReqGrounded
    <3>5. QED  BY <2>2, <3>1, <3>4, ReadGrounded
  <2>4. CASE ~Active(p.by)
    <3>1. requests' = [requests EXCEPT ![r] = Idle]  BY <1>2, <2>4 DEF ReadLanguage, Continue
    <3>2. QED  BY <2>2, <3>1, IdleGrounded, ReadGrounded
  <2>5. QED  BY <2>3, <2>4
\* A promotion is granted as it is read; a demotion needs no grant.
<1>3. CASE ReadTeammate(r)
  <2>1. /\ p.pc = "teammate" /\ p.target \in Accounts /\ p.actor \in User
        /\ p.role \in {"waiter", "manager"}
    BY <1>1, <1>3 DEF ReadTeammate, HasFields
  <2>2. UNCHANGED <<users, businesses, invites>>  BY <1>3 DEF ReadTeammate
  <2>3. past \in Past  BY DEF Inv, TypeOK, Past
  <2>4. PastGrows(past, past') /\ (TeammateOf(p) /\ p.role = "manager" =>
                                     <<p.target, p.actor.biz>> \in past'.managers)
    BY <1>3, <2>3 DEF ReadTeammate, PastGrows, Past
  <2>5. CASE TeammateOf(p)
    <3> DEFINE q == [p EXCEPT !.pc = "save", !.row = [users[p.target] EXCEPT !.role = p.role]]
    <3>1. requests' = [requests EXCEPT ![r] = q]  BY <1>3, <2>5 DEF ReadTeammate, Continue
    <3>2. users[p.target] \in User  BY <2>1, <2>5, RowType DEF TeammateOf, Active
    <3>3. /\ q.pc = "save" /\ q.target = p.target
          /\ q.row.biz = users[p.target].biz /\ q.row.role = p.role
          /\ q.row.active = users[p.target].active
      BY <1>1, <3>2 DEF Request, User
    <3>4. /\ users[p.target] # None /\ users[p.target].active
          /\ users[p.target].biz = p.actor.biz /\ users[p.target].role # "owner"
      BY <2>1, <2>5 DEF TeammateOf, Active
    <3>5. /\ Entitled(p.target, p.actor.biz, invites)
          /\ p.actor.biz \in past.activated
      BY <2>1, <3>4 DEF Grounded, UsersGrounded, RowGrounded, GrantedIn
    <3>6. RowGrounded(q.row, q.target, invites, past')
      BY <2>4, <2>5, <3>3, <3>4, <3>5 DEF RowGrounded, GrantedIn, PastGrows
    <3> HIDE DEF q
    <3>7. ReqGrounded(q, users, invites, past')  BY <3>3, <3>4, <3>6 DEF ReqGrounded
    <3>8. QED  BY <2>2, <2>4, <3>1, <3>7, ReadGrounded
  <2>6. CASE ~TeammateOf(p)
    <3>1. requests' = [requests EXCEPT ![r] = Idle]  BY <1>3, <2>6 DEF ReadTeammate, Continue
    <3>2. QED  BY <2>2, <2>4, <3>1, IdleGrounded, ReadGrounded
  <2>7. QED  BY <2>5, <2>6
<1>4. CASE SaveUser(r)
  <2>1. /\ p.target \in Accounts /\ Harmless(p.row, p.target, users)
        /\ RowGrounded(p.row, p.target, invites, past)
    BY <1>1, <1>4 DEF SaveUser, HasFields, HasRow, ReqGrounded
  <2>2. /\ users' = [users EXCEPT ![p.target] = p.row]
        /\ requests' = [requests EXCEPT ![r] = Idle]
        /\ UNCHANGED <<businesses, invites, past>>
    BY <1>4 DEF SaveUser, Continue
  <2>3. UsersKept(users, users')
    BY <2>1, <2>2, NotNone DEF UsersKept, Harmless, Inv, TypeOK
  <2>4. UsersGrounded(users', invites', past')
    BY <2>1, <2>2 DEF Grounded, UsersGrounded, Inv, TypeOK
  <2>5. InvitesFixed(invites, invites') /\ PastGrows(past, past')  BY <2>2, NothingLost
  <2>6. InvitesGrounded(invites', past') /\ BusinessesGrounded(businesses', past')
    BY <2>2 DEF Grounded
  <2>7. QED  BY <2>2, <2>3, <2>4, <2>5, <2>6, IdleGrounded, GroundKept
<1>5. CASE EndMembership(r)
  <2>1. p.target \in Accounts  BY <1>1, <1>5 DEF EndMembership, HasFields
  <2>2. requests' = [requests EXCEPT ![r] = Idle] /\ UNCHANGED <<businesses, past>>
    BY <1>5 DEF EndMembership, Continue
  <2>3. PastGrows(past, past')  BY <2>2, NothingLost
  <2>4. CASE ~MayEnd(p)
    <3>1. UNCHANGED <<users, invites>>  BY <1>5, <2>4 DEF EndMembership
    <3>2. QED  BY <2>2, <2>3, <3>1, IdleGrounded, ReadGrounded
  <2>5. CASE MayEnd(p)
    <3>1. /\ users[p.target] \in User /\ users[p.target] # None
          /\ users[p.target].role # "owner"
      BY <2>1, <2>5, RowType DEF MayEnd, Active
    <3> DEFINE row == [users[p.target] EXCEPT !.active = FALSE]
    <3>2. users' = [users EXCEPT ![p.target] = row]  BY <1>5, <2>5 DEF EndMembership
    <3>3. row \in User /\ row.biz = users[p.target].biz /\ row.role = users[p.target].role
      BY <3>1 DEF User
    <3> HIDE DEF row
    <3>4. UsersKept(users, users')
      BY <2>1, <3>1, <3>2, <3>3, NotNone DEF UsersKept, Inv, TypeOK
    <3>5. Revoke(Forsaken(p.target))  BY <1>5, <2>5 DEF EndMembership
    <3>6. InvitesFixed(invites, invites') /\ InvitesGrounded(invites', past')
      BY <2>2, <3>5, RevokeGrounded DEF Forsaken
    <3>7. UsersGrounded(users, invites', past') /\ BusinessesGrounded(businesses, past')
      BY <2>3, <3>6, TablesCarry
    <3>8. UsersGrounded(users', invites', past')
      <4>1. RowGrounded(row, p.target, invites', past')
        BY <2>1, <3>1, <3>3, <3>7 DEF UsersGrounded, RowGrounded
      <4>2. QED  BY <2>1, <3>2, <3>7, <4>1 DEF UsersGrounded, Inv, TypeOK
    <3>9. BusinessesGrounded(businesses', past')  BY <2>2, <3>7
    <3>10. QED  BY <2>2, <2>3, <3>4, <3>6, <3>8, <3>9, IdleGrounded, GroundKept
  <2>6. QED  BY <2>4, <2>5
<1>6. QED  BY <1>2, <1>3, <1>4, <1>5 DEF StaffStep

-----------------------------------------------------------------------------
(* Invites. *)

LEMMA NextInviteeGrounded ==
    ASSUME NEW q \in Request, NEW us, NEW is, NEW ps,
           q.biz \in ps.activated, q.role = "manager" => OwnsIn(q.by, q.biz, us)
    PROVE  ReqGrounded(NextInvitee(q), us, is, ps)
<1>1. CASE q.todo = {q.target}
  BY <1>1, IdleGrounded DEF NextInvitee
<1>2. CASE q.todo # {q.target}
  <2> DEFINE n == [q EXCEPT !.pc = "invitees", !.target = None, !.todo = q.todo \ {q.target}]
  <2>1. NextInvitee(q) = n  BY <1>2 DEF NextInvitee
  <2>2. n.pc = "invitees" /\ n.biz = q.biz /\ n.role = q.role /\ n.by = q.by  BY DEF Request
  <2> HIDE DEF n
  <2>3. QED  BY <2>1, <2>2 DEF ReqGrounded
<1>3. QED  BY <1>1, <1>2

LEMMA InviteStepGrounded ==
    ASSUME Inv, Grounded, NEW r \in Requests, InviteStep(r) PROVE Grounded'
<1> DEFINE p == requests[r]
<1>1. /\ p \in Request /\ HasFields(p) /\ HasInvite(p, invites) /\ HasRow(p, users)
      /\ ReqGrounded(p, users, invites, past)
  BY DEF Inv, TypeOK, ReqOK, Grounded
<1>2. ASSUME NEW x \in Accounts, CheckInvitee(r, x) PROVE Grounded'
  <2> DEFINE q == [p EXCEPT !.target = x]
  <2>1. /\ p.pc = "invitees" /\ p.biz \in past.activated
        /\ p.role = "manager" => OwnsIn(p.by, p.biz, users)
    BY <1>1, <1>2 DEF CheckInvitee, ReqGrounded, Request
  <2>2. q \in Request /\ q.biz = p.biz /\ q.role = p.role /\ q.by = p.by  BY <1>1 DEF Request
  <2>3. UNCHANGED <<users, businesses, invites>> /\ PastGrows(past, past')
    BY <1>2, NothingLost DEF CheckInvitee
  <2>4. past' = past  BY <1>2 DEF CheckInvitee
  <2>5. CASE Active(x)
    <3>1. requests' = [requests EXCEPT ![r] = NextInvitee(q)]
      BY <1>2, <2>5 DEF CheckInvitee, Continue
    <3>2. ReqGrounded(NextInvitee(q), users, invites, past)
      BY <2>1, <2>2, NextInviteeGrounded
    <3>3. QED  BY <2>3, <2>4, <3>1, <3>2, ReadGrounded
  <2>6. CASE ~Active(x)
    <3> DEFINE n == [q EXCEPT !.pc = "replace"]
    <3>1. requests' = [requests EXCEPT ![r] = n]  BY <1>2, <2>6 DEF CheckInvitee, Continue
    <3>2. n.pc = "replace" /\ n.biz = p.biz /\ n.role = p.role /\ n.by = p.by
      BY <2>2 DEF Request
    <3> HIDE DEF n
    <3>3. ReqGrounded(n, users, invites, past)  BY <2>1, <3>2 DEF ReqGrounded
    <3>4. QED  BY <2>3, <2>4, <3>1, <3>3, ReadGrounded
  <2>7. QED  BY <2>5, <2>6
<1>3. CASE ReplacePending(r)
  <2> DEFINE q == [p EXCEPT !.pc = "insert"]
  <2>1. /\ p.pc = "replace" /\ p.biz \in past.activated
        /\ p.role = "manager" => OwnsIn(p.by, p.biz, users)
    BY <1>1, <1>3 DEF ReplacePending, ReqGrounded
  <2>2. /\ Revoke(PendingFor(p.target)) /\ requests' = [requests EXCEPT ![r] = q]
        /\ UNCHANGED <<users, businesses, past>>
    BY <1>3 DEF ReplacePending, Continue
  <2>3. InvitesFixed(invites, invites') /\ InvitesGrounded(invites', past')
    BY <2>2, RevokeGrounded DEF PendingFor
  <2>4. q.pc = "insert" /\ q.biz = p.biz /\ q.role = p.role /\ q.by = p.by
    BY <1>1 DEF Request
  <2> HIDE DEF q
  <2>5. ReqGrounded(q, users, invites', past')  BY <2>1, <2>2, <2>4 DEF ReqGrounded
  <2>6. PastGrows(past, past')  BY <2>2, NothingLost
  <2>7. QED  BY <2>2, <2>3, <2>5, <2>6, InvitesStepGrounded
\* The Owner who invites a manager is still the Owner as the Invite is inserted.
<1>4. CASE InsertInvite(r)
  <2>1. /\ p.pc = "insert" /\ p.by \in Accounts /\ p.target \in Accounts
        /\ p.biz \in past.activated
        /\ p.role = "manager" => OwnsIn(p.by, p.biz, users)
    BY <1>1, <1>4 DEF InsertInvite, HasFields, ReqGrounded
  <2>2. requests' = [requests EXCEPT ![r] = NextInvitee(p)] /\ UNCHANGED <<users, businesses>>
    BY <1>4 DEF InsertInvite, Continue
  <2>3. past \in Past  BY DEF Inv, TypeOK, Past
  <2>4. PastGrows(past, past')  BY <1>4, <2>3 DEF InsertInvite, PastGrows, Past
  <2>5. ReqGrounded(NextInvitee(p), users, invites', past')
    BY <1>1, <2>1, <2>4, NextInviteeGrounded DEF PastGrows
  <2>6. CASE UNCHANGED <<invites, past>>
    <3>1. ReqGrounded(NextInvitee(p), users, invites, past')  BY <2>5, <2>6
    <3>2. QED  BY <2>2, <2>4, <2>6, <3>1, ReadGrounded
  <2>7. CASE ~UNCHANGED <<invites, past>>
    <3> DEFINE new == [status |-> "pending", to |-> p.target, biz |-> p.biz, role |-> p.role,
                       by |-> p.by, late |-> FALSE]
    <3>1. PICK i \in Invites : invites[i].status = "none" /\ invites' = [invites EXCEPT ![i] = new]
      BY <1>4, <2>7 DEF InsertInvite
    <3>2. new.to = p.target /\ new.biz = p.biz /\ new.role = p.role  OBVIOUS
    <3> HIDE DEF new
    <3>3. p.role = "manager" => <<p.target, p.biz>> \in past'.managers
      BY <1>4, <2>1, <2>3, <2>7 DEF InsertInvite, Owns, Active, OwnsIn, Past
    <3>4. GrantedIn(p.target, p.biz, p.role, past')
      BY <2>1, <2>4, <3>3 DEF GrantedIn, PastGrows
    <3>5. InvitesFixed(invites, invites')  BY <3>1 DEF InvitesFixed, Inv, TypeOK
    <3>6. InvitesGrounded(invites', past')
      <4>1. ASSUME NEW j \in Invites, invites'[j].status # "none"
            PROVE  GrantedIn(invites'[j].to, invites'[j].biz, invites'[j].role, past')
        <5>1. CASE j = i  BY <3>1, <3>2, <3>4, <5>1 DEF Inv, TypeOK
        <5>2. CASE j # i
          <6>1. invites'[j] = invites[j]  BY <3>1, <5>2 DEF Inv, TypeOK
          <6>2. GrantedIn(invites[j].to, invites[j].biz, invites[j].role, past)
            BY <4>1, <6>1 DEF Grounded, InvitesGrounded
          <6>3. QED  BY <2>4, <6>1, <6>2 DEF GrantedIn, PastGrows
        <5>3. QED  BY <5>1, <5>2
      <4>2. QED  BY <4>1 DEF InvitesGrounded
    <3>7. QED  BY <2>2, <2>4, <2>5, <3>5, <3>6, InvitesStepGrounded
  <2>8. QED  BY <2>6, <2>7
<1>5. CASE FindInvite(r)
  <2>1. UNCHANGED <<users, businesses, invites>> /\ past' = past /\ PastGrows(past, past')
    BY <1>5, NothingLost DEF FindInvite
  <2>2. CASE Continue(r, Idle)
    BY <2>1, <2>2, IdleGrounded, ReadGrounded DEF Continue
  <2>3. ASSUME NEW i \in PendingFor(p.by), NEW stage \in {"expire", "member"},
               Continue(r, [p EXCEPT !.pc = stage, !.inv = i])
        PROVE Grounded'
    <3> DEFINE q == [p EXCEPT !.pc = stage, !.inv = i]
    <3>1. invites[i].status # "none" /\ invites[i].to = p.by  BY DEF PendingFor
    <3>2. q.pc = stage /\ q.inv = i /\ q.by = p.by  BY <1>1 DEF Request
    <3>3. requests' = [requests EXCEPT ![r] = q]  BY <2>3 DEF Continue
    <3> HIDE DEF q
    <3>4. ReqGrounded(q, users, invites, past)  BY <3>1, <3>2 DEF ReqGrounded
    <3>5. QED  BY <2>1, <3>3, <3>4, ReadGrounded
  <2>4. QED  BY <1>5, <2>2, <2>3 DEF FindInvite
<1>6. CASE ExpireInvite(r)
  <2>1. /\ p.pc = "expire" /\ p.inv \in Invites /\ invites[p.inv].status # "none"
        /\ p.then \in {"idle", "account"}
    BY <1>1, <1>6 DEF ExpireInvite, HasFields, HasInvite, ReqGrounded
  <2>2. SetInvite(p.inv, "expired") /\ UNCHANGED <<users, businesses, past>>
    BY <1>6 DEF ExpireInvite
  <2>3. /\ InvitesFixed(invites, invites') /\ InvitesGrounded(invites', past')
        /\ PastGrows(past, past')
    BY <2>1, <2>2, NothingLost, SetInviteGrounded DEF InviteStatuses
  <2>4. CASE p.then = "idle"
    <3>1. requests' = [requests EXCEPT ![r] = Idle]  BY <1>6, <2>4 DEF ExpireInvite, Continue
    <3>2. QED  BY <2>2, <2>3, <3>1, IdleGrounded, InvitesStepGrounded
  <2>5. CASE p.then # "idle"
    <3> DEFINE q == [p EXCEPT !.pc = p.then, !.inv = None]
    <3>1. requests' = [requests EXCEPT ![r] = q]  BY <1>6, <2>5 DEF ExpireInvite, Continue
    <3>2. q.pc = "account"  BY <1>1, <2>1, <2>5 DEF Request
    <3> HIDE DEF q
    <3>3. ReqGrounded(q, users, invites', past')  BY <3>2 DEF ReqGrounded
    <3>4. QED  BY <2>2, <2>3, <3>1, <3>3, InvitesStepGrounded
  <2>6. QED  BY <2>4, <2>5
<1>7. CASE ReadMember(r)
  <2>1. p.pc = "member" /\ invites[p.inv].status # "none" /\ invites[p.inv].to = p.by
    BY <1>1, <1>7 DEF ReadMember, ReqGrounded
  <2>2. UNCHANGED <<users, businesses, invites>> /\ past' = past /\ PastGrows(past, past')
    BY <1>7, NothingLost DEF ReadMember
  <2>3. CASE Active(p.by)
    <3>1. requests' = [requests EXCEPT ![r] = Idle]  BY <1>7, <2>3 DEF ReadMember, Continue
    <3>2. QED  BY <2>2, <3>1, IdleGrounded, ReadGrounded
  <2>4. CASE ~Active(p.by)
    <3> DEFINE q == [p EXCEPT !.pc = "admit", !.row = users[p.by]]
    <3>1. requests' = [requests EXCEPT ![r] = q]  BY <1>7, <2>4 DEF ReadMember, Continue
    <3>2. q.pc = "admit" /\ q.inv = p.inv /\ q.by = p.by  BY <1>1 DEF Request
    <3> HIDE DEF q
    <3>3. ReqGrounded(q, users, invites, past)  BY <2>1, <3>2 DEF ReqGrounded
    <3>4. QED  BY <2>2, <3>1, <3>3, ReadGrounded
  <2>5. QED  BY <2>3, <2>4
\* The row comes from the Invite, whatever its status has become.
<1>8. CASE Admit(r)
  <2>1. /\ p.pc = "admit" /\ p.by \in Accounts /\ p.inv \in Invites
        /\ invites[p.inv].biz \in Businesses
        /\ invites[p.inv].status # "none" /\ invites[p.inv].to = p.by
        /\ p.row # None => users[p.by] # None /\ users[p.by].role # "owner"
    BY <1>1, <1>8 DEF Admit, HasFields, HasInvite, HasRow, ReqGrounded
  <2>2. UNCHANGED <<businesses, invites, past>>  BY <1>8 DEF Admit
  <2>3. InvitesFixed(invites, invites') /\ PastGrows(past, past')  BY <2>2, NothingLost
  <2>4. CASE InsertLoses(p)
    <3>1. UNCHANGED users /\ requests' = [requests EXCEPT ![r] = Idle]
      BY <1>8, <2>4 DEF Admit, Continue
    <3>2. QED  BY <2>2, <2>3, <3>1, IdleGrounded, ReadGrounded
  <2>5. CASE ~InsertLoses(p)
    <3> DEFINE row == [biz |-> invites[p.inv].biz, role |-> invites[p.inv].role, active |-> TRUE]
               q == [p EXCEPT !.pc = "redeemed", !.row = None]
    <3>1. users' = [users EXCEPT ![p.by] = row] /\ requests' = [requests EXCEPT ![r] = q]
      BY <1>8, <2>5 DEF Admit, Continue
    <3>2. row \in User /\ row.role # "owner"
      BY <2>1 DEF User, Roles, Inv, TypeOK, Invite
    <3>3. row.biz = invites[p.inv].biz /\ row.role = invites[p.inv].role  OBVIOUS
    <3> HIDE DEF row
    <3>4. UsersKept(users, users')
      BY <2>1, <2>5, <3>1, <3>2, NotNone DEF UsersKept, InsertLoses, Inv, TypeOK
    <3>5. RowGrounded(row, p.by, invites, past)
      BY <2>1, <3>3 DEF RowGrounded, Entitled, Grounded, InvitesGrounded
    <3>6. UsersGrounded(users', invites', past')
      BY <2>1, <2>2, <3>1, <3>5 DEF Grounded, UsersGrounded, Inv, TypeOK
    <3>7. q.pc = "redeemed" /\ q.inv = p.inv /\ q.by = p.by  BY <1>1 DEF Request
    <3> HIDE DEF q
    <3>8. ReqGrounded(q, users', invites', past')  BY <2>1, <2>2, <3>7 DEF ReqGrounded
    <3>9. InvitesGrounded(invites', past') /\ BusinessesGrounded(businesses', past')
      BY <2>2 DEF Grounded
    <3>10. QED  BY <2>3, <3>1, <3>4, <3>6, <3>8, <3>9, GroundKept
  <2>6. QED  BY <2>4, <2>5
<1>9. CASE SaveRedeemed(r)
  <2> DEFINE q == [p EXCEPT !.pc = "language"]
  <2>1. p.inv \in Invites /\ invites[p.inv].status # "none"
    BY <1>1, <1>9 DEF SaveRedeemed, HasInvite, ReqGrounded
  <2>2. /\ SetInvite(p.inv, "redeemed") /\ requests' = [requests EXCEPT ![r] = q]
        /\ UNCHANGED <<users, businesses, past>>
    BY <1>9 DEF SaveRedeemed, Continue
  <2>3. /\ InvitesFixed(invites, invites') /\ InvitesGrounded(invites', past')
        /\ PastGrows(past, past')
    BY <2>1, <2>2, NothingLost, SetInviteGrounded DEF InviteStatuses
  <2>4. q.pc = "language"  BY <1>1 DEF Request
  <2> HIDE DEF q
  <2>5. ReqGrounded(q, users, invites', past')  BY <2>4 DEF ReqGrounded
  <2>6. QED  BY <2>2, <2>3, <2>5, InvitesStepGrounded
<1>10. CASE SaveRevoked(r)
  <2>1. p.inv \in Invites /\ invites[p.inv].status # "none"
    BY <1>1, <1>10 DEF SaveRevoked, HasInvite, ReqGrounded
  <2>2. /\ SetInvite(p.inv, "revoked") /\ requests' = [requests EXCEPT ![r] = Idle]
        /\ UNCHANGED <<users, businesses, past>>
    BY <1>10 DEF SaveRevoked, Continue
  <2>3. /\ InvitesFixed(invites, invites') /\ InvitesGrounded(invites', past')
        /\ PastGrows(past, past')
    BY <2>1, <2>2, NothingLost, SetInviteGrounded DEF InviteStatuses
  <2>4. QED  BY <2>2, <2>3, IdleGrounded, InvitesStepGrounded
<1>11. QED
  BY <1>2, <1>3, <1>4, <1>5, <1>6, <1>7, <1>8, <1>9, <1>10 DEF InviteStep

-----------------------------------------------------------------------------
(* Registrations and decisions. *)

LEMMA RegistrationStepGrounded ==
    ASSUME Inv, Grounded, NEW r \in Requests, RegistrationStep(r) PROVE Grounded'
<1> DEFINE p == requests[r]
<1>1. /\ p \in Request /\ ReqOK(p, users, businesses, invites)
      /\ HasFields(p) /\ HasState(p, businesses) /\ ReqGrounded(p, users, invites, past)
  BY DEF Inv, TypeOK, ReqOK, Grounded
<1>2. CASE ReadEntry(r)
  <2>1. p.pc = "entry" /\ p.then \in {"idle", "account"}
    BY <1>1, <1>2 DEF ReadEntry, HasFields
  <2>2. UNCHANGED <<users, businesses, invites>> /\ past' = past /\ PastGrows(past, past')
    BY <1>2, NothingLost DEF ReadEntry
  <2>3. CASE Continue(r, Idle)
    BY <2>2, <2>3, IdleGrounded, ReadGrounded DEF Continue
  <2>4. CASE p.then # "idle" /\ Continue(r, [p EXCEPT !.pc = p.then])
    <3> DEFINE q == [p EXCEPT !.pc = p.then]
    <3>1. q.pc = "account"  BY <1>1, <2>1, <2>4 DEF Request
    <3>2. requests' = [requests EXCEPT ![r] = q]  BY <2>4 DEF Continue
    <3> HIDE DEF q
    <3>3. ReqGrounded(q, users, invites, past)  BY <3>1 DEF ReqGrounded
    <3>4. QED  BY <2>2, <3>2, <3>3, ReadGrounded
  <2>5. ASSUME NEW i \in PendingFor(p.by), Continue(r, [p EXCEPT !.pc = "expire", !.inv = i])
        PROVE Grounded'
    <3> DEFINE q == [p EXCEPT !.pc = "expire", !.inv = i]
    <3>1. invites[i].status # "none"  BY DEF PendingFor
    <3>2. q.pc = "expire" /\ q.inv = i  BY <1>1 DEF Request
    <3>3. requests' = [requests EXCEPT ![r] = q]  BY <2>5 DEF Continue
    <3> HIDE DEF q
    <3>4. ReqGrounded(q, users, invites, past)  BY <3>1, <3>2 DEF ReqGrounded
    <3>5. QED  BY <2>2, <3>3, <3>4, ReadGrounded
  <2>6. QED  BY <1>2, <2>3, <2>4, <2>5 DEF ReadEntry
<1>3. CASE ReadAccount(r)
  <2>1. p.pc = "account" /\ p.by \in Accounts  BY <1>1, <1>3 DEF ReadAccount, HasFields
  <2>2. UNCHANGED <<users, businesses, invites>> /\ past' = past /\ PastGrows(past, past')
    BY <1>3, NothingLost DEF ReadAccount
  <2>3. CASE users[p.by] = None
    <3> DEFINE q == [p EXCEPT !.pc = "create", !.then = "idle"]
    <3>1. q.pc = "create"  BY <1>1 DEF Request
    <3>2. requests' = [requests EXCEPT ![r] = q]  BY <1>3, <2>3 DEF ReadAccount, Continue
    <3> HIDE DEF q
    <3>3. ReqGrounded(q, users, invites, past)  BY <3>1 DEF ReqGrounded
    <3>4. QED  BY <2>2, <3>2, <3>3, ReadGrounded
  <2>4. CASE users[p.by] # None /\ Revisable(p.by)
    <3> DEFINE b == users[p.by].biz
               state == businesses[b]
               q == [p EXCEPT !.pc = "revise", !.row = users[p.by], !.then = "idle", !.biz = b,
                              !.state = state]
    <3>1. q.pc = "revise" /\ q.by = p.by /\ q.row = users[p.by]  BY <1>1 DEF Request
    <3>2. requests' = [requests EXCEPT ![r] = q]  BY <1>3, <2>4 DEF ReadAccount, Continue
    <3> HIDE DEF q
    <3>3. users[p.by].active /\ RowGrounded(users[p.by], p.by, invites, past)
      BY <2>1, <2>4 DEF Revisable, Grounded, UsersGrounded
    <3>4. ReqGrounded(q, users, invites, past)  BY <3>1, <3>3 DEF ReqGrounded
    <3>5. QED  BY <2>2, <3>2, <3>4, ReadGrounded
  <2>5. CASE users[p.by] # None /\ ~Revisable(p.by)
    <3>1. requests' = [requests EXCEPT ![r] = Idle]  BY <1>3, <2>5 DEF ReadAccount, Continue
    <3>2. QED  BY <2>2, <3>1, IdleGrounded, ReadGrounded
  <2>6. QED  BY <2>3, <2>4, <2>5
<1>4. CASE CreateBusiness(r)
  <2> DEFINE q == [p EXCEPT !.pc = "entry"]
  <2>1. p.by \in Accounts  BY <1>1, <1>4 DEF CreateBusiness, HasFields
  <2>2. q.pc = "entry"  BY <1>1 DEF Request
  <2>3. requests' = [requests EXCEPT ![r] = q] /\ UNCHANGED <<invites, past>>
    BY <1>4 DEF CreateBusiness, Continue
  <2> HIDE DEF q
  <2>4. \A us : ReqGrounded(q, us, invites, past)  BY <2>2 DEF ReqGrounded
  <2>5. InvitesFixed(invites, invites') /\ PastGrows(past, past')  BY <2>3, NothingLost
  <2>6. CASE UNCHANGED <<users, businesses>>
    <3>1. ReqGrounded(q, users, invites, past')  BY <2>3, <2>4
    <3>2. QED  BY <2>3, <2>5, <2>6, <3>1, ReadGrounded
  <2>7. CASE ~UNCHANGED <<users, businesses>>
    <3>1. users[p.by] = None  BY <1>4, <2>7 DEF CreateBusiness, Unregistered
    <3>2. PICK b \in Businesses :
            /\ businesses[b] = NoBusiness
            /\ businesses' = [businesses EXCEPT ![b] = [status |-> "pending", owner |-> p.by]]
            /\ users' = [users EXCEPT ![p.by] = [biz |-> b, role |-> "owner", active |-> TRUE]]
      BY <1>4, <2>7 DEF CreateBusiness
    <3>3. UsersKept(users, users')  BY <2>1, <3>1, <3>2, CreateKeepsOwners
    <3> DEFINE row == [biz |-> b, role |-> "owner", active |-> TRUE]
    <3>4. RowGrounded(row, p.by, invites, past)  BY DEF RowGrounded
    <3> HIDE DEF row
    <3>5. UsersGrounded(users', invites', past')
      BY <2>1, <2>3, <3>2, <3>4 DEF row, Grounded, UsersGrounded, Inv, TypeOK
    <3>6. BusinessesGrounded(businesses', past') /\ InvitesGrounded(invites', past')
      BY <2>3, <3>2 DEF Grounded, BusinessesGrounded, Inv, TypeOK
    <3>7. ReqGrounded(q, users', invites', past')  BY <2>3, <2>4
    <3>8. QED  BY <2>3, <2>5, <3>3, <3>5, <3>6, <3>7, GroundKept
  <2>8. QED  BY <2>6, <2>7
<1>5. CASE Revise(r)
  <2> DEFINE state == [p.state EXCEPT !.status = "pending"]
             q == [p EXCEPT !.pc = "save", !.target = p.by]
  <2>1. /\ p.pc = "revise" /\ p.biz \in Businesses /\ p.state \in Business
        /\ p.row.active /\ RowGrounded(p.row, p.by, invites, past)
    BY <1>1, <1>5 DEF Revise, HasFields, HasState, ReqGrounded
  <2>2. state.status = "pending"  BY <2>1 DEF Business
  <2>3. /\ businesses' = [businesses EXCEPT ![p.biz] = state]
        /\ requests' = [requests EXCEPT ![r] = q] /\ UNCHANGED <<users, invites, past>>
    BY <1>5 DEF Revise, Continue
  <2>4. q.pc = "save" /\ q.target = p.by /\ q.row = p.row  BY <1>1 DEF Request
  <2> HIDE DEF state, q
  <2>5. ReqGrounded(q, users', invites', past')  BY <2>1, <2>3, <2>4 DEF ReqGrounded
  <2>6. BusinessesGrounded(businesses', past')
    BY <2>1, <2>2, <2>3 DEF Grounded, BusinessesGrounded, Inv, TypeOK
  <2>7. UsersGrounded(users', invites', past') /\ InvitesGrounded(invites', past')
    BY <2>3 DEF Grounded
  <2>8. /\ UsersKept(users, users') /\ InvitesFixed(invites, invites')
        /\ PastGrows(past, past')
    BY <2>3, NothingLost
  <2>9. QED  BY <2>3, <2>5, <2>6, <2>7, <2>8, GroundKept
<1>6. CASE SaveDecision(r)
  <2>1. p.biz \in Businesses  BY <1>1, <1>6 DEF SaveDecision, HasFields
  <2>2. /\ businesses' = [businesses EXCEPT ![p.biz] = p.state]
        /\ requests' = [requests EXCEPT ![r] = Idle] /\ UNCHANGED <<users, invites>>
    BY <1>6 DEF SaveDecision, Continue
  <2>3. past \in Past  BY DEF Inv, TypeOK, Past
  <2>4. /\ past'.managers = past.managers
        /\ past'.activated = IF p.state.status = "active" THEN past.activated \cup {p.biz}
                             ELSE past.activated
    BY <1>6, <2>3 DEF SaveDecision, Past
  <2>5. PastGrows(past, past')  BY <2>4 DEF PastGrows
  <2>6. BusinessesGrounded(businesses', past')
    BY <2>1, <2>2, <2>4 DEF Grounded, BusinessesGrounded, Inv, TypeOK
  <2>7. UsersKept(users, users') /\ InvitesFixed(invites, invites')  BY <2>2, NothingLost
  <2>8. UsersGrounded(users', invites', past')
    BY <2>2, <2>5, <2>7, TablesCarry
  <2>9. InvitesGrounded(invites', past')
    BY <2>2, <2>5 DEF Grounded, InvitesGrounded, GrantedIn, PastGrows
  <2>10. QED  BY <2>2, <2>5, <2>6, <2>7, <2>8, <2>9, IdleGrounded, GroundKept
<1>7. QED  BY <1>2, <1>3, <1>4, <1>5, <1>6 DEF RegistrationStep

LEMMA LapseGrounded ==
    ASSUME Inv, Grounded, NEW i \in Invites, InviteLapses(i) PROVE Grounded'
<1>1. invites[i] \in Invite  BY DEF Inv, TypeOK
<1>2. /\ invites' = [invites EXCEPT ![i] = [invites[i] EXCEPT !.late = TRUE]]
      /\ UNCHANGED <<users, businesses, requests, past>>
  BY DEF InviteLapses
<1>3. \A j \in Invites :
        /\ invites'[j].to = invites[j].to /\ invites'[j].biz = invites[j].biz
        /\ invites'[j].role = invites[j].role /\ invites'[j].status = invites[j].status
  BY <1>1, <1>2 DEF Inv, TypeOK, Invite
<1>4. /\ UsersKept(users, users) /\ PastGrows(past, past')
      /\ InvitesFixed(invites, invites') /\ InvitesGrounded(invites', past')
  BY <1>2, <1>3, NothingLost DEF InvitesFixed, InvitesGrounded, Grounded
<1>5. UsersGrounded(users, invites', past') /\ BusinessesGrounded(businesses, past')
  BY <1>4, TablesCarry
<1>6. ASSUME NEW r \in Requests PROVE ReqGrounded(requests[r], users, invites', past')
  <2>1. /\ HasFields(requests[r]) /\ HasInvite(requests[r], invites)
        /\ ReqGrounded(requests[r], users, invites, past)
    BY DEF Inv, ReqOK, Grounded
  <2>2. QED  BY <1>4, <2>1, GroundCarries
<1>7. QED  BY <1>2, <1>4, <1>5, <1>6 DEF Grounded

-----------------------------------------------------------------------------
(* The invariant, and what follows from it. *)

LEMMA InitGrounded == Init => Grounded
<1> SUFFICES ASSUME Init PROVE Grounded
  OBVIOUS
<1>1. ASSUME NEW b \in Businesses, \E o \in Accounts : Staff[o] # None /\ Staff[o].biz = b
                                                              /\ Staff[o].role = "owner"
      PROVE  b \in past.activated
  <2>1. InitialOwner(b).status = "active"  BY <1>1 DEF InitialOwner
  <2>2. InitialOwner(b) # NoBusiness  BY <2>1 DEF NoBusiness
  <2>3. QED  BY <2>2 DEF Init
<1>2. UsersGrounded(users, invites, past)
  <2> SUFFICES ASSUME NEW a \in Accounts, users[a] # None, users[a].role # "owner"
               PROVE  /\ Entitled(a, users[a].biz, invites)
                      /\ GrantedIn(a, users[a].biz, users[a].role, past)
    BY DEF UsersGrounded, RowGrounded
  <2>1. users[a] = Staff[a] /\ Staff[a].biz \in Businesses  BY StaffAssumption DEF Init, User
  <2>2. users[a].biz \in past.activated  BY <1>1, <2>1, StaffAssumption
  <2>3. users[a].role = "manager" => <<a, users[a].biz>> \in past.managers
    BY <2>1 DEF Init, IsManager
  <2>4. QED  BY <2>1, <2>2, <2>3 DEF Entitled, GrantedIn
<1>3. InvitesGrounded(invites, past)  BY DEF Init, NoInvite, InvitesGrounded
<1>4. BusinessesGrounded(businesses, past)
  <2>1. \A b \in Businesses : businesses[b] = InitialOwner(b) /\ NoBusiness.status # "active"
    BY DEF Init, NoBusiness
  <2>2. past.activated = {b \in Businesses : InitialOwner(b) # NoBusiness}  BY DEF Init
  <2>3. QED  BY <2>1, <2>2 DEF BusinessesGrounded
<1>5. \A r \in Requests : ReqGrounded(requests[r], users, invites, past)
  BY IdleGrounded DEF Init
<1>6. QED  BY <1>2, <1>3, <1>4, <1>5 DEF Grounded

LEMMA NextGrounded == Inv /\ Grounded /\ [Next]_vars => Grounded'
<1> SUFFICES ASSUME Inv, Grounded, [Next]_vars PROVE Grounded'
  OBVIOUS
<1>1. ASSUME NEW r \in Requests, NEW a \in Accounts,
             StaffBegin(r, a) \/ InviteBegin(r, a) \/ RegistrationBegin(r, a)
      PROVE Grounded'
  BY <1>1, BeginsGrounded
<1>2. ASSUME NEW r \in Requests, DecisionBegin(r) PROVE Grounded'
  BY <1>2, BeginsGrounded
<1>3. ASSUME NEW r \in Requests, StaffStep(r) \/ InviteStep(r) \/ RegistrationStep(r)
      PROVE Grounded'
  BY <1>3, StaffStepGrounded, InviteStepGrounded, RegistrationStepGrounded
<1>4. ASSUME NEW i \in Invites, InviteLapses(i) PROVE Grounded'
  BY <1>4, LapseGrounded
<1>5. CASE UNCHANGED vars
  BY <1>5 DEF vars, Grounded
<1>6. QED  BY <1>1, <1>2, <1>3, <1>4, <1>5 DEF Next

\* What a request is about to write is as well founded as what the tables hold.
THEOREM GroundedInductive == Spec => []Grounded
<1>1. Init => Grounded  BY InitGrounded
<1>2. Inv /\ Grounded /\ [Next]_vars => Grounded'  BY NextGrounded
<1>3. QED  BY <1>1, <1>2, Inductive, PTL DEF Spec

\* ManagersGrantedByOwner: whatever saves cross, a manager's role was granted by the
\* Owner of that Business.
THEOREM ManagersGranted == Spec => []ManagersGrantedByOwner
<1>1. Grounded => ManagersGrantedByOwner
  BY DEF Grounded, UsersGrounded, RowGrounded, GrantedIn, Active, ManagersGrantedByOwner
<1>2. QED  BY <1>1, GroundedInductive, PTL

\* StaffOnlyAfterActivation: a Business has staff only once it has been active.
THEOREM ActivatedFirst == Spec => []StaffOnlyAfterActivation
<1>1. Grounded => StaffOnlyAfterActivation
  BY DEF Grounded, UsersGrounded, RowGrounded, GrantedIn, Active, StaffOnlyAfterActivation
<1>2. QED  BY <1>1, GroundedInductive, PTL

\* NoMembershipWithoutInvite: staff was there from the start or holds an Invite of
\* that Business.
THEOREM InvitedFirst == Spec => []NoMembershipWithoutInvite
<1>1. Grounded => NoMembershipWithoutInvite
  BY DEF Grounded, UsersGrounded, RowGrounded, Entitled, Active, NoMembershipWithoutInvite
<1>2. QED  BY <1>1, GroundedInductive, PTL

-----------------------------------------------------------------------------
(* How a membership ends. *)

\* Only endMembership deactivates a row: an entity that is saved was read active.
LEMMA OnlyEndMembershipEnds ==
    ASSUME Inv, Grounded, [Next]_vars, NEW a \in Accounts, Active(a), ~users'[a].active
    PROVE  \E r \in Requests : EndMembership(r) /\ MayEnd(requests[r]) /\ requests[r].target = a
<1>1. users'[a] # users[a]  BY DEF Active
<1>2. ASSUME NEW r \in Requests, NEW x \in Accounts,
             StaffBegin(r, x) \/ InviteBegin(r, x) \/ RegistrationBegin(r, x)
      PROVE FALSE
  BY <1>1, <1>2
  DEF StaffBegin, UpdateLanguage, Leave, Remove, ChangeRole, InviteBegin, StartBot, InviteBatch,
      RevokeInvite, RegistrationBegin, OpenMiniApp, Register
<1>3. ASSUME NEW r \in Requests, DecisionBegin(r) PROVE FALSE
  BY <1>1, <1>3 DEF DecisionBegin, Decide
<1>4. ASSUME NEW i \in Invites, InviteLapses(i) PROVE FALSE
  BY <1>1, <1>4 DEF InviteLapses
<1>5. ASSUME UNCHANGED vars PROVE FALSE
  BY <1>1, <1>5 DEF vars
<1>6. users \in [Accounts -> User \cup {None}]  BY DEF Inv, TypeOK
<1>7. ASSUME NEW r \in Requests, SaveUser(r) PROVE FALSE
  <2>1. requests[r].row.active  BY <1>7 DEF SaveUser, Grounded, ReqGrounded
  <2>2. users' = [users EXCEPT ![requests[r].target] = requests[r].row]  BY <1>7 DEF SaveUser
  <2>3. users'[a] = requests[r].row  BY <1>1, <1>6, <2>2
  <2>4. QED  BY <2>1, <2>3
<1>8. ASSUME NEW r \in Requests, Admit(r) PROVE FALSE
  <2> DEFINE q == requests[r]
             row == [biz |-> invites[q.inv].biz, role |-> invites[q.inv].role, active |-> TRUE]
  <2>1. row.active  OBVIOUS
  <2>2. users' = users \/ users' = [users EXCEPT ![q.by] = row]  BY <1>8 DEF Admit
  <2> HIDE DEF row
  <2>3. users'[a] = row  BY <1>1, <1>6, <2>2
  <2>4. QED  BY <2>1, <2>3
<1>9. ASSUME NEW r \in Requests, CreateBusiness(r) PROVE FALSE
  <2>1. \/ users' = users
        \/ \E b \in Businesses :
             users' = [users EXCEPT ![requests[r].by] = [biz |-> b, role |-> "owner", active |-> TRUE]]
    BY <1>9 DEF CreateBusiness
  <2>2. \E b \in Businesses : users'[a] = [biz |-> b, role |-> "owner", active |-> TRUE]
    BY <1>1, <1>6, <2>1
  <2>3. QED  BY <2>2
<1>10. ASSUME NEW r \in Requests, EndMembership(r)
       PROVE  MayEnd(requests[r]) /\ requests[r].target = a
  BY <1>1, <1>6, <1>10 DEF EndMembership
<1>11. ASSUME NEW r \in Requests, StaffStep(r) \/ InviteStep(r) \/ RegistrationStep(r)
       PROVE  EndMembership(r)
  BY <1>1, <1>7, <1>8, <1>9, <1>11
  DEF StaffStep, ReadLanguage, ReadTeammate, InviteStep, CheckInvitee, ReplacePending, InsertInvite,
      FindInvite, ExpireInvite, ReadMember, SaveRedeemed, SaveRevoked, RegistrationStep, ReadEntry,
      ReadAccount, Revise, SaveDecision
<1>12. QED  BY <1>2, <1>3, <1>4, <1>5, <1>10, <1>11 DEF Next

\* ManagersEndedByOwnerOrSelf: who ends a manager's membership is the manager or, to
\* the very step that ends it, the Owner of that Business.
THEOREM ManagersEnd == Spec => ManagersEndedByOwnerOrSelf
<1> DEFINE Ended == \A a \in Accounts : Active(a) /\ users[a].role = "manager" /\ ~users'[a].active =>
                      \E r \in Requests :
                         /\ requests[r].target = a
                         /\ requests[r].pc \in {"remove", "leave"}
                         /\ requests[r].by = a \/ Owns(requests[r].by, users[a].biz)
<1>1. Inv /\ Grounded /\ [Next]_vars => Ended
  <2> SUFFICES ASSUME Inv, Grounded, [Next]_vars, NEW a \in Accounts, Active(a),
                      users[a].role = "manager", ~users'[a].active
               PROVE  \E r \in Requests :
                         /\ requests[r].target = a
                         /\ requests[r].pc \in {"remove", "leave"}
                         /\ requests[r].by = a \/ Owns(requests[r].by, users[a].biz)
    OBVIOUS
  <2>1. PICK r \in Requests :
          EndMembership(r) /\ MayEnd(requests[r]) /\ requests[r].target = a
    BY OnlyEndMembershipEnds
  <2> DEFINE q == requests[r]
  <2>2. q.pc \in {"remove", "leave"} /\ ReqGrounded(q, users, invites, past)
    BY <2>1 DEF EndMembership, Grounded
  <2>3. CASE q.pc = "leave"  BY <2>1, <2>2, <2>3 DEF ReqGrounded
  <2>4. CASE q.pc = "remove"
    <3>1. q.actor.role = "owner" /\ users[a].biz = q.actor.biz
      BY <2>1, <2>4 DEF MayEnd, MayRemove
    <3>2. Owns(q.by, users[a].biz)
      BY <2>2, <2>4, <3>1 DEF ReqGrounded, OwnsIn, Owns, Active
    <3>3. QED  BY <2>1, <2>4, <3>2
  <2>5. QED  BY <2>2, <2>3, <2>4
<1>2. QED  BY <1>1, Inductive, GroundedInductive, PTL DEF Spec, ManagersEndedByOwnerOrSelf

-----------------------------------------------------------------------------
(* Migrations: a lemma for each statement says what it leaves, a lemma for   *)
(* each migration what its statements come to.                              *)

\* A database whose rows have the columns of their table.
Proper(d) ==
    /\ d = Database(d.tables, d.uniques, d.keys)
    /\ \A t \in DOMAIN d.tables : \A i \in DOMAIN Rows(d, t) :
         DOMAIN Rows(d, t)[i] = Names(Cols(d, t))

\* What a statement on the columns of one table leaves, and which values it carries over.
Elsewhere(d, e, t) == \A u \in DOMAIN d.tables \ {t} : e.tables[u] = d.tables[u]
Changed(d, e, t, columns) ==
    /\ Proper(e)
    /\ DOMAIN e.tables = DOMAIN d.tables /\ Elsewhere(d, e, t)
    /\ e.uniques = d.uniques /\ e.keys = d.keys
    /\ Cols(e, t) = columns
    /\ DOMAIN Rows(e, t) = DOMAIN Rows(d, t)
Carried(d, e, t, columns) ==
    \A i \in DOMAIN Rows(d, t), c \in columns : Rows(e, t)[i][c] = Rows(d, t)[i][c]

Moved(d, e, t, c, x) ==
    \A i \in DOMAIN Rows(d, t) : Rows(e, t)[i][x] = Rows(d, t)[i][c]

\* What a statement on a constraint leaves.
UniqueOf(t, columns) == [table |-> t, columns |-> columns]
KeyOf(t, c, of, onDelete) == [table |-> t, column |-> c, of |-> of, onDelete |-> onDelete]
Constrained(d, e, uniques, keys) ==
    Proper(e) /\ e.tables = d.tables /\ e.uniques = uniques /\ e.keys = keys
MoreKeys(d, e, keys) == Constrained(d, e, d.uniques, d.keys \cup keys)
LessUnique(d, e, unique) == Constrained(d, e, d.uniques \ {unique}, d.keys)

\* No constraint involves the column.
Free(d, t, c) ==
    /\ \A u \in d.uniques : ~(u.table = t /\ c \in u.columns)
    /\ \A key \in d.keys : ~(key.table = t /\ key.column = c)

-----------------------------------------------------------------------------
(* Statements *)

LEMMA NotRefused == \A d : Proper(d) => d # Refused
<1> SUFFICES ASSUME NEW d, Proper(d), d = Refused PROVE FALSE
  OBVIOUS
<1>1. DOMAIN d = {"tables", "uniques", "keys"}  BY DEF Proper, Database
<1>2. DOMAIN d = {"refused"}  BY DEF Refused
<1>3. QED  BY <1>1, <1>2

LEMMA Fields == \A tables, uniques, keys :
    /\ Database(tables, uniques, keys).tables = tables
    /\ Database(tables, uniques, keys).uniques = uniques
    /\ Database(tables, uniques, keys).keys = keys
BY DEF Database

LEMMA NamesPut == \A columns, c : \A kind \in {"required", "defaulted", "nullable"} :
    Names(Put(columns, kind, c)) = Names(columns) \cup {c}
BY DEF Names, Put, Columns
LEMMA NamesTake == \A columns, c : Names(Take(columns, c)) = Names(columns) \ {c}
BY DEF Names, Take, Columns

LEMMA TableSet ==
    ASSUME NEW d, Proper(d), NEW t, NEW columns, NEW rows,
           \A i \in DOMAIN rows : DOMAIN rows[i] = Names(columns)
    PROVE  /\ Proper(SetTable(d, t, columns, rows))
           /\ DOMAIN SetTable(d, t, columns, rows).tables = DOMAIN d.tables \cup {t}
           /\ Elsewhere(d, SetTable(d, t, columns, rows), t)
           /\ SetTable(d, t, columns, rows).uniques = d.uniques
           /\ SetTable(d, t, columns, rows).keys = d.keys
           /\ Cols(SetTable(d, t, columns, rows), t) = columns
           /\ Rows(SetTable(d, t, columns, rows), t) = rows
BY DEF Proper, SetTable, Database, Elsewhere, Cols, Rows

LEMMA CreateTableIs ==
    ASSUME NEW d, Proper(d), NEW t, t \notin DOMAIN d.tables, NEW columns
    PROVE  LET e == CreateTable(d, t, columns) IN
           /\ Proper(e) /\ DOMAIN e.tables = DOMAIN d.tables \cup {t} /\ Elsewhere(d, e, t)
           /\ e.uniques = d.uniques /\ e.keys = d.keys
           /\ Cols(e, t) = columns /\ DOMAIN Rows(e, t) = {}
<1>1. CreateTable(d, t, columns) = SetTable(d, t, columns, [i \in {} |-> {}])
  BY NotRefused DEF CreateTable, When, Exists
<1>2. QED  BY <1>1, TableSet

LEMMA DropTableIs ==
    ASSUME NEW d, Proper(d), NEW t, t \in DOMAIN d.tables, \A key \in d.keys : key.of = t => key.table = t
    PROVE  LET e == DropTable(d, t) IN
           /\ Proper(e) /\ DOMAIN e.tables = DOMAIN d.tables \ {t} /\ Elsewhere(d, e, t)
           /\ e.uniques = {u \in d.uniques : u.table # t}
           /\ e.keys = {key \in d.keys : key.table # t}
<1> DEFINE uniques == {u \in d.uniques : u.table # t}
           keys == {key \in d.keys : key.table # t}
           tables == Without(d.tables, t)
<1>1. DropTable(d, t) = Database(tables, uniques, keys)
  BY NotRefused DEF DropTable, When, Exists
<1>2. DOMAIN tables = DOMAIN d.tables \ {t} /\ \A u \in DOMAIN d.tables \ {t} : tables[u] = d.tables[u]
  BY DEF Without, Restrict
<1> HIDE DEF uniques, keys, tables
<1>3. Proper(Database(tables, uniques, keys))
  BY <1>2, Fields DEF Proper, Rows, Cols
<1>4. QED  BY <1>1, <1>2, <1>3, Fields DEF Elsewhere, uniques, keys

LEMMA Accepted ==
    ASSUME NEW d, NEW t, NEW c, NEW kind, d # Refused, Exists(d, t) /\ ~Has(d, t, c),
           kind # "required" \/ DOMAIN Rows(d, t) = {}
    PROVE  AddColumn(d, t, c, kind) =
             SetTable(d, t, Put(Cols(d, t), kind, c),
                      [i \in DOMAIN Rows(d, t) |-> With(Rows(d, t)[i], c, Initial(kind))])
BY DEF AddColumn, When

LEMMA AddColumnIs ==
    ASSUME NEW d, Proper(d), NEW t, t \in DOMAIN d.tables, NEW c, c \notin Names(Cols(d, t)),
           NEW kind \in {"required", "defaulted", "nullable"},
           kind # "required" \/ DOMAIN Rows(d, t) = {}
    PROVE  LET e == AddColumn(d, t, c, kind) IN
           /\ Changed(d, e, t, Put(Cols(d, t), kind, c)) /\ Carried(d, e, t, Names(Cols(d, t)))
           /\ kind = "nullable" => \A i \in DOMAIN Rows(e, t) : Rows(e, t)[i][c] = Null
<1> DEFINE rows == [i \in DOMAIN Rows(d, t) |-> With(Rows(d, t)[i], c, Initial(kind))]
           columns == Put(Cols(d, t), kind, c)
<1>1. AddColumn(d, t, c, kind) = SetTable(d, t, columns, rows)
  BY NotRefused, Accepted DEF Exists, Has
<1>2. ASSUME NEW i \in DOMAIN Rows(d, t)
      PROVE  /\ DOMAIN rows[i] = Names(columns)
             /\ rows[i][c] = Initial(kind) /\ \A x \in Names(Cols(d, t)) : rows[i][x] = Rows(d, t)[i][x]
  <2>1. DOMAIN Rows(d, t)[i] = Names(Cols(d, t)) /\ Names(columns) = Names(Cols(d, t)) \cup {c}
    BY NamesPut DEF Proper
  <2>2. QED  BY <2>1 DEF With
<1>3. DOMAIN rows = DOMAIN Rows(d, t)  OBVIOUS
<1> DEFINE f == SetTable(d, t, columns, rows)
<1> HIDE DEF rows, columns
<1>4. /\ Proper(f) /\ DOMAIN f.tables = DOMAIN d.tables \cup {t} /\ Elsewhere(d, f, t)
      /\ f.uniques = d.uniques /\ f.keys = d.keys /\ Cols(f, t) = columns /\ Rows(f, t) = rows
  BY <1>2, <1>3, TableSet
<1> HIDE DEF f
<1>5. AddColumn(d, t, c, kind) = f  BY <1>1 DEF f
<1>6. DOMAIN f.tables = DOMAIN d.tables  BY <1>4
<1>7. kind = "nullable" => Initial(kind) = Null  BY DEF Initial
<1>8. QED  BY <1>2, <1>3, <1>4, <1>5, <1>6, <1>7 DEF Changed, Carried, columns

LEMMA DropColumnIs ==
    ASSUME NEW d, Proper(d), NEW t, t \in DOMAIN d.tables, NEW c, c \in Names(Cols(d, t)), Free(d, t, c)
    PROVE  LET e == DropColumn(d, t, c) IN
           /\ Changed(d, e, t, Take(Cols(d, t), c)) /\ Carried(d, e, t, Names(Cols(d, t)) \ {c})
<1> DEFINE rows == [i \in DOMAIN Rows(d, t) |-> Without(Rows(d, t)[i], c)]
           columns == Take(Cols(d, t), c)
           f == SetTable(d, t, columns, rows)
<1>1. DropColumn(d, t, c) = Database(f.tables, {u \in d.uniques : ~(u.table = t /\ c \in u.columns)},
                                     {key \in d.keys : ~(key.table = t /\ key.column = c)})
  BY NotRefused DEF DropColumn, When, Exists, Has
<1>2. ASSUME NEW i \in DOMAIN Rows(d, t)
      PROVE  /\ DOMAIN rows[i] = Names(columns)
             /\ \A x \in Names(Cols(d, t)) \ {c} : rows[i][x] = Rows(d, t)[i][x]
  <2>1. DOMAIN Rows(d, t)[i] = Names(Cols(d, t)) /\ Names(columns) = Names(Cols(d, t)) \ {c}
    BY NamesTake DEF Proper
  <2>2. QED  BY <2>1 DEF Without, Restrict
<1>3. DOMAIN rows = DOMAIN Rows(d, t)  OBVIOUS
<1> HIDE DEF rows, columns
<1>4. /\ Proper(f) /\ DOMAIN f.tables = DOMAIN d.tables \cup {t} /\ Elsewhere(d, f, t)
      /\ f.uniques = d.uniques /\ f.keys = d.keys /\ Cols(f, t) = columns /\ Rows(f, t) = rows
  BY <1>2, <1>3, TableSet
<1> HIDE DEF f
<1>5. /\ {u \in d.uniques : ~(u.table = t /\ c \in u.columns)} = d.uniques
      /\ {key \in d.keys : ~(key.table = t /\ key.column = c)} = d.keys
  BY DEF Free
<1>6. DropColumn(d, t, c) = f  BY <1>1, <1>4, <1>5 DEF Proper
<1>7. QED  BY <1>2, <1>3, <1>4, <1>6 DEF Changed, Carried, columns

LEMMA RenameColumnIs ==
    ASSUME NEW d, Proper(d), NEW t, t \in DOMAIN d.tables, NEW c, c \in Names(Cols(d, t)),
           NEW x, x \notin Names(Cols(d, t))
    PROVE  LET e == RenameColumn(d, t, c, x) IN
           /\ Changed(d, e, t, Put(Take(Cols(d, t), c), KindOf(d, t, c), x))
           /\ Carried(d, e, t, Names(Cols(d, t)) \ {c})
           /\ Moved(d, e, t, c, x)
<1> DEFINE rows == [i \in DOMAIN Rows(d, t) |-> With(Without(Rows(d, t)[i], c), x, Rows(d, t)[i][c])]
           columns == Put(Take(Cols(d, t), c), KindOf(d, t, c), x)
<1>1. RenameColumn(d, t, c, x) = SetTable(d, t, columns, rows)
  BY NotRefused DEF RenameColumn, When, Exists, Has
<1>2. Names(columns) = (Names(Cols(d, t)) \ {c}) \cup {x}
  BY NamesPut, NamesTake DEF KindOf
<1>3. ASSUME NEW i \in DOMAIN Rows(d, t)
      PROVE  /\ DOMAIN rows[i] = Names(columns)
             /\ rows[i][x] = Rows(d, t)[i][c]
             /\ \A y \in Names(Cols(d, t)) \ {c} : rows[i][y] = Rows(d, t)[i][y]
  <2>1. DOMAIN Rows(d, t)[i] = Names(Cols(d, t))  BY DEF Proper
  <2>2. QED  BY <1>2, <2>1 DEF With, Without, Restrict
<1>4. DOMAIN rows = DOMAIN Rows(d, t)  OBVIOUS
<1> DEFINE f == SetTable(d, t, columns, rows)
<1> HIDE DEF rows, columns
<1>5. /\ Proper(f) /\ DOMAIN f.tables = DOMAIN d.tables \cup {t} /\ Elsewhere(d, f, t)
      /\ f.uniques = d.uniques /\ f.keys = d.keys /\ Cols(f, t) = columns /\ Rows(f, t) = rows
  BY <1>3, <1>4, TableSet
<1> HIDE DEF f
<1>6. RenameColumn(d, t, c, x) = f  BY <1>1 DEF f
<1>7. DOMAIN f.tables = DOMAIN d.tables  BY <1>5
<1>8. QED  BY <1>3, <1>4, <1>5, <1>6, <1>7 DEF Changed, Carried, Moved, columns

LEMMA AlterColumnIs ==
    ASSUME NEW d, Proper(d), NEW t, t \in DOMAIN d.tables, NEW c, c \in Names(Cols(d, t)),
           NEW kind \in {"required", "defaulted", "nullable"},
           kind = "nullable" \/ \A i \in DOMAIN Rows(d, t) : Rows(d, t)[i][c] # Null
    PROVE  LET e == AlterColumn(d, t, c, kind) IN
           /\ Changed(d, e, t, Put(Take(Cols(d, t), c), kind, c))
           /\ Carried(d, e, t, Names(Cols(d, t)))
<1> DEFINE columns == Put(Take(Cols(d, t), c), kind, c)
           rows == Rows(d, t)
<1>1. AlterColumn(d, t, c, kind) = SetTable(d, t, columns, rows)
  BY NotRefused DEF AlterColumn, When, Exists, Has
<1>2. Names(columns) = Names(Take(Cols(d, t), c)) \cup {c}  BY NamesPut
<1>. /\ Names(Take(Cols(d, t), c)) = Names(Cols(d, t)) \ {c}
     /\ Names(columns) = Names(Cols(d, t))
  BY <1>2, NamesTake
<1>3. \A i \in DOMAIN rows : DOMAIN rows[i] = Names(columns)  BY <1>2 DEF Proper
<1> DEFINE f == SetTable(d, t, columns, rows)
<1> HIDE DEF rows, columns
<1>4. /\ Proper(f) /\ DOMAIN f.tables = DOMAIN d.tables \cup {t} /\ Elsewhere(d, f, t)
      /\ f.uniques = d.uniques /\ f.keys = d.keys /\ Cols(f, t) = columns /\ Rows(f, t) = rows
  BY <1>3, TableSet
<1> HIDE DEF f
<1>5. AlterColumn(d, t, c, kind) = f  BY <1>1 DEF f
<1>6. DOMAIN f.tables = DOMAIN d.tables  BY <1>4
<1>7. QED  BY <1>4, <1>5, <1>6 DEF Changed, Carried, columns, rows

\* The rows are kept or there are none, and no nullable column is dropped unless its
\* values are not to be kept.
LEMMA RelaxedIs ==
    ASSUME inPlace \in BOOLEAN, NEW d, Proper(d), "transactions" \in DOMAIN d.tables,
           NEW c, c \in Names(Cols(d, "transactions")), c \notin Cols(d, "transactions").nullable,
           Free(d, "transactions", c)
    PROVE  LET e == Relaxed(d, c)
               columns == Cols(d, "transactions") IN
           /\ Changed(d, e, "transactions", Put(Take(columns, c), "nullable", c))
           /\ Carried(d, e, "transactions", Names(columns) \ {c})
           /\ c = "amount" => Carried(d, e, "transactions", Names(columns))
<1> DEFINE t == "transactions"
           columns == Cols(d, t)
           f == DropColumn(d, t, c)
           e == AddColumn(f, t, c, "nullable")
<1>1. CASE Altered(c)
  <2>1. Relaxed(d, c) = AlterColumn(d, t, c, "nullable")
    BY <1>1, NotRefused DEF Relaxed, Relax, ChangeColumn, Has, Exists
  <2>2. QED  BY <2>1, AlterColumnIs DEF Carried
<1>2. CASE ~Altered(c)
  <2>1. Relaxed(d, c) = e
    BY <1>2, NotRefused DEF Relaxed, Relax, ChangeColumn, Has, Exists
  <2>2. /\ Changed(d, f, t, Take(columns, c)) /\ Carried(d, f, t, Names(columns) \ {c})
    BY DropColumnIs
  <2> HIDE DEF f
  <2>3. /\ Proper(f) /\ t \in DOMAIN f.tables /\ c \notin Names(Cols(f, t))
        /\ Cols(f, t) = Take(columns, c) /\ Names(Cols(f, t)) = Names(columns) \ {c}
    BY <2>2, NamesTake DEF Changed
  <2>4. /\ Changed(f, e, t, Put(Cols(f, t), "nullable", c)) /\ Carried(f, e, t, Names(Cols(f, t)))
    BY <2>3, AddColumnIs
  <2> HIDE DEF e
  <2>5. c # "amount"  BY <1>2 DEF Altered
  <2>6. Changed(d, e, t, Put(Take(columns, c), "nullable", c))
    BY <2>2, <2>3, <2>4 DEF Changed, Elsewhere
  <2>7. Carried(d, e, t, Names(columns) \ {c})
    BY <2>2, <2>3, <2>4 DEF Carried, Changed
  <2>8. QED  BY <2>1, <2>5, <2>6, <2>7
<1>3. QED  BY <1>1, <1>2

\* Tightening loses no value, but may be refused.
LEMMA TightenedIs ==
    ASSUME inPlace \in BOOLEAN, NEW d, Proper(d), "transactions" \in DOMAIN d.tables,
           NEW c, c \in Names(Cols(d, "transactions")), Free(d, "transactions", c)
    PROVE  LET e == Tightened(d, c)
               columns == Cols(d, "transactions") IN
           \/ /\ Changed(d, e, "transactions", Put(Take(columns, c), "required", c))
              /\ Carried(d, e, "transactions", Names(columns))
           \/ /\ e = Refused
              /\ \E i \in DOMAIN Rows(d, "transactions") :
                   ~inPlace \/ Rows(d, "transactions")[i][c] = Null
<1> DEFINE t == "transactions"
           columns == Cols(d, t)
           f == DropColumn(d, t, c)
           e == AddColumn(f, t, c, "required")
<1>1. CASE Altered(c)
  <2>1. Tightened(d, c) = AlterColumn(d, t, c, "required")
    BY <1>1 DEF Tightened, ChangeColumn
  <2>2. CASE \A i \in DOMAIN Rows(d, t) : Rows(d, t)[i][c] # Null
    BY <2>1, <2>2, AlterColumnIs
  <2>3. CASE \E i \in DOMAIN Rows(d, t) : Rows(d, t)[i][c] = Null
    <3>1. AlterColumn(d, t, c, "required") = Refused  BY <2>3 DEF AlterColumn, When
    <3>2. QED  BY <2>1, <2>3, <3>1
  <2>4. QED  BY <2>2, <2>3
<1>2. CASE ~Altered(c)
  <2>1. Tightened(d, c) = e /\ ~inPlace
    BY <1>2 DEF Tightened, ChangeColumn, Altered
  <2>2. /\ Changed(d, f, t, Take(columns, c)) /\ Carried(d, f, t, Names(columns) \ {c})
    BY DropColumnIs
  <2> HIDE DEF f
  <2>3. /\ Proper(f) /\ t \in DOMAIN f.tables /\ c \notin Names(Cols(f, t))
        /\ Cols(f, t) = Take(columns, c) /\ DOMAIN Rows(f, t) = DOMAIN Rows(d, t)
    BY <2>2, NamesTake DEF Changed
  <2>4. CASE DOMAIN Rows(d, t) = {}
    <3>1. Changed(f, e, t, Put(Cols(f, t), "required", c))
      BY <2>3, <2>4, AddColumnIs
    <3> HIDE DEF e
    <3>2. Changed(d, e, t, Put(Take(columns, c), "required", c))
      BY <2>2, <2>3, <3>1 DEF Changed, Elsewhere
    <3>3. Carried(d, e, t, Names(columns))
      BY <2>4 DEF Carried
    <3>4. QED  BY <2>1, <3>2, <3>3
  <2>5. CASE DOMAIN Rows(d, t) # {}
    <3>1. e = Refused  BY <2>3, <2>5 DEF AddColumn, When
    <3>2. QED  BY <2>1, <2>5, <3>1
  <2>6. QED  BY <2>4, <2>5
<1>3. QED  BY <1>1, <1>2

LEMMA ConstraintsSet ==
    ASSUME NEW d, Proper(d), NEW uniques, NEW keys
    PROVE  Proper(Database(d.tables, uniques, keys))
BY Fields DEF Proper, Rows, Cols

LEMMA AddUniqueIs ==
    ASSUME NEW d, Proper(d), NEW t, NEW columns, Distinct(d, [table |-> t, columns |-> columns])
    PROVE  Constrained(d, AddUnique(d, t, columns), d.uniques \cup {UniqueOf(t, columns)}, d.keys)
<1>1. AddUnique(d, t, columns) = Database(d.tables, d.uniques \cup {UniqueOf(t, columns)}, d.keys)
  BY NotRefused DEF AddUnique, When, UniqueOf
<1>2. QED  BY <1>1, ConstraintsSet, Fields DEF Constrained

LEMMA DropUniqueIs ==
    ASSUME NEW d, Proper(d), NEW t, NEW columns
    PROVE  LessUnique(d, DropUnique(d, t, columns), UniqueOf(t, columns))
<1>1. DropUnique(d, t, columns) = Database(d.tables, d.uniques \ {UniqueOf(t, columns)}, d.keys)
  BY NotRefused DEF DropUnique, When, UniqueOf
<1>2. QED  BY <1>1, ConstraintsSet, Fields DEF LessUnique, Constrained

LEMMA AddKeyIs ==
    ASSUME NEW d, Proper(d), NEW t, t \in DOMAIN d.tables, NEW c, c \in Names(Cols(d, t)),
           NEW of, of \in DOMAIN d.tables, NEW onDelete,
           \A i \in DOMAIN Rows(d, t) : Rows(d, t)[i][c] = Null
    PROVE  MoreKeys(d, AddKey(d, t, c, of, onDelete), {KeyOf(t, c, of, onDelete)})
<1> DEFINE key == KeyOf(t, c, of, onDelete)
<1>1. Anchored(d, key)  BY DEF Anchored, KeyOf
<1>2. AddKey(d, t, c, of, onDelete) = Database(d.tables, d.uniques, d.keys \cup {key})
  BY <1>1, NotRefused DEF AddKey, When, Has, Exists, KeyOf
<1> HIDE DEF key
<1>3. QED  BY <1>2, ConstraintsSet, Fields DEF key, MoreKeys, Constrained

LEMMA DropKeyIs ==
    ASSUME NEW d, Proper(d), NEW t, NEW c
    PROVE  Constrained(d, DropKey(d, t, c), d.uniques,
                       {key \in d.keys : ~(key.table = t /\ key.column = c)})
<1>1. DropKey(d, t, c) =
        Database(d.tables, d.uniques, {key \in d.keys : ~(key.table = t /\ key.column = c)})
  BY NotRefused DEF DropKey, When
<1>2. QED  BY <1>1, ConstraintsSet, Fields DEF Constrained

-----------------------------------------------------------------------------
(* The inductive invariant: after k migrations, by whatever way, the tables  *)
(* are what those k migrations make of them, but for one unique index.       *)

BusinessColumns(k) ==
    Columns({"name"}, {"createdAt"} \cup (IF k < 2 THEN {} ELSE {"status"}),
            (IF k < 2 THEN {} ELSE {"ownerUserId"}) \cup (IF k < 5 THEN {} ELSE {"rejectionReason"}))
ManagerColumns == Columns({"businessId", "email", "passwordHash"}, {}, {})
FirstTransactionColumns ==
    Columns({"telegramUserId", "telegramName", "confidence"} \cup Payment,
            {"isDuplicate", "createdAt"}, {"imageUrl"})
TransactionColumns(k) ==
    Columns({"telegramUserId", "telegramName", "confidence"},
            {"isDuplicate", "createdAt", "status", "editedByUploader"},
            {"imageKey", "businessId", "userId"} \cup Payment
              \cup (IF k < 3 THEN {} ELSE {"fileUniqueId"}))
EditLogColumns ==
    Columns({"transactionId", "fieldName", "editedBy"}, {"editedAt"}, {"oldValue", "newValue"})
UserColumns(k) ==
    Columns({"telegramUserId", "displayName", "role"},
            {"createdAt"} \cup (IF k < 4 THEN {} ELSE {"language"}), {"businessId", "removedAt"})
InviteColumns ==
    Columns({"inviteeTelegramId", "businessId", "role", "createdByUserId", "expiresAt"},
            {"status", "createdAt"}, {})

NameUnique == UniqueOf("businesses", {"name"})
FirstUniques == {UniqueOf("managers", {"email"})}
UniquesAt(k) ==
    FirstUniques \cup {UniqueOf("users", {"telegramUserId"}), UniqueOf("invites", {"inviteeTelegramId"})}
      \cup (IF k < 3 THEN {} ELSE {UniqueOf("transactions", {"businessId", "fileUniqueId"})})
FirstKeys == {KeyOf("managers", "businessId", "businesses", "CASCADE"),
              KeyOf("edit_logs", "transactionId", "transactions", "CASCADE")}
NewKeys == {KeyOf("users", "businessId", "businesses", "SET_NULL"),
            KeyOf("invites", "businessId", "businesses", "CASCADE"),
            KeyOf("invites", "createdByUserId", "users", "CASCADE")}
TransactionKeys == {KeyOf("transactions", "businessId", "businesses", "SET_NULL"),
                    KeyOf("transactions", "userId", "users", "SET_NULL")}

FirstTables == {"businesses", "managers", "transactions", "edit_logs"}

\* Reverting the second migration does not bring the unique name back.
AtFirst(d) ==
    /\ Proper(d) /\ DOMAIN d.tables = FirstTables
    /\ Cols(d, "businesses") = BusinessColumns(1) /\ Cols(d, "managers") = ManagerColumns
    /\ Cols(d, "transactions") = FirstTransactionColumns /\ Cols(d, "edit_logs") = EditLogColumns
    /\ d.uniques \ {NameUnique} = FirstUniques /\ d.keys = FirstKeys
AtLater(k, d) ==
    /\ Proper(d) /\ DOMAIN d.tables = FirstTables \cup {"users", "invites"}
    /\ Cols(d, "businesses") = BusinessColumns(k) /\ Cols(d, "managers") = ManagerColumns
    /\ Cols(d, "transactions") = TransactionColumns(k) /\ Cols(d, "edit_logs") = EditLogColumns
    /\ Cols(d, "users") = UserColumns(k) /\ Cols(d, "invites") = InviteColumns
    /\ d.uniques = UniquesAt(k) /\ d.keys = FirstKeys \cup NewKeys \cup TransactionKeys
At(k, d) ==
    CASE k = 0 -> Proper(d) /\ DOMAIN d.tables = {} /\ d.uniques = {} /\ d.keys = {}
      [] k = 1 -> AtFirst(d)
      [] OTHER -> AtLater(k, d)
DbInv == applied \in 0..Latest /\ inPlace \in BOOLEAN /\ At(applied, db)

-----------------------------------------------------------------------------
(* Lemmas about sequences of statements *)

LEMMA ChangedTwice ==
    ASSUME NEW d, NEW e, NEW f, NEW t, NEW columns, NEW more,
           Changed(d, e, t, columns), Changed(e, f, t, more)
    PROVE  Changed(d, f, t, more)
BY DEF Changed, Elsewhere
LEMMA CarriedTwice ==
    ASSUME NEW d, NEW e, NEW f, NEW t, NEW columns, NEW S, NEW T, NEW U,
           Changed(d, e, t, columns), Carried(d, e, t, S), Carried(e, f, t, T), U \subseteq S \cap T
    PROVE  Carried(d, f, t, U)
BY DEF Changed, Carried

\* A new table, with its constraints.
Added(d, e, t, columns, uniques, keys) ==
    /\ Proper(e)
    /\ DOMAIN e.tables = DOMAIN d.tables \cup {t} /\ Elsewhere(d, e, t)
    /\ Cols(e, t) = columns /\ DOMAIN Rows(e, t) = {}
    /\ e.uniques = d.uniques \cup uniques /\ e.keys = d.keys \cup keys

LEMMA CreatedAdded ==
    ASSUME NEW d, Proper(d), NEW t, t \notin DOMAIN d.tables, NEW columns
    PROVE  Added(d, CreateTable(d, t, columns), t, columns, {}, {})
BY CreateTableIs DEF Added
LEMMA UniqueAdded ==
    ASSUME NEW d, NEW e, NEW t, NEW columns, NEW uniques, NEW keys, Added(d, e, t, columns, uniques, keys),
           NEW S
    PROVE  Added(d, AddUnique(e, t, S), t, columns, uniques \cup {UniqueOf(t, S)}, keys)
<1> DEFINE f == AddUnique(e, t, S)
<1>1. Distinct(e, [table |-> t, columns |-> S])  BY DEF Distinct, Added
<1>2. Proper(e)  BY DEF Added
<1>3. Constrained(e, f, e.uniques \cup {UniqueOf(t, S)}, e.keys)  BY <1>1, <1>2, AddUniqueIs
<1>4. QED  BY <1>3 DEF Added, Elsewhere, Cols, Rows, Constrained
LEMMA KeyAdded ==
    ASSUME NEW d, NEW e, NEW t, NEW columns, NEW uniques, NEW keys, Added(d, e, t, columns, uniques, keys),
           NEW c, c \in Names(columns), NEW of, of \in DOMAIN d.tables, NEW rule
    PROVE  Added(d, AddKey(e, t, c, of, rule), t, columns, uniques, keys \cup {KeyOf(t, c, of, rule)})
<1> DEFINE f == AddKey(e, t, c, of, rule)
<1>1. Proper(e) /\ {t, of} \subseteq DOMAIN e.tables /\ c \in Names(Cols(e, t)) /\ DOMAIN Rows(e, t) = {}
  BY DEF Added
<1>2. MoreKeys(e, f, {KeyOf(t, c, of, rule)})  BY <1>1, AddKeyIs
<1>3. QED  BY <1>2 DEF Added, Elsewhere, Cols, Rows, MoreKeys, Constrained

-----------------------------------------------------------------------------
(* The first migration, and back *)

LEMMA BusinessesUpIs ==
    ASSUME NEW d, Proper(d), "businesses" \notin DOMAIN d.tables
    PROVE  Added(d, BusinessesUp(d), "businesses", BusinessColumns(1), {NameUnique}, {})
<1> DEFINE d1 == CreateTable(d, "businesses", BusinessColumns(1))
<1>1. BusinessColumns(1) = Columns({"name"}, {"createdAt"}, {})  BY DEF BusinessColumns
<1>2. BusinessesUp(d) = AddUnique(d1, "businesses", {"name"})  BY <1>1 DEF BusinessesUp
<1>3. Added(d, d1, "businesses", BusinessColumns(1), {}, {})  BY CreatedAdded
<1> HIDE DEF d1
<1>4. Added(d, BusinessesUp(d), "businesses", BusinessColumns(1), {} \cup {NameUnique}, {})
  BY <1>2, <1>3, UniqueAdded DEF NameUnique
<1>5. QED  BY <1>4

LEMMA ManagersUpIs ==
    ASSUME NEW d, Proper(d), "managers" \notin DOMAIN d.tables, "businesses" \in DOMAIN d.tables
    PROVE  Added(d, ManagersUp(d), "managers", ManagerColumns, FirstUniques,
                 {KeyOf("managers", "businessId", "businesses", "CASCADE")})
<1> DEFINE d1 == CreateTable(d, "managers", ManagerColumns)
           d2 == AddUnique(d1, "managers", {"email"})
           d3 == AddKey(d2, "managers", "businessId", "businesses", "CASCADE")
<1>1. ManagersUp(d) = d3  BY DEF ManagersUp, ManagerColumns
<1>2. Added(d, d1, "managers", ManagerColumns, {}, {})  BY CreatedAdded
<1> HIDE DEF d1
<1>3. Added(d, d2, "managers", ManagerColumns, {} \cup FirstUniques, {})
  BY <1>2, UniqueAdded DEF FirstUniques
<1> HIDE DEF d2
<1>4. "businessId" \in Names(ManagerColumns)  BY DEF ManagerColumns, Names, Columns
<1>5. Added(d, d3, "managers", ManagerColumns, {} \cup FirstUniques,
            {} \cup {KeyOf("managers", "businessId", "businesses", "CASCADE")})
  BY <1>3, <1>4, KeyAdded
<1> HIDE DEF d3
<1>6. QED  BY <1>1, <1>5

LEMMA TransactionsUpIs ==
    ASSUME NEW d, Proper(d), "transactions" \notin DOMAIN d.tables
    PROVE  Added(d, TransactionsUp(d), "transactions", FirstTransactionColumns, {}, {})
<1>1. {"telegramUserId", "telegramName", "amount", "transactionId", "timestamp", "bankName", "confidence"}
        = {"telegramUserId", "telegramName", "confidence"} \cup Payment
  BY DEF Payment
<1>2. TransactionsUp(d) = CreateTable(d, "transactions", FirstTransactionColumns)
  BY <1>1 DEF TransactionsUp, FirstTransactionColumns
<1>3. QED  BY <1>2, CreatedAdded

LEMMA EditLogsUpIs ==
    ASSUME NEW d, Proper(d), "edit_logs" \notin DOMAIN d.tables, "transactions" \in DOMAIN d.tables
    PROVE  Added(d, EditLogsUp(d), "edit_logs", EditLogColumns, {},
                 {KeyOf("edit_logs", "transactionId", "transactions", "CASCADE")})
<1> DEFINE d1 == CreateTable(d, "edit_logs", EditLogColumns)
           d2 == AddKey(d1, "edit_logs", "transactionId", "transactions", "CASCADE")
<1>1. EditLogsUp(d) = d2  BY DEF EditLogsUp, EditLogColumns
<1>2. Added(d, d1, "edit_logs", EditLogColumns, {}, {})  BY CreatedAdded
<1> HIDE DEF d1
<1>3. "transactionId" \in Names(EditLogColumns)  BY DEF EditLogColumns, Names, Columns
<1>4. Added(d, d2, "edit_logs", EditLogColumns, {},
            {} \cup {KeyOf("edit_logs", "transactionId", "transactions", "CASCADE")})
  BY <1>2, <1>3, KeyAdded
<1> HIDE DEF d2
<1>5. QED  BY <1>1, <1>4

LEMMA InitialUpIs == ASSUME NEW d, At(0, d) PROVE At(1, InitialUp(d))
<1> DEFINE b == BusinessesUp(d)
           m == ManagersUp(b)
           t == TransactionsUp(m)
           e == EditLogsUp(t)
<1>1. Proper(d) /\ DOMAIN d.tables = {} /\ d.uniques = {} /\ d.keys = {}  BY DEF At
<1>2. Added(d, b, "businesses", BusinessColumns(1), {NameUnique}, {})  BY <1>1, BusinessesUpIs
<1> HIDE DEF b
<1>3. Added(b, m, "managers", ManagerColumns, FirstUniques,
            {KeyOf("managers", "businessId", "businesses", "CASCADE")})
  BY <1>1, <1>2, ManagersUpIs DEF Added
<1> HIDE DEF m
<1>4. Added(m, t, "transactions", FirstTransactionColumns, {}, {})
  BY <1>1, <1>2, <1>3, TransactionsUpIs DEF Added
<1> HIDE DEF t
<1>5. Added(t, e, "edit_logs", EditLogColumns, {},
            {KeyOf("edit_logs", "transactionId", "transactions", "CASCADE")})
  BY <1>1, <1>2, <1>3, <1>4, EditLogsUpIs DEF Added
<1>6. InitialUp(d) = e  BY DEF InitialUp, b, m, t
<1> HIDE DEF e
<1>7. DOMAIN e.tables = FirstTables  BY <1>1, <1>2, <1>3, <1>4, <1>5 DEF Added, FirstTables
<1>8. /\ Cols(e, "businesses") = BusinessColumns(1) /\ Cols(e, "managers") = ManagerColumns
      /\ Cols(e, "transactions") = FirstTransactionColumns /\ Cols(e, "edit_logs") = EditLogColumns
  BY <1>1, <1>2, <1>3, <1>4, <1>5 DEF Added, Elsewhere, Cols
<1>9. /\ e.uniques = {NameUnique} \cup FirstUniques /\ e.keys = FirstKeys
  BY <1>1, <1>2, <1>3, <1>4, <1>5 DEF Added, FirstKeys
<1>10. NameUnique \notin FirstUniques  BY DEF NameUnique, FirstUniques, UniqueOf
<1>11. Proper(e)  BY <1>5 DEF Added
<1>12. QED  BY <1>6, <1>7, <1>8, <1>9, <1>10, <1>11 DEF At, AtFirst

-----------------------------------------------------------------------------
(* The second migration *)

UsersKeys == {KeyOf("users", "businessId", "businesses", "SET_NULL")}
InvitesKeys == {KeyOf("invites", "businessId", "businesses", "CASCADE"),
                KeyOf("invites", "createdByUserId", "users", "CASCADE")}

LEMMA KeyPlaces ==
    /\ \A key \in FirstKeys : /\ key.table \in {"managers", "edit_logs"}
                              /\ key.column \in {"businessId", "transactionId"}
                              /\ key.of \in {"businesses", "transactions"}
    /\ \A key \in UsersKeys : key.table = "users" /\ key.column = "businessId" /\ key.of = "businesses"
    /\ \A key \in InvitesKeys : /\ key.table = "invites" /\ key.column \in {"businessId", "createdByUserId"}
                                /\ key.of \in {"businesses", "users"}
    /\ \A key \in TransactionKeys : /\ key.table = "transactions" /\ key.column \in {"businessId", "userId"}
                                    /\ key.of \in {"businesses", "users"}
BY DEF FirstKeys, UsersKeys, InvitesKeys, TransactionKeys, KeyOf
LEMMA NewKeyPlaces == NewKeys = UsersKeys \cup InvitesKeys
BY DEF NewKeys, UsersKeys, InvitesKeys

LEMMA UsersUpIs ==
    ASSUME NEW d, Proper(d), "users" \notin DOMAIN d.tables, "businesses" \in DOMAIN d.tables
    PROVE  Added(d, UsersUp(d), "users", UserColumns(2), {UniqueOf("users", {"telegramUserId"})}, UsersKeys)
<1> DEFINE d1 == CreateTable(d, "users", UserColumns(2))
           d2 == AddUnique(d1, "users", {"telegramUserId"})
           d3 == AddKey(d2, "users", "businessId", "businesses", "SET_NULL")
<1>1. UserColumns(2) = Columns({"telegramUserId", "displayName", "role"}, {"createdAt"},
                               {"businessId", "removedAt"})
  BY DEF UserColumns
<1>2. UsersUp(d) = d3  BY <1>1 DEF UsersUp
<1>3. Added(d, d1, "users", UserColumns(2), {}, {})  BY CreatedAdded
<1> HIDE DEF d1
<1>4. Added(d, d2, "users", UserColumns(2), {} \cup {UniqueOf("users", {"telegramUserId"})}, {})
  BY <1>3, UniqueAdded
<1> HIDE DEF d2
<1>5. "businessId" \in Names(UserColumns(2))  BY <1>1 DEF Names, Columns
<1>6. Added(d, d3, "users", UserColumns(2), {} \cup {UniqueOf("users", {"telegramUserId"})},
            {} \cup {KeyOf("users", "businessId", "businesses", "SET_NULL")})
  BY <1>4, <1>5, KeyAdded
<1> HIDE DEF d3
<1>7. QED  BY <1>2, <1>6 DEF UsersKeys

LEMMA InvitesUpIs ==
    ASSUME NEW d, Proper(d), "invites" \notin DOMAIN d.tables, {"businesses", "users"} \subseteq DOMAIN d.tables
    PROVE  Added(d, InvitesUp(d), "invites", InviteColumns, {UniqueOf("invites", {"inviteeTelegramId"})},
                 InvitesKeys)
<1> DEFINE d1 == CreateTable(d, "invites", InviteColumns)
           d2 == AddUnique(d1, "invites", {"inviteeTelegramId"})
           d3 == AddKey(d2, "invites", "businessId", "businesses", "CASCADE")
           d4 == AddKey(d3, "invites", "createdByUserId", "users", "CASCADE")
           k3 == KeyOf("invites", "businessId", "businesses", "CASCADE")
           k4 == KeyOf("invites", "createdByUserId", "users", "CASCADE")
           u == UniqueOf("invites", {"inviteeTelegramId"})
<1>1. InvitesUp(d) = d4  BY DEF InvitesUp, InviteColumns
<1>2. Added(d, d1, "invites", InviteColumns, {}, {})  BY CreatedAdded
<1> HIDE DEF d1
<1>3. Added(d, d2, "invites", InviteColumns, {} \cup {u}, {})  BY <1>2, UniqueAdded
<1> HIDE DEF d2
<1>4. {"businessId", "createdByUserId"} \subseteq Names(InviteColumns)  BY DEF InviteColumns, Names, Columns
<1>5. Added(d, d3, "invites", InviteColumns, {} \cup {u}, {} \cup {k3})  BY <1>3, <1>4, KeyAdded
<1> HIDE DEF d3
<1>6. Added(d, d4, "invites", InviteColumns, {} \cup {u}, ({} \cup {k3}) \cup {k4})
  BY <1>4, <1>5, KeyAdded
<1>7. {} \cup {u} = {u} /\ ({} \cup {k3}) \cup {k4} = InvitesKeys  BY DEF InvitesKeys
<1> HIDE DEF d4, u, k3, k4
<1>8. QED  BY <1>1, <1>6, <1>7 DEF u

LEMMA BusinessColumnsUpIs ==
    ASSUME NEW d, Proper(d), "businesses" \in DOMAIN d.tables, Cols(d, "businesses") = BusinessColumns(1)
    PROVE  LET e == BusinessColumnsUp(d) IN
           /\ Proper(e) /\ DOMAIN e.tables = DOMAIN d.tables /\ Elsewhere(d, e, "businesses")
           /\ Cols(e, "businesses") = BusinessColumns(2)
           /\ e.uniques = d.uniques \ {NameUnique} /\ e.keys = d.keys
<1> DEFINE b == "businesses"
           d1 == DropUnique(d, b, {"name"})
           d2 == AddColumn(d1, b, "status", "defaulted")
           d3 == AddColumn(d2, b, "ownerUserId", "nullable")
<1>1. BusinessColumnsUp(d) = d3  BY DEF BusinessColumnsUp, StatusKind
<1>. LessUnique(d, d1, NameUnique)  BY DropUniqueIs DEF NameUnique
<1>2. Proper(d1) /\ d1.tables = d.tables /\ d1.keys = d.keys /\ d1.uniques = d.uniques \ {NameUnique}
  BY DEF LessUnique, Constrained
<1> HIDE DEF d1
<1>3. Cols(d1, b) = BusinessColumns(1)  BY <1>2 DEF Cols
<1>4. /\ "status" \notin Names(BusinessColumns(1))
      /\ "ownerUserId" \notin Names(Put(BusinessColumns(1), "defaulted", "status"))
      /\ Put(Put(BusinessColumns(1), "defaulted", "status"), "nullable", "ownerUserId") = BusinessColumns(2)
  BY DEF BusinessColumns, Put, Columns, Names
<1>5. Changed(d1, d2, b, Put(BusinessColumns(1), "defaulted", "status"))
  BY <1>2, <1>3, <1>4, AddColumnIs
<1> HIDE DEF d2
<1>6. Proper(d2) /\ b \in DOMAIN d2.tables /\ Cols(d2, b) = Put(BusinessColumns(1), "defaulted", "status")
  BY <1>2, <1>5 DEF Changed
<1>7. Changed(d2, d3, b, BusinessColumns(2))
  BY <1>4, <1>6, AddColumnIs
<1> HIDE DEF d3
<1>8. QED  BY <1>1, <1>2, <1>5, <1>7 DEF Changed, Elsewhere

\* The columns of transactions in between.
OwnedColumns ==
    Columns({"telegramUserId", "telegramName", "confidence"} \cup Payment,
            {"isDuplicate", "createdAt"}, {"imageUrl", "businessId", "userId"})
StatusColumns ==
    Columns({"telegramUserId", "telegramName", "confidence"} \cup Payment,
            {"isDuplicate", "createdAt", "status", "editedByUploader"}, {"imageUrl", "businessId", "userId"})
RelaxedColumns ==
    Columns({"telegramUserId", "telegramName", "confidence"},
            {"isDuplicate", "createdAt", "status", "editedByUploader"},
            {"imageUrl", "businessId", "userId"} \cup Payment)

LEMMA OwnersUpIs ==
    ASSUME NEW d, Proper(d), "transactions" \in DOMAIN d.tables, Cols(d, "transactions") = FirstTransactionColumns
    PROVE  /\ Changed(d, OwnersUp(d), "transactions", OwnedColumns)
           /\ Carried(d, OwnersUp(d), "transactions", Names(FirstTransactionColumns))
           /\ \A i \in DOMAIN Rows(d, "transactions") : \A c \in {"businessId", "userId"} :
                Rows(OwnersUp(d), "transactions")[i][c] = Null
<1> DEFINE t == "transactions"
           columns == FirstTransactionColumns
           more == Put(columns, "nullable", "businessId")
           d1 == AddColumn(d, t, "businessId", "nullable")
           d2 == AddColumn(d1, t, "userId", "nullable")
<1>1. OwnersUp(d) = d2  BY DEF OwnersUp
<1>2. /\ "businessId" \notin Names(columns)
      /\ "userId" \notin Names(more) /\ "businessId" \in Names(more) /\ Names(columns) \subseteq Names(more)
      /\ Put(more, "nullable", "userId") = OwnedColumns
  BY DEF FirstTransactionColumns, OwnedColumns, Payment, Put, Columns, Names
<1> HIDE DEF columns, more
<1>3. /\ Changed(d, d1, t, more) /\ Carried(d, d1, t, Names(columns))
      /\ \A i \in DOMAIN Rows(d1, t) : Rows(d1, t)[i]["businessId"] = Null
  BY <1>2, AddColumnIs DEF columns, more
<1> HIDE DEF d1
<1>4. Proper(d1) /\ t \in DOMAIN d1.tables /\ Cols(d1, t) = more  BY <1>3 DEF Changed
<1>5. /\ Changed(d1, d2, t, OwnedColumns) /\ Carried(d1, d2, t, Names(more))
      /\ \A i \in DOMAIN Rows(d2, t) : Rows(d2, t)[i]["userId"] = Null
  BY <1>2, <1>4, AddColumnIs
<1> HIDE DEF d2
<1>6. Changed(d, d2, t, OwnedColumns)  BY <1>3, <1>5, ChangedTwice
<1>7. Carried(d, d2, t, Names(columns))  BY <1>2, <1>3, <1>5, CarriedTwice
<1>8. \A i \in DOMAIN Rows(d, t) : Rows(d2, t)[i]["businessId"] = Null /\ Rows(d2, t)[i]["userId"] = Null
  BY <1>2, <1>3, <1>5 DEF Changed, Carried
<1>9. QED  BY <1>1, <1>6, <1>7, <1>8 DEF columns

LEMMA StatusUpIs ==
    ASSUME NEW d, Proper(d), "transactions" \in DOMAIN d.tables, Cols(d, "transactions") = OwnedColumns
    PROVE  /\ Changed(d, StatusUp(d), "transactions", StatusColumns)
           /\ Carried(d, StatusUp(d), "transactions", Names(OwnedColumns))
<1> DEFINE t == "transactions"
           columns == OwnedColumns
           more == Put(columns, "defaulted", "status")
           d1 == AddColumn(d, t, "status", "defaulted")
           d2 == AddColumn(d1, t, "editedByUploader", "defaulted")
<1>1. StatusUp(d) = d2  BY DEF StatusUp, StatusKind
<1>2. /\ "status" \notin Names(columns)
      /\ "editedByUploader" \notin Names(more) /\ Names(columns) \subseteq Names(more)
      /\ Put(more, "defaulted", "editedByUploader") = StatusColumns
  BY DEF StatusColumns, OwnedColumns, Payment, Put, Columns, Names
<1> HIDE DEF columns, more
<1>3. Changed(d, d1, t, more) /\ Carried(d, d1, t, Names(columns))
  BY <1>2, AddColumnIs DEF columns, more
<1> HIDE DEF d1
<1>4. Proper(d1) /\ t \in DOMAIN d1.tables /\ Cols(d1, t) = more  BY <1>3 DEF Changed
<1>5. Changed(d1, d2, t, StatusColumns) /\ Carried(d1, d2, t, Names(more))
  BY <1>2, <1>4, AddColumnIs
<1> HIDE DEF d2
<1>6. Changed(d, d2, t, StatusColumns)  BY <1>3, <1>5, ChangedTwice
<1>7. Carried(d, d2, t, Names(columns))  BY <1>2, <1>3, <1>5, CarriedTwice
<1>8. QED  BY <1>1, <1>6, <1>7 DEF columns

\* No constraint is on the table.
NoneOn(d, t) == (\A u \in d.uniques : u.table # t) /\ (\A key \in d.keys : key.table # t)
LEMMA NoneIsFree ==
    ASSUME NEW d, NEW t, NoneOn(d, t)
    PROVE  /\ \A c : Free(d, t, c)
           /\ \A e, columns : Changed(d, e, t, columns) => NoneOn(e, t)
BY DEF NoneOn, Free, Changed

LEMMA RelaxUpIs ==
    ASSUME inPlace \in BOOLEAN, NEW d, Proper(d), "transactions" \in DOMAIN d.tables,
           Cols(d, "transactions") = StatusColumns, NoneOn(d, "transactions")
    PROVE  /\ Changed(d, RelaxUp(d), "transactions", RelaxedColumns)
           /\ Carried(d, RelaxUp(d), "transactions", {"amount"} \cup (Names(StatusColumns) \ Payment))
<1> DEFINE t == "transactions"
           c0 == StatusColumns
           c1 == Put(Take(c0, "amount"), "nullable", "amount")
           c2 == Put(Take(c1, "transactionId"), "nullable", "transactionId")
           c3 == Put(Take(c2, "timestamp"), "nullable", "timestamp")
           c4 == Put(Take(c3, "bankName"), "nullable", "bankName")
           kept == {"amount"} \cup (Names(StatusColumns) \ Payment)
           d1 == Relaxed(d, "amount")
           d2 == Relaxed(d1, "transactionId")
           d3 == Relaxed(d2, "timestamp")
           d4 == Relaxed(d3, "bankName")
<1>1. RelaxUp(d) = d4  BY DEF RelaxUp
<1>2. /\ Names(c1) = Names(c0) /\ Names(c2) = Names(c0) /\ Names(c3) = Names(c0)
      /\ Payment \subseteq Names(c0)
  BY NamesPut, NamesTake DEF StatusColumns, Columns, Names, Payment
<1>3. /\ "amount" \notin c0.nullable /\ "transactionId" \notin c1.nullable
      /\ "timestamp" \notin c2.nullable /\ "bankName" \notin c3.nullable /\ c4 = RelaxedColumns
  <2> DEFINE R == {"telegramUserId", "telegramName", "confidence"} \cup Payment
             D == {"isDuplicate", "createdAt", "status", "editedByUploader"}
             N == {"imageUrl", "businessId", "userId"}
  <2>1. \A S, T, U, c : Put(Take(Columns(S, T, U), c), "nullable", c)
                       = Columns(S \ {c}, T \ {c}, U \cup {c})
    BY DEF Put, Take, Columns
  <2>2. c0 = Columns(R, D, N)  BY DEF StatusColumns
  <2>3. c1 = Columns(R \ {"amount"}, D, N \cup {"amount"})
    <3>1. D \ {"amount"} = D  OBVIOUS
    <3>2. QED  BY <2>1, <2>2, <3>1
  <2> HIDE DEF c0, c1
  <2>4. c2 = Columns((R \ {"amount"}) \ {"transactionId"}, D, (N \cup {"amount"}) \cup {"transactionId"})
    <3>1. D \ {"transactionId"} = D  OBVIOUS
    <3>2. QED  BY <2>1, <2>3, <3>1
  <2> HIDE DEF c2
  <2>5. c3 = Columns(((R \ {"amount"}) \ {"transactionId"}) \ {"timestamp"}, D,
                     ((N \cup {"amount"}) \cup {"transactionId"}) \cup {"timestamp"})
    <3>1. D \ {"timestamp"} = D  OBVIOUS
    <3>2. QED  BY <2>1, <2>4, <3>1
  <2> HIDE DEF c3
  <2>6. c4 = Columns((((R \ {"amount"}) \ {"transactionId"}) \ {"timestamp"}) \ {"bankName"}, D,
                     (((N \cup {"amount"}) \cup {"transactionId"}) \cup {"timestamp"}) \cup {"bankName"})
    <3>1. D \ {"bankName"} = D  OBVIOUS
    <3>2. QED  BY <2>1, <2>5, <3>1
  <2>7. (((R \ {"amount"}) \ {"transactionId"}) \ {"timestamp"}) \ {"bankName"}
          = {"telegramUserId", "telegramName", "confidence"}
    BY DEF Payment
  <2>8. (((N \cup {"amount"}) \cup {"transactionId"}) \cup {"timestamp"}) \cup {"bankName"} = N \cup Payment
    BY DEF Payment
  <2>9. c4 = RelaxedColumns  BY <2>6, <2>7, <2>8 DEF RelaxedColumns
  <2>10. QED  BY <2>2, <2>3, <2>4, <2>5, <2>9 DEF Columns
<1>4. /\ {"amount", "transactionId", "timestamp", "bankName"} = Payment
      /\ kept \subseteq Names(c0)
      /\ kept \subseteq Names(c0) \ {"transactionId"} /\ kept \subseteq Names(c0) \ {"timestamp"}
      /\ kept \subseteq Names(c0) \ {"bankName"}
  BY <1>2 DEF Payment
<1> HIDE DEF c0, c1, c2, c3, c4, kept
<1>5. Changed(d, d1, t, c1) /\ Carried(d, d1, t, Names(c0)) /\ NoneOn(d1, t)
  BY <1>2, <1>3, <1>4, RelaxedIs, NoneIsFree DEF c0, c1
<1> HIDE DEF d1
<1>6. Proper(d1) /\ t \in DOMAIN d1.tables /\ Cols(d1, t) = c1  BY <1>5 DEF Changed
<1>7. Changed(d1, d2, t, c2) /\ Carried(d1, d2, t, Names(c0) \ {"transactionId"}) /\ NoneOn(d2, t)
  BY <1>2, <1>3, <1>4, <1>5, <1>6, RelaxedIs, NoneIsFree DEF c2
<1> HIDE DEF d2
<1>8. Proper(d2) /\ t \in DOMAIN d2.tables /\ Cols(d2, t) = c2  BY <1>6, <1>7 DEF Changed
<1>9. Changed(d2, d3, t, c3) /\ Carried(d2, d3, t, Names(c0) \ {"timestamp"}) /\ NoneOn(d3, t)
  BY <1>2, <1>3, <1>4, <1>7, <1>8, RelaxedIs, NoneIsFree DEF c3
<1> HIDE DEF d3
<1>10. Proper(d3) /\ t \in DOMAIN d3.tables /\ Cols(d3, t) = c3  BY <1>8, <1>9 DEF Changed
<1>11. Changed(d3, d4, t, c4) /\ Carried(d3, d4, t, Names(c0) \ {"bankName"})
  BY <1>2, <1>3, <1>4, <1>9, <1>10, RelaxedIs, NoneIsFree DEF c4
<1> HIDE DEF d4
<1>12. Changed(d, d4, t, c4)
  <2>1. Changed(d, d2, t, c2)  BY <1>5, <1>7, ChangedTwice
  <2>2. Changed(d, d3, t, c3)  BY <2>1, <1>9, ChangedTwice
  <2>3. QED  BY <2>2, <1>11, ChangedTwice
<1>13. Carried(d, d4, t, kept)
  BY <1>4, <1>5, <1>7, <1>9, <1>11 DEF Carried, Changed
<1>14. QED  BY <1>1, <1>3, <1>12, <1>13 DEF kept

LEMMA ImageUpIs ==
    ASSUME NEW d, Proper(d), "transactions" \in DOMAIN d.tables, Cols(d, "transactions") = RelaxedColumns
    PROVE  /\ Changed(d, ImageUp(d), "transactions", TransactionColumns(2))
           /\ Carried(d, ImageUp(d), "transactions", Names(RelaxedColumns) \ {"imageUrl"})
           /\ Moved(d, ImageUp(d), "transactions", "imageUrl", "imageKey")
<1>1. /\ "imageUrl" \in Names(RelaxedColumns) /\ "imageKey" \notin Names(RelaxedColumns)
      /\ "imageUrl" \in RelaxedColumns.nullable
      /\ Put(Take(RelaxedColumns, "imageUrl"), "nullable", "imageKey") = TransactionColumns(2)
  BY DEF RelaxedColumns, TransactionColumns, Names, Columns, Payment, Put, Take
<1>2. KindOf(d, "transactions", "imageUrl") = "nullable"  BY <1>1 DEF KindOf
<1>3. /\ Changed(d, ImageUp(d), "transactions",
                 Put(Take(RelaxedColumns, "imageUrl"), KindOf(d, "transactions", "imageUrl"), "imageKey"))
      /\ Carried(d, ImageUp(d), "transactions", Names(RelaxedColumns) \ {"imageUrl"})
      /\ Moved(d, ImageUp(d), "transactions", "imageUrl", "imageKey")
  BY <1>1, RenameColumnIs DEF ImageUp
<1>4. QED  BY <1>1, <1>2, <1>3

LEMMA KeysUpIs ==
    ASSUME NEW d, Proper(d), {"transactions", "businesses", "users"} \subseteq DOMAIN d.tables,
           Cols(d, "transactions") = TransactionColumns(2),
           \A i \in DOMAIN Rows(d, "transactions") : \A c \in {"businessId", "userId"} :
             Rows(d, "transactions")[i][c] = Null
    PROVE  MoreKeys(d, KeysUp(d), TransactionKeys)
<1> DEFINE t == "transactions"
           d1 == AddKey(d, t, "businessId", "businesses", "SET_NULL")
           d2 == AddKey(d1, t, "userId", "users", "SET_NULL")
           k1 == KeyOf(t, "businessId", "businesses", "SET_NULL")
           k2 == KeyOf(t, "userId", "users", "SET_NULL")
<1>1. KeysUp(d) = d2  BY DEF KeysUp
<1>2. {"businessId", "userId"} \subseteq Names(TransactionColumns(2))
  BY DEF TransactionColumns, Names, Columns, Payment
<1>3. /\ t \in DOMAIN d.tables /\ "businesses" \in DOMAIN d.tables /\ "users" \in DOMAIN d.tables
      /\ "businessId" \in Names(Cols(d, t)) /\ "userId" \in Names(Cols(d, t))
      /\ \A i \in DOMAIN Rows(d, t) : Rows(d, t)[i]["businessId"] = Null /\ Rows(d, t)[i]["userId"] = Null
  BY <1>2
<1>4. MoreKeys(d, d1, {k1})  BY <1>3, AddKeyIs
<1> HIDE DEF d1, k1
<1>5. Proper(d1) /\ d1.tables = d.tables /\ Cols(d1, t) = Cols(d, t) /\ Rows(d1, t) = Rows(d, t)
  BY <1>4 DEF Cols, Rows, MoreKeys, Constrained
<1>6. MoreKeys(d1, d2, {k2})  BY <1>3, <1>5, AddKeyIs
<1> HIDE DEF d2, k2
<1>7. MoreKeys(d, d2, {k1, k2})  BY <1>4, <1>6 DEF MoreKeys, Constrained
<1>8. {k1, k2} = TransactionKeys  BY DEF TransactionKeys, k1, k2
<1>9. QED  BY <1>1, <1>7, <1>8

LEMMA ImageIs ==
    ASSUME NEW d, Proper(d), "transactions" \in DOMAIN d.tables, NEW i \in DOMAIN Rows(d, "transactions")
    PROVE  Image(d, i) = Rows(d, "transactions")[i][IF "imageKey" \in Names(Cols(d, "transactions"))
                                                      THEN "imageKey" ELSE "imageUrl"]
BY DEF Image, Proper

\* Untouched rows are kept.
LEMMA KeptAsIs ==
    ASSUME NEW d, NEW e, {"transactions", "edit_logs"} \subseteq DOMAIN d.tables,
           DOMAIN e.tables = DOMAIN d.tables,
           e.tables["transactions"] = d.tables["transactions"], e.tables["edit_logs"] = d.tables["edit_logs"]
    PROVE  Kept(d, e)
BY DEF Kept, Image, Rows, Cols, Has, Exists

LEMMA KeptTwice == ASSUME NEW d, NEW e, NEW f, Kept(d, e), Kept(e, f) PROVE Kept(d, f)
BY DEF Kept

LEMMA MultiTenancyUpIs ==
    ASSUME inPlace \in BOOLEAN, NEW d, AtFirst(d)
    PROVE  AtLater(2, MultiTenancyUp(d)) /\ Kept(d, MultiTenancyUp(d))
<1> DEFINE t == "transactions"
           u == UsersUp(d)
           v == InvitesUp(u)
           b == BusinessColumnsUp(v)
           o == OwnersUp(b)
           s == StatusUp(o)
           r == RelaxUp(s)
           m == ImageUp(r)
           e == KeysUp(m)
           uu == UniqueOf("users", {"telegramUserId"})
           ui == UniqueOf("invites", {"inviteeTelegramId"})
<1>0. MultiTenancyUp(d) = e  BY DEF MultiTenancyUp
<1>1. Proper(d) /\ DOMAIN d.tables = FirstTables  BY DEF AtFirst
<1>2. Added(d, u, "users", UserColumns(2), {uu}, UsersKeys)  BY <1>1, UsersUpIs DEF FirstTables
<1> HIDE DEF u
<1>3. Added(u, v, "invites", InviteColumns, {ui}, InvitesKeys)
  BY <1>1, <1>2, InvitesUpIs DEF Added, FirstTables
<1> HIDE DEF v
<1>4. /\ Proper(v) /\ DOMAIN v.tables = FirstTables \cup {"users", "invites"}
      /\ \A w \in FirstTables : v.tables[w] = d.tables[w]
      /\ Cols(v, "users") = UserColumns(2) /\ Cols(v, "invites") = InviteColumns
      /\ v.uniques = d.uniques \cup {uu, ui} /\ v.keys = d.keys \cup UsersKeys \cup InvitesKeys
  <2>1. DOMAIN v.tables = FirstTables \cup {"users", "invites"}
    BY <1>1, <1>2, <1>3 DEF Added
  <2>2. \A w \in FirstTables : v.tables[w] = d.tables[w]
    BY <1>1, <1>2, <1>3 DEF Added, Elsewhere, FirstTables
  <2>3. v.tables["users"] = u.tables["users"]  BY <1>1, <1>2, <1>3 DEF Added, Elsewhere
  <2>4. Cols(v, "users") = UserColumns(2) /\ Cols(v, "invites") = InviteColumns
    BY <1>2, <1>3, <2>3 DEF Added, Cols
  <2>5. v.uniques = d.uniques \cup {uu, ui} /\ v.keys = d.keys \cup UsersKeys \cup InvitesKeys
    BY <1>2, <1>3 DEF Added
  <2>6. QED  BY <1>3, <2>1, <2>2, <2>4, <2>5 DEF Added
<1>5. Cols(v, "businesses") = BusinessColumns(1) /\ Cols(v, t) = FirstTransactionColumns
  BY <1>4 DEF AtFirst, Cols, FirstTables
<1>6. /\ Proper(b) /\ DOMAIN b.tables = DOMAIN v.tables /\ Elsewhere(v, b, "businesses")
      /\ Cols(b, "businesses") = BusinessColumns(2)
      /\ b.uniques = v.uniques \ {NameUnique} /\ b.keys = v.keys
  BY <1>4, <1>5, BusinessColumnsUpIs DEF FirstTables
<1> HIDE DEF b
<1>7. t \in DOMAIN b.tables /\ Cols(b, t) = FirstTransactionColumns /\ b.tables[t] = d.tables[t]
  BY <1>4, <1>5, <1>6 DEF Elsewhere, FirstTables, Cols
<1>8. NoneOn(b, t)
  <2>1. \A x \in d.uniques : x = NameUnique \/ x \in FirstUniques  BY DEF AtFirst
  <2>2. \A x \in b.uniques : x \in FirstUniques \/ x \in {uu, ui}  BY <1>4, <1>6, <2>1
  <2>3. \A x \in b.uniques : x.table # t
    BY <2>2 DEF FirstUniques, UniqueOf
  <2>4. \A key \in b.keys : key \in FirstKeys \/ key \in UsersKeys \/ key \in InvitesKeys
    BY <1>4, <1>6 DEF AtFirst
  <2>5. \A key \in b.keys : key.table # t
    BY <2>4, KeyPlaces
  <2>6. QED  BY <2>3, <2>5 DEF NoneOn
<1>9. /\ Changed(b, o, t, OwnedColumns)
      /\ Carried(b, o, t, Names(FirstTransactionColumns))
      /\ \A i \in DOMAIN Rows(b, t) : \A c \in {"businessId", "userId"} : Rows(o, t)[i][c] = Null
  BY <1>6, <1>7, OwnersUpIs
<1> HIDE DEF o
<1>10. Changed(o, s, t, StatusColumns) /\ Carried(o, s, t, Names(OwnedColumns))
  BY <1>7, <1>9, StatusUpIs DEF Changed
<1> HIDE DEF s
<1>11. NoneOn(s, t)  BY <1>8, <1>9, <1>10, NoneIsFree
<1>12. /\ Changed(s, r, t, RelaxedColumns)
       /\ Carried(s, r, t, {"amount"} \cup (Names(StatusColumns) \ Payment))
  BY <1>7, <1>9, <1>10, <1>11, RelaxUpIs DEF Changed
<1> HIDE DEF r
<1>13. /\ Changed(r, m, t, TransactionColumns(2))
       /\ Carried(r, m, t, Names(RelaxedColumns) \ {"imageUrl"})
       /\ Moved(r, m, t, "imageUrl", "imageKey")
  BY <1>7, <1>9, <1>10, <1>12, ImageUpIs DEF Changed
<1> HIDE DEF m
<1>14. Changed(b, m, t, TransactionColumns(2))
  BY <1>9, <1>10, <1>12, <1>13, ChangedTwice
<1>15. /\ {"amount", "imageUrl"} \subseteq Names(FirstTransactionColumns)
       /\ {"amount", "imageUrl", "businessId", "userId"} \subseteq Names(OwnedColumns)
       /\ {"amount", "imageUrl", "businessId", "userId"} \subseteq {"amount"} \cup (Names(StatusColumns) \ Payment)
       /\ {"amount", "businessId", "userId"} \subseteq Names(RelaxedColumns) \ {"imageUrl"}
       /\ "imageKey" \notin Names(FirstTransactionColumns) /\ "imageKey" \in Names(TransactionColumns(2))
       /\ "businessId" \notin Names(FirstTransactionColumns)
  BY DEF Names, Columns, FirstTransactionColumns, OwnedColumns, StatusColumns, RelaxedColumns,
         TransactionColumns, Payment
<1>16. DOMAIN Rows(b, t) = DOMAIN Rows(o, t) /\ DOMAIN Rows(o, t) = DOMAIN Rows(s, t)
       /\ DOMAIN Rows(s, t) = DOMAIN Rows(r, t) /\ DOMAIN Rows(r, t) = DOMAIN Rows(m, t)
  BY <1>9, <1>10, <1>12, <1>13 DEF Changed
<1>17. ASSUME NEW i \in DOMAIN Rows(b, t)
       PROVE  /\ Rows(m, t)[i]["amount"] = Rows(b, t)[i]["amount"]
              /\ Rows(m, t)[i]["imageKey"] = Rows(b, t)[i]["imageUrl"]
              /\ Rows(m, t)[i]["businessId"] = Null /\ Rows(m, t)[i]["userId"] = Null
  <2>1. \A c \in {"amount", "imageUrl"} : Rows(o, t)[i][c] = Rows(b, t)[i][c]
    BY <1>9, <1>15 DEF Carried
  <2>2. \A c \in {"amount", "imageUrl", "businessId", "userId"} :
           Rows(s, t)[i][c] = Rows(o, t)[i][c] /\ Rows(r, t)[i][c] = Rows(s, t)[i][c]
    BY <1>10, <1>12, <1>15, <1>16 DEF Carried
  <2>3. \A c \in {"amount", "businessId", "userId"} : Rows(m, t)[i][c] = Rows(r, t)[i][c]
    BY <1>13, <1>15, <1>16 DEF Carried
  <2>4. Rows(m, t)[i]["imageKey"] = Rows(r, t)[i]["imageUrl"]
    BY <1>13, <1>16 DEF Moved
  <2>5. QED  BY <1>9, <2>1, <2>2, <2>3, <2>4
<1>18. MoreKeys(m, e, TransactionKeys)
  <2>1. \A i \in DOMAIN Rows(m, t) : \A c \in {"businessId", "userId"} : Rows(m, t)[i][c] = Null
    BY <1>16, <1>17
  <2>2. Proper(m) /\ {t, "businesses", "users"} \subseteq DOMAIN m.tables /\ Cols(m, t) = TransactionColumns(2)
    BY <1>4, <1>6, <1>14 DEF Changed, FirstTables
  <2>3. QED  BY <2>1, <2>2, KeysUpIs
<1> HIDE DEF e
<1>19. Proper(e) /\ e.tables = m.tables /\ e.uniques = m.uniques /\ e.keys = m.keys \cup TransactionKeys
  BY <1>18 DEF MoreKeys, Constrained
<1>20. AtLater(2, e)
  <2>1. DOMAIN e.tables = FirstTables \cup {"users", "invites"}  BY <1>4, <1>6, <1>14, <1>19 DEF Changed
  <2>2. /\ Cols(e, "businesses") = BusinessColumns(2) /\ Cols(e, t) = TransactionColumns(2)
        /\ Cols(e, "users") = UserColumns(2) /\ Cols(e, "invites") = InviteColumns
    BY <1>4, <1>6, <1>14, <1>19 DEF Changed, Elsewhere, Cols, FirstTables
  <2>3. e.tables["managers"] = d.tables["managers"] /\ e.tables["edit_logs"] = d.tables["edit_logs"]
    BY <1>4, <1>6, <1>14, <1>19 DEF Changed, Elsewhere, FirstTables
  <2>4. Cols(e, "managers") = ManagerColumns /\ Cols(e, "edit_logs") = EditLogColumns
    BY <2>3 DEF Cols, AtFirst
  <2>5. e.uniques = UniquesAt(2)
    <3>1. e.uniques = (d.uniques \cup {uu, ui}) \ {NameUnique}  BY <1>4, <1>6, <1>14, <1>19 DEF Changed
    <3>2. NameUnique \notin {uu, ui}  BY DEF NameUnique, UniqueOf
    <3> HIDE DEF uu, ui
    <3>3. e.uniques = FirstUniques \cup {uu, ui}  BY <3>1, <3>2 DEF AtFirst
    <3>4. QED  BY <3>3 DEF UniquesAt, uu, ui
  <2>6. e.keys = FirstKeys \cup NewKeys \cup TransactionKeys
    <3>1. e.keys = ((d.keys \cup UsersKeys) \cup InvitesKeys) \cup TransactionKeys
      BY <1>4, <1>6, <1>14, <1>19 DEF Changed
    <3>2. UsersKeys \cup InvitesKeys = NewKeys  BY DEF UsersKeys, InvitesKeys, NewKeys
    <3>3. QED  BY <3>1, <3>2 DEF AtFirst
  <2>7. QED  BY <1>19, <2>1, <2>2, <2>4, <2>5, <2>6 DEF AtLater
<1>21. Kept(d, e)
  <2>1. Rows(b, t) = Rows(d, t) /\ Rows(e, t) = Rows(m, t) /\ Rows(e, "edit_logs") = Rows(d, "edit_logs")
    BY <1>4, <1>6, <1>7, <1>14, <1>19 DEF Rows, Changed, Elsewhere, FirstTables
  <2>2. /\ t \in DOMAIN d.tables /\ t \in DOMAIN e.tables
        /\ Cols(d, t) = FirstTransactionColumns /\ Cols(e, t) = TransactionColumns(2)
    BY <1>1, <1>20 DEF AtFirst, AtLater, FirstTables
  <2>3. \A i \in DOMAIN Rows(d, t) : Image(d, i) = Rows(d, t)[i]["imageUrl"]
    BY <1>1, <1>15, <2>2, ImageIs
  <2>4. \A i \in DOMAIN Rows(d, t) : Image(e, i) = Rows(e, t)[i]["imageKey"]
    BY <1>15, <1>16, <1>19, <2>1, <2>2, ImageIs
  <2>5. \A i \in DOMAIN Rows(d, t) :
          Rows(e, t)[i].amount = Rows(d, t)[i].amount /\ Image(e, i) = Image(d, i) /\ Rows(e, t)[i].businessId = Null
    BY <1>17, <2>1, <2>3, <2>4
  <2>6. QED  BY <1>16, <2>1, <2>5 DEF Kept
<1>22. QED  BY <1>0, <1>20, <1>21

-----------------------------------------------------------------------------
(* The three small migrations, and back *)

LEMMA FileIdUpIs ==
    ASSUME NEW d, AtLater(2, d)
    PROVE  AtLater(3, FileIdUp(d)) /\ Kept(d, FileIdUp(d))
<1> DEFINE t == "transactions"
           f == AddColumn(d, t, "fileUniqueId", "nullable")
           e == AddUnique(f, t, {"businessId", "fileUniqueId"})
           u == UniqueOf(t, {"businessId", "fileUniqueId"})
<1>1. FileIdUp(d) = e  BY DEF FileIdUp
<1>2. /\ Proper(d) /\ t \in DOMAIN d.tables /\ Cols(d, t) = TransactionColumns(2)
      /\ "businesses" # t /\ "edit_logs" \in DOMAIN d.tables
  BY DEF AtLater, FirstTables
<1>3. /\ "fileUniqueId" \notin Names(TransactionColumns(2))
      /\ Put(TransactionColumns(2), "nullable", "fileUniqueId") = TransactionColumns(3)
      /\ {"amount", "imageKey", "businessId"} \subseteq Names(TransactionColumns(2))
      /\ {"amount", "imageKey", "businessId"} \subseteq Names(TransactionColumns(3))
  BY DEF TransactionColumns, Names, Put, Columns, Payment
<1>4. /\ Changed(d, f, t, TransactionColumns(3)) /\ Carried(d, f, t, Names(TransactionColumns(2)))
      /\ \A i \in DOMAIN Rows(f, t) : Rows(f, t)[i]["fileUniqueId"] = Null
  BY <1>2, <1>3, AddColumnIs
<1> HIDE DEF f
<1>5. Distinct(f, [table |-> t, columns |-> {"businessId", "fileUniqueId"}])
  BY <1>4 DEF Distinct
<1>6. Constrained(f, e, f.uniques \cup {u}, f.keys)
  BY <1>4, <1>5, AddUniqueIs DEF Changed
<1> HIDE DEF e
<1>7. /\ Proper(e) /\ e.tables = f.tables /\ e.keys = d.keys /\ e.uniques = d.uniques \cup {u}
  BY <1>4, <1>6 DEF Constrained, Changed
<1>8. AtLater(3, e)
  <2>1. UniquesAt(3) = UniquesAt(2) \cup {u}  BY DEF UniquesAt
  <2>2. BusinessColumns(3) = BusinessColumns(2) /\ UserColumns(3) = UserColumns(2)
    BY DEF BusinessColumns, UserColumns
  <2>3. \A w \in (FirstTables \cup {"users", "invites"}) \ {t} : Cols(e, w) = Cols(d, w)
    BY <1>4, <1>7 DEF Changed, Elsewhere, Cols, AtLater
  <2>4. Cols(e, t) = TransactionColumns(3)  BY <1>4, <1>7 DEF Changed, Cols
  <2>5. DOMAIN e.tables = DOMAIN d.tables  BY <1>4, <1>7 DEF Changed
  <2> HIDE DEF u
  <2>6. QED  BY <1>7, <2>1, <2>2, <2>3, <2>4, <2>5 DEF AtLater, FirstTables
<1>9. Kept(d, e)
  <2>1. /\ Rows(e, t) = Rows(f, t) /\ Rows(e, "edit_logs") = Rows(d, "edit_logs")
        /\ DOMAIN Rows(f, t) = DOMAIN Rows(d, t) /\ Cols(e, t) = TransactionColumns(3)
    BY <1>2, <1>4, <1>7 DEF Rows, Cols, Changed, Elsewhere
  <2>2. \A i \in DOMAIN Rows(d, t) : \A c \in {"amount", "imageKey", "businessId"} :
           Rows(e, t)[i][c] = Rows(d, t)[i][c]
    BY <1>3, <1>4, <2>1 DEF Carried
  <2>3. \A i \in DOMAIN Rows(d, t) : Image(d, i) = Rows(d, t)[i]["imageKey"]
    BY <1>2, <1>3, ImageIs
  <2>4. t \in DOMAIN e.tables  BY <1>2, <1>4, <1>7 DEF Changed
  <2>5. \A i \in DOMAIN Rows(d, t) : Image(e, i) = Rows(e, t)[i]["imageKey"]
    BY <1>3, <1>7, <2>1, <2>4, ImageIs
  <2>6. Has(d, t, "businessId")  BY <1>2, <1>3 DEF Has, Exists
  <2>7. QED  BY <2>1, <2>2, <2>3, <2>5, <2>6 DEF Kept
<1>10. QED  BY <1>1, <1>8, <1>9

LEMMA FileIdDownIs ==
    ASSUME NEW d, AtLater(3, d)
    PROVE  AtLater(2, FileIdDown(d)) /\ Kept(d, FileIdDown(d))
<1> DEFINE t == "transactions"
           f == DropUnique(d, t, {"businessId", "fileUniqueId"})
           e == DropColumn(f, t, "fileUniqueId")
           u == UniqueOf(t, {"businessId", "fileUniqueId"})
<1>1. FileIdDown(d) = e  BY DEF FileIdDown
<1>2. /\ Proper(d) /\ t \in DOMAIN d.tables /\ Cols(d, t) = TransactionColumns(3)
      /\ "businesses" # t /\ "edit_logs" \in DOMAIN d.tables
  BY DEF AtLater, FirstTables
<1>3. /\ "fileUniqueId" \in Names(TransactionColumns(3))
      /\ Take(TransactionColumns(3), "fileUniqueId") = TransactionColumns(2)
      /\ {"amount", "imageKey", "businessId"} \subseteq Names(TransactionColumns(2))
      /\ {"amount", "imageKey", "businessId"} \subseteq Names(TransactionColumns(3)) \ {"fileUniqueId"}
  BY DEF TransactionColumns, Names, Take, Columns, Payment
<1>4. LessUnique(d, f, u)  BY <1>2, DropUniqueIs
<1>5. UniquesAt(3) \ {u} = UniquesAt(2)
  <2>1. \A x \in UniquesAt(2) : x.table # t  BY DEF UniquesAt, FirstUniques, UniqueOf
  <2>2. u.table = t  BY DEF UniqueOf
  <2>3. UniquesAt(3) = UniquesAt(2) \cup {u}  BY DEF UniquesAt
  <2> HIDE DEF u
  <2>4. QED  BY <2>1, <2>2, <2>3
<1> HIDE DEF f, u
<1>6. Proper(f) /\ f.tables = d.tables /\ f.keys = d.keys /\ f.uniques = UniquesAt(2)
  BY <1>4, <1>5 DEF LessUnique, Constrained, AtLater
<1>7. Free(f, t, "fileUniqueId")
  <2>1. \A x \in UniquesAt(2) : x.table # t  BY DEF UniquesAt, FirstUniques, UniqueOf
  <2>2. \A key \in d.keys : ~(key.table = t /\ key.column = "fileUniqueId")
    BY KeyPlaces, NewKeyPlaces DEF AtLater
  <2>3. QED  BY <1>6, <2>1, <2>2 DEF Free
<1>8. Cols(f, t) = TransactionColumns(3) /\ Rows(f, t) = Rows(d, t)  BY <1>2, <1>6 DEF Cols, Rows
<1>9. /\ Changed(f, e, t, TransactionColumns(2))
      /\ Carried(f, e, t, Names(TransactionColumns(3)) \ {"fileUniqueId"})
  BY <1>2, <1>3, <1>6, <1>7, <1>8, DropColumnIs
<1> HIDE DEF e
<1>10. AtLater(2, e)
  <2>1. BusinessColumns(3) = BusinessColumns(2) /\ UserColumns(3) = UserColumns(2)
    BY DEF BusinessColumns, UserColumns
  <2>2. \A w \in (FirstTables \cup {"users", "invites"}) \ {t} : Cols(e, w) = Cols(d, w)
    BY <1>6, <1>9 DEF Changed, Elsewhere, Cols, AtLater
  <2>3. QED  BY <1>6, <1>9, <2>1, <2>2 DEF AtLater, FirstTables, Changed
<1>11. Kept(d, e)
  <2>1. /\ Rows(e, "edit_logs") = Rows(d, "edit_logs")
        /\ DOMAIN Rows(e, t) = DOMAIN Rows(d, t) /\ Cols(e, t) = TransactionColumns(2)
    BY <1>2, <1>6, <1>8, <1>9 DEF Rows, Cols, Changed, Elsewhere
  <2>2. \A i \in DOMAIN Rows(d, t) : \A c \in {"amount", "imageKey", "businessId"} :
           Rows(e, t)[i][c] = Rows(d, t)[i][c]
    BY <1>3, <1>8, <1>9 DEF Carried
  <2>3. \A i \in DOMAIN Rows(d, t) : Image(d, i) = Rows(d, t)[i]["imageKey"]
    BY <1>2, <1>3, ImageIs
  <2>4. t \in DOMAIN e.tables /\ Proper(e)  BY <1>2, <1>6, <1>9 DEF Changed
  <2>5. \A i \in DOMAIN Rows(d, t) : Image(e, i) = Rows(e, t)[i]["imageKey"]
    BY <1>3, <2>1, <2>4, ImageIs
  <2>6. Has(d, t, "businessId")  BY <1>2, <1>3 DEF Has, Exists
  <2>7. QED  BY <2>1, <2>2, <2>3, <2>5, <2>6 DEF Kept
<1>12. QED  BY <1>1, <1>10, <1>11

\* A migration that changes the columns of one other table and nothing else.
LEMMA LevelIs ==
    ASSUME NEW d, NEW e, NEW t, t \in {"users", "businesses"}, NEW columns, Changed(d, e, t, columns),
           NEW j, AtLater(j, d), NEW k, TransactionColumns(k) = TransactionColumns(j), UniquesAt(k) = UniquesAt(j),
           BusinessColumns(k) = IF t = "businesses" THEN columns ELSE BusinessColumns(j),
           UserColumns(k) = IF t = "users" THEN columns ELSE UserColumns(j)
    PROVE  AtLater(k, e) /\ Kept(d, e)
<1>1. \A w \in (FirstTables \cup {"users", "invites"}) \ {t} : e.tables[w] = d.tables[w]
  BY DEF Changed, Elsewhere, AtLater
<1>2. /\ e.tables["transactions"] = d.tables["transactions"] /\ e.tables["edit_logs"] = d.tables["edit_logs"]
      /\ e.tables["managers"] = d.tables["managers"] /\ e.tables["invites"] = d.tables["invites"]
  BY <1>1 DEF FirstTables
<1>3. Kept(d, e)  BY <1>2, KeptAsIs DEF AtLater, FirstTables, Changed
<1>4. Cols(e, "users") = UserColumns(k) /\ Cols(e, "businesses") = BusinessColumns(k)
  BY <1>1 DEF AtLater, Changed, Cols, FirstTables
<1>5. AtLater(k, e)
  BY <1>2, <1>4 DEF AtLater, Changed, Cols
<1>6. QED  BY <1>3, <1>5

LEMMA LanguageUpIs ==
    ASSUME NEW d, AtLater(3, d) PROVE AtLater(4, LanguageUp(d)) /\ Kept(d, LanguageUp(d))
<1>1. /\ "language" \notin Names(UserColumns(3))
      /\ Put(UserColumns(3), "defaulted", "language") = UserColumns(4)
  BY DEF UserColumns, Names, Put, Columns
<1>2. Proper(d) /\ "users" \in DOMAIN d.tables /\ Cols(d, "users") = UserColumns(3)  BY DEF AtLater
<1>3. LanguageUp(d) = AddColumn(d, "users", "language", "defaulted")
  BY <1>1, <1>2 DEF LanguageUp, AddMissing, Has
<1>4. Changed(d, LanguageUp(d), "users", UserColumns(4))  BY <1>1, <1>2, <1>3, AddColumnIs
<1>5. TransactionColumns(4) = TransactionColumns(3) /\ UniquesAt(4) = UniquesAt(3)
      /\ BusinessColumns(4) = BusinessColumns(3)
  BY DEF TransactionColumns, UniquesAt, BusinessColumns
<1>6. QED  BY <1>4, <1>5, LevelIs

LEMMA LanguageDownIs ==
    ASSUME NEW d, AtLater(4, d) PROVE AtLater(3, LanguageDown(d)) /\ Kept(d, LanguageDown(d))
<1>1. /\ "language" \in Names(UserColumns(4))
      /\ Take(UserColumns(4), "language") = UserColumns(3)
  BY DEF UserColumns, Names, Take, Columns
<1>2. Proper(d) /\ "users" \in DOMAIN d.tables /\ Cols(d, "users") = UserColumns(4)  BY DEF AtLater
<1>3. LanguageDown(d) = DropColumn(d, "users", "language")
  BY <1>1, <1>2 DEF LanguageDown, DropPresent, Has, Exists
<1>4. Free(d, "users", "language")
  <2>1. \A x \in UniquesAt(4) : "language" \notin x.columns
    BY DEF UniquesAt, FirstUniques, UniqueOf
  <2>2. \A key \in d.keys : key.column # "language"  BY KeyPlaces, NewKeyPlaces DEF AtLater
  <2>3. QED  BY <2>1, <2>2 DEF Free, AtLater
<1>5. Changed(d, LanguageDown(d), "users", UserColumns(3))  BY <1>1, <1>2, <1>3, <1>4, DropColumnIs
<1>6. TransactionColumns(4) = TransactionColumns(3) /\ UniquesAt(4) = UniquesAt(3)
      /\ BusinessColumns(4) = BusinessColumns(3)
  BY DEF TransactionColumns, UniquesAt, BusinessColumns
<1>7. QED  BY <1>5, <1>6, LevelIs

LEMMA ReasonUpIs ==
    ASSUME NEW d, AtLater(4, d) PROVE AtLater(5, ReasonUp(d)) /\ Kept(d, ReasonUp(d))
<1>1. /\ "rejectionReason" \notin Names(BusinessColumns(4))
      /\ Put(BusinessColumns(4), "nullable", "rejectionReason") = BusinessColumns(5)
  BY DEF BusinessColumns, Names, Put, Columns
<1>2. Proper(d) /\ "businesses" \in DOMAIN d.tables /\ Cols(d, "businesses") = BusinessColumns(4)
  BY DEF AtLater, FirstTables
<1>3. ReasonUp(d) = AddColumn(d, "businesses", "rejectionReason", "nullable")
  BY <1>1, <1>2 DEF ReasonUp, AddMissing, Has
<1>4. Changed(d, ReasonUp(d), "businesses", BusinessColumns(5))  BY <1>1, <1>2, <1>3, AddColumnIs
<1>5. TransactionColumns(5) = TransactionColumns(4) /\ UniquesAt(5) = UniquesAt(4)
      /\ UserColumns(5) = UserColumns(4)
  BY DEF TransactionColumns, UniquesAt, UserColumns
<1>6. QED  BY <1>4, <1>5, LevelIs

LEMMA ReasonDownIs ==
    ASSUME NEW d, AtLater(5, d) PROVE AtLater(4, ReasonDown(d)) /\ Kept(d, ReasonDown(d))
<1>1. /\ "rejectionReason" \in Names(BusinessColumns(5))
      /\ Take(BusinessColumns(5), "rejectionReason") = BusinessColumns(4)
  BY DEF BusinessColumns, Names, Take, Columns
<1>2. Proper(d) /\ "businesses" \in DOMAIN d.tables /\ Cols(d, "businesses") = BusinessColumns(5)
  BY DEF AtLater, FirstTables
<1>3. ReasonDown(d) = DropColumn(d, "businesses", "rejectionReason")
  BY <1>1, <1>2 DEF ReasonDown, DropPresent, Has, Exists
<1>4. Free(d, "businesses", "rejectionReason")
  <2>1. \A x \in UniquesAt(5) : "rejectionReason" \notin x.columns
    BY DEF UniquesAt, FirstUniques, UniqueOf
  <2>2. \A key \in d.keys : key.column # "rejectionReason"  BY KeyPlaces, NewKeyPlaces DEF AtLater
  <2>3. QED  BY <2>1, <2>2 DEF Free, AtLater
<1>5. Changed(d, ReasonDown(d), "businesses", BusinessColumns(4))  BY <1>1, <1>2, <1>3, <1>4, DropColumnIs
<1>6. TransactionColumns(5) = TransactionColumns(4) /\ UniquesAt(5) = UniquesAt(4)
      /\ UserColumns(5) = UserColumns(4)
  BY DEF TransactionColumns, UniquesAt, UserColumns
<1>7. QED  BY <1>5, <1>6, LevelIs

-----------------------------------------------------------------------------
(* The second migration, back *)

LEMMA StatementsStrict ==
    /\ \A t, c : DropColumn(Refused, t, c) = Refused
    /\ \A t, c : DropKey(Refused, t, c) = Refused
    /\ \A t : DropTable(Refused, t) = Refused
    /\ \A t, c, kind, at : ChangeColumn(Refused, t, c, kind, at) = Refused
<1>1. \A condition, result : When(Refused, condition, result) = Refused  BY DEF When
<1>2. \A t, c : DropColumn(Refused, t, c) = Refused  BY <1>1 DEF DropColumn
<1>3. \A t, c : DropKey(Refused, t, c) = Refused  BY <1>1 DEF DropKey
<1>4. \A t : DropTable(Refused, t) = Refused  BY <1>1 DEF DropTable
<1>5. \A t, c, kind : AlterColumn(Refused, t, c, kind) = Refused  BY <1>1 DEF AlterColumn
<1>6. \A t, c, kind : AddColumn(Refused, t, c, kind) = Refused  BY <1>1 DEF AddColumn
<1>7. \A t, c, kind, at : ChangeColumn(Refused, t, c, kind, at) = Refused
  BY <1>2, <1>5, <1>6 DEF ChangeColumn
<1>8. QED  BY <1>2, <1>3, <1>4, <1>7

LEMMA KeysDownIs ==
    ASSUME NEW d, Proper(d), d.keys = FirstKeys \cup NewKeys \cup TransactionKeys
    PROVE  Constrained(d, KeysDown(d), d.uniques, FirstKeys \cup NewKeys)
<1> DEFINE t == "transactions"
           f == DropKey(d, t, "businessId")
           e == DropKey(f, t, "userId")
<1>1. KeysDown(d) = e  BY DEF KeysDown
<1>2. Constrained(d, f, d.uniques, {key \in d.keys : ~(key.table = t /\ key.column = "businessId")})
  BY DropKeyIs
<1> HIDE DEF f
<1>3. Constrained(f, e, f.uniques, {key \in f.keys : ~(key.table = t /\ key.column = "userId")})
  BY <1>2, DropKeyIs DEF Constrained
<1> HIDE DEF e
<1>4. \A key : key \in e.keys <=> key \in d.keys /\ ~(key.table = t /\ key.column \in {"businessId", "userId"})
  BY <1>2, <1>3 DEF Constrained
<1>5. \A key \in FirstKeys \cup NewKeys : key.table # t  BY KeyPlaces, NewKeyPlaces
<1>6. \A key \in TransactionKeys : key.table = t /\ key.column \in {"businessId", "userId"}  BY KeyPlaces
<1>7. \A key : key \in e.keys <=> key \in FirstKeys \cup NewKeys  BY <1>4, <1>5, <1>6
<1>8. e.keys = FirstKeys \cup NewKeys  BY <1>3, <1>7 DEF Constrained
<1>9. QED  BY <1>1, <1>2, <1>3, <1>8 DEF Constrained

UnownedColumns ==
    Columns({"telegramUserId", "telegramName", "confidence"}, {"isDuplicate", "createdAt"},
            {"imageUrl", "businessId", "userId"} \cup Payment)
UntiedColumns ==
    Columns({"telegramUserId", "telegramName", "confidence"}, {"isDuplicate", "createdAt"},
            {"imageUrl"} \cup Payment)

LEMMA ImageDownIs ==
    ASSUME NEW d, Proper(d), "transactions" \in DOMAIN d.tables, Cols(d, "transactions") = TransactionColumns(2)
    PROVE  /\ Changed(d, ImageDown(d), "transactions", RelaxedColumns)
           /\ Carried(d, ImageDown(d), "transactions", Names(TransactionColumns(2)) \ {"imageKey"})
           /\ Moved(d, ImageDown(d), "transactions", "imageKey", "imageUrl")
<1>1. /\ "imageKey" \in Names(TransactionColumns(2)) /\ "imageUrl" \notin Names(TransactionColumns(2))
      /\ "imageKey" \in TransactionColumns(2).nullable
      /\ Put(Take(TransactionColumns(2), "imageKey"), "nullable", "imageUrl") = RelaxedColumns
  BY DEF RelaxedColumns, TransactionColumns, Names, Columns, Payment, Put, Take
<1>2. KindOf(d, "transactions", "imageKey") = "nullable"  BY <1>1 DEF KindOf
<1>3. /\ Changed(d, ImageDown(d), "transactions",
                 Put(Take(TransactionColumns(2), "imageKey"), KindOf(d, "transactions", "imageKey"), "imageUrl"))
      /\ Carried(d, ImageDown(d), "transactions", Names(TransactionColumns(2)) \ {"imageKey"})
      /\ Moved(d, ImageDown(d), "transactions", "imageKey", "imageUrl")
  BY <1>1, RenameColumnIs DEF ImageDown
<1>4. QED  BY <1>1, <1>2, <1>3

\* Two columns without constraints are dropped.
LEMMA DropTwo ==
    ASSUME NEW d, Proper(d), NEW t, t \in DOMAIN d.tables, NoneOn(d, t),
           NEW x, NEW y, x # y, {x, y} \subseteq Names(Cols(d, t))
    PROVE  LET e == DropColumn(DropColumn(d, t, x), t, y) IN
           /\ Changed(d, e, t, Take(Take(Cols(d, t), x), y))
           /\ Carried(d, e, t, Names(Cols(d, t)) \ {x, y})
<1> DEFINE f == DropColumn(d, t, x)
           e == DropColumn(f, t, y)
           columns == Take(Cols(d, t), x)
<1>1. Changed(d, f, t, columns) /\ Carried(d, f, t, Names(Cols(d, t)) \ {x})
  BY NoneIsFree, DropColumnIs
<1>2. Names(columns) = Names(Cols(d, t)) \ {x}  BY NamesTake
<1> HIDE DEF f, columns
<1>3. /\ Proper(f) /\ t \in DOMAIN f.tables /\ y \in Names(Cols(f, t)) /\ Free(f, t, y)
      /\ Cols(f, t) = columns
  BY <1>1, <1>2, NoneIsFree DEF Changed
<1>4. Changed(f, e, t, Take(columns, y)) /\ Carried(f, e, t, Names(columns) \ {y})
  BY <1>3, DropColumnIs
<1> HIDE DEF e
<1>5. Changed(d, e, t, Take(columns, y))  BY <1>1, <1>4, ChangedTwice
<1>6. Names(Cols(d, t)) \ {x, y} \subseteq (Names(Cols(d, t)) \ {x}) \cap (Names(columns) \ {y})
  BY <1>2
<1>7. Carried(d, e, t, Names(Cols(d, t)) \ {x, y})  BY <1>1, <1>4, <1>6, CarriedTwice
<1>8. QED  BY <1>5, <1>7 DEF e, f, columns

LEMMA StatusDownIs ==
    ASSUME NEW d, Proper(d), "transactions" \in DOMAIN d.tables, NoneOn(d, "transactions"),
           Cols(d, "transactions") = RelaxedColumns
    PROVE  /\ Changed(d, StatusDown(d), "transactions", UnownedColumns)
           /\ Carried(d, StatusDown(d), "transactions", Names(UntiedColumns))
<1>1. /\ {"editedByUploader", "status"} \subseteq Names(RelaxedColumns)
      /\ Take(Take(RelaxedColumns, "editedByUploader"), "status") = UnownedColumns
      /\ Names(UntiedColumns) \subseteq Names(RelaxedColumns) \ {"editedByUploader", "status"}
  BY DEF RelaxedColumns, UnownedColumns, UntiedColumns, Columns, Names, Take, Payment
<1>2. /\ Changed(d, StatusDown(d), "transactions", UnownedColumns)
      /\ Carried(d, StatusDown(d), "transactions", Names(RelaxedColumns) \ {"editedByUploader", "status"})
  BY <1>1, DropTwo DEF StatusDown
<1>3. QED  BY <1>1, <1>2 DEF Carried

LEMMA OwnersDownIs ==
    ASSUME NEW d, Proper(d), "transactions" \in DOMAIN d.tables, NoneOn(d, "transactions"),
           Cols(d, "transactions") = UnownedColumns
    PROVE  /\ Changed(d, OwnersDown(d), "transactions", UntiedColumns)
           /\ Carried(d, OwnersDown(d), "transactions", Names(UntiedColumns))
<1>1. /\ {"userId", "businessId"} \subseteq Names(UnownedColumns)
      /\ Take(Take(UnownedColumns, "userId"), "businessId") = UntiedColumns
      /\ Names(UntiedColumns) \subseteq Names(UnownedColumns) \ {"userId", "businessId"}
  BY DEF UnownedColumns, UntiedColumns, Columns, Names, Take, Payment
<1>2. /\ Changed(d, OwnersDown(d), "transactions", UntiedColumns)
      /\ Carried(d, OwnersDown(d), "transactions", Names(UnownedColumns) \ {"userId", "businessId"})
  BY <1>1, DropTwo DEF OwnersDown
<1>3. QED  BY <1>1, <1>2 DEF Carried

\* Why the second migration may not be reverted.
Cause(d) ==
    \E i \in DOMAIN Rows(d, "transactions") :
      ~inPlace \/ \E c \in Payment : Rows(d, "transactions")[i][c] = Null
TightenedOrNot(d, e, columns) ==
    \/ Changed(d, e, "transactions", columns) /\ Carried(d, e, "transactions", Names(UntiedColumns))
    \/ e = Refused /\ Cause(d)

\* One more column, whether or not those before could be tightened.
LEMMA TightenMore ==
    ASSUME inPlace \in BOOLEAN, NEW d, Proper(d), "transactions" \in DOMAIN d.tables, NoneOn(d, "transactions"),
           NEW e, NEW columns, TightenedOrNot(d, e, columns), Names(columns) = Names(UntiedColumns),
           NEW c \in Payment
    PROVE  TightenedOrNot(d, Tightened(e, c), Put(Take(columns, c), "required", c))
<1> DEFINE t == "transactions"
           f == Tightened(e, c)
           more == Put(Take(columns, c), "required", c)
<1>1. Payment \subseteq Names(UntiedColumns)  BY DEF UntiedColumns, Names, Columns
<1>2. CASE e = Refused /\ Cause(d)
  <2>1. f = Refused  BY <1>2, StatementsStrict DEF Tightened
  <2>2. QED  BY <1>2, <2>1 DEF TightenedOrNot
<1>3. CASE Changed(d, e, t, columns) /\ Carried(d, e, t, Names(UntiedColumns))
  <2>1. /\ Proper(e) /\ t \in DOMAIN e.tables /\ c \in Names(Cols(e, t)) /\ Free(e, t, c)
        /\ Cols(e, t) = columns /\ DOMAIN Rows(e, t) = DOMAIN Rows(d, t)
    BY <1>1, <1>3, NoneIsFree DEF Changed
  <2>2. \/ Changed(e, f, t, more) /\ Carried(e, f, t, Names(columns))
        \/ f = Refused /\ \E i \in DOMAIN Rows(e, t) : ~inPlace \/ Rows(e, t)[i][c] = Null
    BY <2>1, TightenedIs
  <2> HIDE DEF f, more
  <2>3. CASE Changed(e, f, t, more) /\ Carried(e, f, t, Names(columns))
    <3>1. Changed(d, f, t, more)  BY <1>3, <2>3, ChangedTwice
    <3>2. Carried(d, f, t, Names(UntiedColumns))  BY <1>3, <2>3, CarriedTwice
    <3>3. QED  BY <3>1, <3>2 DEF TightenedOrNot, f, more
  <2>4. CASE f = Refused /\ \E i \in DOMAIN Rows(e, t) : ~inPlace \/ Rows(e, t)[i][c] = Null
    <3>1. \A i \in DOMAIN Rows(d, t) : Rows(e, t)[i][c] = Rows(d, t)[i][c]
      BY <1>1, <1>3 DEF Carried
    <3>2. Cause(d)  BY <2>1, <2>4, <3>1 DEF Cause
    <3>3. QED  BY <2>4, <3>2 DEF TightenedOrNot, f, more
  <2>5. QED  BY <2>2, <2>3, <2>4
<1>4. QED  BY <1>2, <1>3 DEF TightenedOrNot

LEMMA TightenDownIs ==
    ASSUME inPlace \in BOOLEAN, NEW d, Proper(d), "transactions" \in DOMAIN d.tables, NoneOn(d, "transactions"),
           Cols(d, "transactions") = UntiedColumns
    PROVE  TightenedOrNot(d, TightenDown(d), FirstTransactionColumns)
<1> DEFINE c0 == UntiedColumns
           c1 == Put(Take(c0, "bankName"), "required", "bankName")
           c2 == Put(Take(c1, "timestamp"), "required", "timestamp")
           c3 == Put(Take(c2, "transactionId"), "required", "transactionId")
           c4 == Put(Take(c3, "amount"), "required", "amount")
           e1 == Tightened(d, "bankName")
           e2 == Tightened(e1, "timestamp")
           e3 == Tightened(e2, "transactionId")
           e4 == Tightened(e3, "amount")
<1>1. TightenDown(d) = e4  BY DEF TightenDown
<1>2. {"bankName", "timestamp", "transactionId", "amount"} = Payment  BY DEF Payment
<1>3. c4 = FirstTransactionColumns
  <2> DEFINE R == {"telegramUserId", "telegramName", "confidence"}
             D == {"isDuplicate", "createdAt"}
             N == {"imageUrl"} \cup Payment
  <2>1. \A S, T, U, c : Put(Take(Columns(S, T, U), c), "required", c)
                       = Columns(S \cup {c}, T \ {c}, U \ {c})
    BY DEF Put, Take, Columns
  <2>2. c0 = Columns(R, D, N)  BY DEF UntiedColumns
  <2>3. c1 = Columns(R \cup {"bankName"}, D, N \ {"bankName"})
    <3>1. D \ {"bankName"} = D  OBVIOUS
    <3>2. QED  BY <2>1, <2>2, <3>1
  <2> HIDE DEF c0, c1
  <2>4. c2 = Columns((R \cup {"bankName"}) \cup {"timestamp"}, D, (N \ {"bankName"}) \ {"timestamp"})
    <3>1. D \ {"timestamp"} = D  OBVIOUS
    <3>2. QED  BY <2>1, <2>3, <3>1
  <2> HIDE DEF c2
  <2>5. c3 = Columns(((R \cup {"bankName"}) \cup {"timestamp"}) \cup {"transactionId"}, D,
                     ((N \ {"bankName"}) \ {"timestamp"}) \ {"transactionId"})
    <3>1. D \ {"transactionId"} = D  OBVIOUS
    <3>2. QED  BY <2>1, <2>4, <3>1
  <2> HIDE DEF c3
  <2>6. c4 = Columns((((R \cup {"bankName"}) \cup {"timestamp"}) \cup {"transactionId"}) \cup {"amount"}, D,
                     (((N \ {"bankName"}) \ {"timestamp"}) \ {"transactionId"}) \ {"amount"})
    <3>1. D \ {"amount"} = D  OBVIOUS
    <3>2. QED  BY <2>1, <2>5, <3>1
  <2>7. (((R \cup {"bankName"}) \cup {"timestamp"}) \cup {"transactionId"}) \cup {"amount"} = R \cup Payment
    BY DEF Payment
  <2>8. (((N \ {"bankName"}) \ {"timestamp"}) \ {"transactionId"}) \ {"amount"} = {"imageUrl"}
    BY DEF Payment
  <2>9. QED  BY <2>6, <2>7, <2>8 DEF FirstTransactionColumns
<1>4. Payment \subseteq Names(c0)  BY DEF UntiedColumns, Names, Columns
<1>5. Names(c1) = Names(c0) /\ Names(c2) = Names(c0) /\ Names(c3) = Names(c0)
  <2>1. \A columns, c : c \in Names(columns) => Names(Put(Take(columns, c), "required", c)) = Names(columns)
    BY DEF Put, Take, Names, Columns
  <2> HIDE DEF c0
  <2>2. Names(c1) = Names(c0)  BY <1>2, <1>4, <2>1
  <2> HIDE DEF c1
  <2>3. Names(c2) = Names(c0)  BY <1>2, <1>4, <2>1, <2>2
  <2> HIDE DEF c2
  <2>4. Names(c3) = Names(c0)  BY <1>2, <1>4, <2>1, <2>3
  <2>5. QED  BY <2>2, <2>3, <2>4
<1>6. TightenedOrNot(d, d, c0)
  BY DEF TightenedOrNot, Changed, Carried, Elsewhere
<1> HIDE DEF c1, c2, c3, c4, e1, e2, e3, e4
<1>7. TightenedOrNot(d, e1, c1)  BY <1>2, <1>6, TightenMore DEF e1, c1
<1>8. TightenedOrNot(d, e2, c2)  BY <1>2, <1>5, <1>7, TightenMore DEF e2, c2
<1>9. TightenedOrNot(d, e3, c3)  BY <1>2, <1>5, <1>8, TightenMore DEF e3, c3
<1>10. TightenedOrNot(d, e4, c4)  BY <1>2, <1>5, <1>9, TightenMore DEF e4, c4
<1>11. QED  BY <1>1, <1>3, <1>10

LEMMA BusinessColumnsDownIs ==
    ASSUME NEW d, Proper(d), "businesses" \in DOMAIN d.tables, NoneOn(d, "businesses"),
           Cols(d, "businesses") = BusinessColumns(2)
    PROVE  Changed(d, BusinessColumnsDown(d), "businesses", BusinessColumns(1))
<1>1. /\ {"ownerUserId", "status"} \subseteq Names(BusinessColumns(2))
      /\ Take(Take(BusinessColumns(2), "ownerUserId"), "status") = BusinessColumns(1)
  BY DEF BusinessColumns, Names, Columns, Take
<1>2. QED  BY <1>1, DropTwo DEF BusinessColumnsDown

LEMMA TenancyTablesDownIs ==
    ASSUME NEW d, Proper(d), DOMAIN d.tables = FirstTables \cup {"users", "invites"},
           d.keys = FirstKeys \cup NewKeys
    PROVE  LET e == TenancyTablesDown(d) IN
           /\ Proper(e) /\ DOMAIN e.tables = FirstTables /\ e.keys = FirstKeys
           /\ \A w \in FirstTables : e.tables[w] = d.tables[w]
           /\ e.uniques = {u \in d.uniques : u.table \notin {"users", "invites"}}
<1> DEFINE d1 == DropKey(d, "invites", "businessId")
           d2 == DropKey(d1, "invites", "createdByUserId")
           d3 == DropTable(d2, "invites")
           d4 == DropKey(d3, "users", "businessId")
           d5 == DropTable(d4, "users")
<1>1. TenancyTablesDown(d) = d5  BY DEF TenancyTablesDown
<1>2. Constrained(d, d1, d.uniques, {key \in d.keys : ~(key.table = "invites" /\ key.column = "businessId")})
  BY DropKeyIs
<1> HIDE DEF d1
<1>3. Constrained(d1, d2, d1.uniques,
                  {key \in d1.keys : ~(key.table = "invites" /\ key.column = "createdByUserId")})
  BY <1>2, DropKeyIs DEF Constrained
<1> HIDE DEF d2
<1>4. /\ Proper(d2) /\ d2.tables = d.tables /\ d2.uniques = d.uniques
      /\ \A key : key \in d2.keys <=>
           key \in FirstKeys \cup NewKeys /\ ~(key.table = "invites" /\ key.column \in {"businessId", "createdByUserId"})
  BY <1>2, <1>3 DEF Constrained
<1>5. \A key : key \in d2.keys <=> key \in FirstKeys \cup UsersKeys
  BY <1>4, KeyPlaces, NewKeyPlaces
<1>6. /\ Proper(d3) /\ DOMAIN d3.tables = DOMAIN d2.tables \ {"invites"} /\ Elsewhere(d2, d3, "invites")
      /\ d3.uniques = {u \in d2.uniques : u.table # "invites"}
      /\ d3.keys = {key \in d2.keys : key.table # "invites"}
  <2>1. "invites" \in DOMAIN d2.tables /\ \A key \in d2.keys : key.of = "invites" => key.table = "invites"
    BY <1>4, <1>5, KeyPlaces
  <2>2. QED  BY <1>4, <2>1, DropTableIs
<1> HIDE DEF d3
<1>7. Constrained(d3, d4, d3.uniques, {key \in d3.keys : ~(key.table = "users" /\ key.column = "businessId")})
  <2>1. Proper(d3)  BY <1>6
  <2>2. QED  BY <2>1, DropKeyIs
<1> HIDE DEF d4
<1>8. \A key : key \in d4.keys <=> key \in FirstKeys
  BY <1>5, <1>6, <1>7, KeyPlaces DEF Constrained
<1>9. Proper(d4) /\ d4.tables = d3.tables /\ d4.uniques = d3.uniques
  BY <1>7 DEF Constrained
<1>10. /\ Proper(d5) /\ DOMAIN d5.tables = DOMAIN d4.tables \ {"users"} /\ Elsewhere(d4, d5, "users")
       /\ d5.uniques = {u \in d4.uniques : u.table # "users"}
       /\ d5.keys = {key \in d4.keys : key.table # "users"}
  <2>1. "users" \in DOMAIN d4.tables /\ \A key \in d4.keys : key.of = "users" => key.table = "users"
    BY <1>4, <1>6, <1>8, <1>9, KeyPlaces
  <2>2. QED  BY <1>9, <2>1, DropTableIs
<1> HIDE DEF d5
<1>11. DOMAIN d5.tables = FirstTables  BY <1>4, <1>6, <1>9, <1>10 DEF FirstTables
<1>12. \A w \in FirstTables : d5.tables[w] = d.tables[w]
  BY <1>4, <1>6, <1>9, <1>10 DEF FirstTables, Elsewhere
<1>13. d5.keys = FirstKeys  BY <1>8, <1>10, KeyPlaces
<1>14. d5.uniques = {u \in d.uniques : u.table \notin {"users", "invites"}}
  BY <1>4, <1>6, <1>9, <1>10
<1>15. QED  BY <1>1, <1>10, <1>11, <1>12, <1>13, <1>14

\* It is taken back, and keeps what an older release has a place for, or is refused for
\* a cause.
LEMMA MultiTenancyDownIs ==
    ASSUME inPlace \in BOOLEAN, NEW d, AtLater(2, d)
    PROVE  \/ AtFirst(MultiTenancyDown(d)) /\ Kept(d, MultiTenancyDown(d))
           \/ MultiTenancyDown(d) = Refused /\ Cause(d)
<1> DEFINE t == "transactions"
           k == KeysDown(d)
           m == ImageDown(k)
           s == StatusDown(m)
           o == OwnersDown(s)
           r == TightenDown(o)
           b == BusinessColumnsDown(r)
           e == TenancyTablesDown(b)
<1>0. MultiTenancyDown(d) = e  BY DEF MultiTenancyDown
<1>1. /\ Proper(d) /\ DOMAIN d.tables = FirstTables \cup {"users", "invites"}
      /\ Cols(d, t) = TransactionColumns(2) /\ t \in FirstTables /\ d.uniques = UniquesAt(2)
  BY DEF AtLater, FirstTables
<1>2. Constrained(d, k, d.uniques, FirstKeys \cup NewKeys)
  BY <1>1, KeysDownIs DEF AtLater
<1> HIDE DEF k
<1>3. /\ Proper(k) /\ k.tables = d.tables /\ k.uniques = UniquesAt(2) /\ k.keys = FirstKeys \cup NewKeys
      /\ Cols(k, t) = TransactionColumns(2) /\ Rows(k, t) = Rows(d, t)
  BY <1>1, <1>2 DEF Constrained, Cols, Rows
<1>4. \A u \in UniquesAt(2) : u.table \in {"managers", "users", "invites"}
  BY DEF UniquesAt, FirstUniques, UniqueOf
<1>5. NoneOn(k, t)
  BY <1>3, <1>4, KeyPlaces, NewKeyPlaces DEF NoneOn
<1>6. /\ Changed(k, m, t, RelaxedColumns)
      /\ Carried(k, m, t, Names(TransactionColumns(2)) \ {"imageKey"})
      /\ Moved(k, m, t, "imageKey", "imageUrl")
  BY <1>1, <1>3, ImageDownIs
<1> HIDE DEF m
<1>7. NoneOn(m, t) /\ Proper(m) /\ t \in DOMAIN m.tables /\ Cols(m, t) = RelaxedColumns
  BY <1>1, <1>3, <1>5, <1>6, NoneIsFree DEF Changed
<1>8. Changed(m, s, t, UnownedColumns) /\ Carried(m, s, t, Names(UntiedColumns))
  BY <1>7, StatusDownIs
<1> HIDE DEF s
<1>9. NoneOn(s, t) /\ Proper(s) /\ t \in DOMAIN s.tables /\ Cols(s, t) = UnownedColumns
  BY <1>7, <1>8, NoneIsFree DEF Changed
<1>10. Changed(s, o, t, UntiedColumns) /\ Carried(s, o, t, Names(UntiedColumns))
  BY <1>9, OwnersDownIs
<1> HIDE DEF o
<1>11. NoneOn(o, t) /\ Proper(o) /\ t \in DOMAIN o.tables /\ Cols(o, t) = UntiedColumns
  BY <1>9, <1>10, NoneIsFree DEF Changed
<1>12. TightenedOrNot(o, r, FirstTransactionColumns)  BY <1>11, TightenDownIs
<1> HIDE DEF r
<1>13. /\ Changed(k, o, t, UntiedColumns) /\ DOMAIN Rows(k, t) = DOMAIN Rows(d, t)
       /\ DOMAIN Rows(m, t) = DOMAIN Rows(k, t) /\ DOMAIN Rows(s, t) = DOMAIN Rows(m, t)
       /\ DOMAIN Rows(o, t) = DOMAIN Rows(s, t)
  <2>1. Changed(k, s, t, UnownedColumns)  BY <1>6, <1>8, ChangedTwice
  <2>2. Changed(k, o, t, UntiedColumns)  BY <1>10, <2>1, ChangedTwice
  <2>3. QED  BY <1>3, <1>6, <1>8, <1>10, <2>2 DEF Changed
<1>14. /\ {"amount", "imageUrl"} \cup Payment \subseteq Names(UntiedColumns)
       /\ {"amount"} \cup Payment \subseteq Names(TransactionColumns(2)) \ {"imageKey"}
       /\ "imageKey" \in Names(TransactionColumns(2)) /\ "imageKey" \notin Names(FirstTransactionColumns)
       /\ "businessId" \notin Names(FirstTransactionColumns)
  BY DEF Names, Columns, UntiedColumns, TransactionColumns, FirstTransactionColumns, Payment
<1>15. ASSUME NEW i \in DOMAIN Rows(d, t)
       PROVE  /\ \A c \in {"amount"} \cup Payment : Rows(o, t)[i][c] = Rows(d, t)[i][c]
              /\ Rows(o, t)[i]["imageUrl"] = Rows(d, t)[i]["imageKey"]
  <2>1. \A c \in {"amount"} \cup Payment : Rows(m, t)[i][c] = Rows(d, t)[i][c]
    BY <1>3, <1>6, <1>13, <1>14 DEF Carried
  <2>2. Rows(m, t)[i]["imageUrl"] = Rows(d, t)[i]["imageKey"]
    BY <1>3, <1>6, <1>13 DEF Moved
  <2>3. \A c \in {"amount", "imageUrl"} \cup Payment :
           Rows(s, t)[i][c] = Rows(m, t)[i][c] /\ Rows(o, t)[i][c] = Rows(s, t)[i][c]
    BY <1>8, <1>10, <1>13, <1>14 DEF Carried
  <2>4. QED  BY <2>1, <2>2, <2>3
<1>16. CASE r = Refused /\ Cause(o)
  <2>1. e = Refused
    BY <1>16, StatementsStrict DEF TenancyTablesDown, BusinessColumnsDown
  <2>2. Cause(d)  BY <1>13, <1>15, <1>16 DEF Cause
  <2>3. QED  BY <1>0, <2>1, <2>2
<1>17. CASE Changed(o, r, t, FirstTransactionColumns) /\ Carried(o, r, t, Names(UntiedColumns))
  <2>1. Changed(k, r, t, FirstTransactionColumns)  BY <1>13, <1>17, ChangedTwice
  <2>2. /\ Proper(r) /\ DOMAIN r.tables = FirstTables \cup {"users", "invites"} /\ "businesses" \in FirstTables
        /\ \A w \in (FirstTables \cup {"users", "invites"}) \ {t} : r.tables[w] = d.tables[w]
        /\ Cols(r, t) = FirstTransactionColumns /\ r.uniques = UniquesAt(2)
        /\ r.keys = FirstKeys \cup NewKeys
    BY <1>1, <1>3, <2>1 DEF Changed, Elsewhere, FirstTables
  <2>3. NoneOn(r, "businesses")  BY <1>4, <2>2, KeyPlaces, NewKeyPlaces DEF NoneOn
  <2>4. Cols(r, "businesses") = BusinessColumns(2)  BY <2>2 DEF AtLater, Cols, FirstTables
  <2>5. Changed(r, b, "businesses", BusinessColumns(1))
    BY <2>2, <2>3, <2>4, BusinessColumnsDownIs
  <2> HIDE DEF b
  <2>6. /\ Proper(e) /\ DOMAIN e.tables = FirstTables /\ e.keys = FirstKeys
        /\ \A w \in FirstTables : e.tables[w] = b.tables[w]
        /\ e.uniques = {u \in b.uniques : u.table \notin {"users", "invites"}}
    BY <2>2, <2>5, TenancyTablesDownIs DEF Changed
  <2> HIDE DEF e
  <2>7. /\ e.tables[t] = r.tables[t] /\ e.tables["managers"] = d.tables["managers"]
        /\ e.tables["edit_logs"] = d.tables["edit_logs"]
    BY <2>2, <2>5, <2>6 DEF Changed, Elsewhere, FirstTables
  <2>8. e.uniques \ {NameUnique} = FirstUniques
    <3>1. e.uniques = {u \in UniquesAt(2) : u.table \notin {"users", "invites"}}
      BY <2>2, <2>5, <2>6 DEF Changed
    <3>2. {u \in UniquesAt(2) : u.table \notin {"users", "invites"}} = FirstUniques
      BY DEF UniquesAt, FirstUniques, UniqueOf
    <3>3. NameUnique \notin FirstUniques  BY DEF NameUnique, FirstUniques, UniqueOf
    <3>4. QED  BY <3>1, <3>2, <3>3
  <2>9. AtFirst(e)
    <3>1. Cols(e, "businesses") = BusinessColumns(1)  BY <2>5, <2>6 DEF Changed, Cols, FirstTables
    <3>2. /\ Cols(e, t) = FirstTransactionColumns /\ Cols(e, "managers") = ManagerColumns
          /\ Cols(e, "edit_logs") = EditLogColumns
      BY <2>2, <2>7 DEF Cols, AtLater
    <3>3. QED  BY <2>6, <2>8, <3>1, <3>2 DEF AtFirst
  <2>10. Kept(d, e)
    <3>1. /\ Rows(e, t) = Rows(r, t) /\ DOMAIN Rows(r, t) = DOMAIN Rows(d, t)
          /\ Rows(e, "edit_logs") = Rows(d, "edit_logs")
      BY <1>3, <2>1, <2>7 DEF Rows, Changed
    <3>2. \A i \in DOMAIN Rows(d, t) :
             /\ Rows(e, t)[i]["amount"] = Rows(d, t)[i]["amount"]
             /\ Rows(e, t)[i]["imageUrl"] = Rows(d, t)[i]["imageKey"]
      BY <1>13, <1>14, <1>15, <1>17, <3>1 DEF Carried
    <3>3. \A i \in DOMAIN Rows(d, t) : Image(d, i) = Rows(d, t)[i]["imageKey"]
      BY <1>1, <1>14, ImageIs
    <3>4. Cols(e, t) = FirstTransactionColumns /\ t \in DOMAIN e.tables  BY <1>1, <2>6, <2>9 DEF AtFirst
    <3>5. \A i \in DOMAIN Rows(d, t) : Image(e, i) = Rows(e, t)[i]["imageUrl"]
      BY <1>14, <2>6, <3>1, <3>4, ImageIs
    <3>6. ~Has(e, t, "businessId")  BY <1>14, <3>4 DEF Has
    <3>7. QED  BY <3>1, <3>2, <3>3, <3>5, <3>6 DEF Kept
  <2>11. QED  BY <1>0, <2>9, <2>10
<1>18. QED  BY <1>12, <1>16, <1>17 DEF TightenedOrNot

LEMMA InitialDownIs == ASSUME NEW d, AtFirst(d) PROVE At(0, InitialDown(d))
<1> DEFINE l == DropKey(d, "edit_logs", "transactionId")
           d1 == DropTable(l, "edit_logs")
           d2 == DropTable(d1, "transactions")
           n == DropKey(d2, "managers", "businessId")
           d3 == DropTable(n, "managers")
           e == DropTable(d3, "businesses")
           key == KeyOf("managers", "businessId", "businesses", "CASCADE")
<1>1. InitialDown(d) = e  BY DEF InitialDown
<1>2. Constrained(d, l, d.uniques, {x \in d.keys : ~(x.table = "edit_logs" /\ x.column = "transactionId")})
  BY DropKeyIs DEF AtFirst
<1> HIDE DEF l
<1>3. {x \in FirstKeys : ~(x.table = "edit_logs" /\ x.column = "transactionId")} = {key}
  BY DEF FirstKeys, KeyOf
<1>4. key.table = "managers" /\ key.column = "businessId" /\ key.of = "businesses"  BY DEF KeyOf
<1> HIDE DEF key
<1>5. Proper(l) /\ DOMAIN l.tables = FirstTables /\ l.uniques = d.uniques /\ l.keys = {key}
  BY <1>2, <1>3 DEF Constrained, AtFirst
<1>6. /\ Proper(d1) /\ DOMAIN d1.tables = FirstTables \ {"edit_logs"}
      /\ d1.uniques = {u \in d.uniques : u.table # "edit_logs"} /\ d1.keys = {x \in {key} : x.table # "edit_logs"}
  BY <1>4, <1>5, DropTableIs DEF FirstTables
<1> HIDE DEF d1
<1>7. d1.keys = {key}  BY <1>4, <1>6
<1>8. /\ Proper(d2) /\ DOMAIN d2.tables = DOMAIN d1.tables \ {"transactions"}
      /\ d2.uniques = {u \in d1.uniques : u.table # "transactions"} /\ d2.keys = {x \in {key} : x.table # "transactions"}
  BY <1>4, <1>6, <1>7, DropTableIs DEF FirstTables
<1> HIDE DEF d2
<1>9. Constrained(d2, n, d2.uniques, {x \in d2.keys : ~(x.table = "managers" /\ x.column = "businessId")})
  <2>1. Proper(d2)  BY <1>8
  <2>2. QED  BY <2>1, DropKeyIs
<1> HIDE DEF n
<1>10. Proper(n) /\ n.tables = d2.tables /\ n.uniques = d2.uniques /\ n.keys = {}
  BY <1>4, <1>8, <1>9 DEF Constrained
<1>11. DOMAIN n.tables = {"managers", "businesses"}  BY <1>6, <1>8, <1>10 DEF FirstTables
<1>12. /\ Proper(d3) /\ DOMAIN d3.tables = DOMAIN n.tables \ {"managers"}
       /\ d3.uniques = {u \in n.uniques : u.table # "managers"} /\ d3.keys = {x \in n.keys : x.table # "managers"}
  BY <1>10, <1>11, DropTableIs
<1> HIDE DEF d3
<1>13. DOMAIN d3.tables = {"businesses"} /\ d3.keys = {}  BY <1>10, <1>11, <1>12
<1>14. /\ Proper(e) /\ DOMAIN e.tables = DOMAIN d3.tables \ {"businesses"}
       /\ e.uniques = {u \in d3.uniques : u.table # "businesses"} /\ e.keys = {x \in d3.keys : x.table # "businesses"}
  BY <1>12, <1>13, DropTableIs
<1> HIDE DEF e
<1>15. \A u \in d.uniques : u.table \in {"managers", "businesses"}
  <2>1. \A u \in d.uniques : u = NameUnique \/ u \in FirstUniques  BY DEF AtFirst
  <2>2. QED  BY <2>1 DEF NameUnique, FirstUniques, UniqueOf
<1>16. e.uniques = {}  BY <1>6, <1>8, <1>10, <1>12, <1>14, <1>15
<1>17. QED  BY <1>1, <1>13, <1>14, <1>16 DEF At
-----------------------------------------------------------------------------
(* Whole runs and reverts *)

LEMMA Levels ==
    ASSUME NEW d
    PROVE  /\ \A k : k \in 2..5 => (At(k, d) <=> AtLater(k, d))
           /\ At(1, d) <=> AtFirst(d)
           /\ \A k : k \in 0..5 /\ At(k, d) => Proper(d)
BY DEF At, AtFirst, AtLater

LEMMA UpIs ==
    ASSUME inPlace \in BOOLEAN, NEW k \in 1..5, NEW d, At(k - 1, d)
    PROVE  At(k, Up(k, d)) /\ (k > 1 => Kept(d, Up(k, d)))
<1>1. CASE k = 1
  <2>1. Up(k, d) = InitialUp(d)  BY <1>1 DEF Up
  <2>2. At(0, d)  BY <1>1
  <2>3. QED  BY <1>1, <2>1, <2>2, InitialUpIs
<1>2. CASE k = 2
  <2>1. Up(k, d) = MultiTenancyUp(d)  BY <1>2 DEF Up
  <2>2. AtFirst(d)  BY <1>2, Levels
  <2>3. QED  BY <1>2, <2>1, <2>2, MultiTenancyUpIs, Levels
<1>3. CASE k = 3
  <2>1. Up(k, d) = FileIdUp(d)  BY <1>3 DEF Up
  <2>2. AtLater(2, d)  BY <1>3, Levels
  <2>3. QED  BY <1>3, <2>1, <2>2, FileIdUpIs, Levels
<1>4. CASE k = 4
  <2>1. Up(k, d) = LanguageUp(d)  BY <1>4 DEF Up
  <2>2. AtLater(3, d)  BY <1>4, Levels
  <2>3. QED  BY <1>4, <2>1, <2>2, LanguageUpIs, Levels
<1>5. CASE k = 5
  <2>1. Up(k, d) = ReasonUp(d)  BY <1>5 DEF Up
  <2>2. AtLater(4, d)  BY <1>5, Levels
  <2>3. QED  BY <1>5, <2>1, <2>2, ReasonUpIs, Levels
<1>6. QED  BY <1>1, <1>2, <1>3, <1>4, <1>5

LEMMA DownIs ==
    ASSUME inPlace \in BOOLEAN, NEW k \in 1..5, NEW d, At(k, d)
    PROVE  \/ At(k - 1, Down(k, d)) /\ (k > 1 => Kept(d, Down(k, d)))
           \/ k = 2 /\ Down(k, d) = Refused /\ Cause(d)
<1>1. CASE k = 1
  <2>1. Down(k, d) = InitialDown(d)  BY <1>1 DEF Down
  <2>2. AtFirst(d)  BY <1>1, Levels
  <2>3. QED  BY <1>1, <2>1, <2>2, InitialDownIs
<1>2. CASE k = 2
  <2>1. Down(k, d) = MultiTenancyDown(d)  BY <1>2 DEF Down
  <2>2. AtLater(2, d)  BY <1>2, Levels
  <2>3. QED  BY <1>2, <2>1, <2>2, MultiTenancyDownIs, Levels
<1>3. CASE k = 3
  <2>1. Down(k, d) = FileIdDown(d)  BY <1>3 DEF Down
  <2>2. AtLater(3, d)  BY <1>3, Levels
  <2>3. QED  BY <1>3, <2>1, <2>2, FileIdDownIs, Levels
<1>4. CASE k = 4
  <2>1. Down(k, d) = LanguageDown(d)  BY <1>4 DEF Down
  <2>2. AtLater(4, d)  BY <1>4, Levels
  <2>3. QED  BY <1>4, <2>1, <2>2, LanguageDownIs, Levels
<1>5. CASE k = 5
  <2>1. Down(k, d) = ReasonDown(d)  BY <1>5 DEF Down
  <2>2. AtLater(5, d)  BY <1>5, Levels
  <2>3. QED  BY <1>5, <2>1, <2>2, ReasonDownIs, Levels
<1>6. QED  BY <1>1, <1>2, <1>3, <1>4, <1>5

\* One pending migration of a run: it does its part, and a run that starts at some
\* release keeps what was kept so far.
Level(k) == IF applied < k THEN k ELSE applied
LEMMA PendingIs ==
    ASSUME DbInv, NEW n \in 1..5, applied < n, NEW k \in 1..5, NEW d,
           At(IF k <= n THEN Level(k - 1) ELSE n, d), applied > 0 => Kept(db, d)
    PROVE  At(IF k < n THEN Level(k) ELSE n, Pending(k, n, d)) /\ (applied > 0 => Kept(db, Pending(k, n, d)))
<1>1. applied \in 0..5 /\ inPlace \in BOOLEAN  BY DEF DbInv, Latest
<1>2. CASE applied < k /\ k <= n
  <2>1. Pending(k, n, d) = Up(k, d)  BY <1>2 DEF Pending
  <2>2. At(k - 1, d)
    <3>1. Level(k - 1) = k - 1  BY <1>1, <1>2 DEF Level
    <3>2. QED  BY <1>2, <3>1
  <2>3. At(k, Up(k, d)) /\ (k > 1 => Kept(d, Up(k, d)))  BY <1>1, <2>2, UpIs
  <2>4. (IF k < n THEN Level(k) ELSE n) = k  BY <1>2 DEF Level
  <2>5. applied > 0 => k > 1  BY <1>1, <1>2
  <2>6. applied > 0 => Kept(db, Up(k, d))  BY <2>3, <2>5, KeptTwice
  <2>7. QED  BY <2>1, <2>3, <2>4, <2>6
<1>3. CASE ~(applied < k /\ k <= n)
  <2>1. Pending(k, n, d) = d  BY <1>3 DEF Pending
  <2>2. (IF k < n THEN Level(k) ELSE n) = (IF k <= n THEN Level(k - 1) ELSE n)
    BY <1>1, <1>3 DEF Level
  <2>3. QED  BY <2>1, <2>2
<1>4. QED  BY <1>2, <1>3

LEMMA UpgradedIs ==
    ASSUME DbInv, NEW n \in 1..5, applied < n
    PROVE  At(n, Upgraded(n)) /\ (applied > 0 => Kept(db, Upgraded(n)))
<1> DEFINE d1 == Pending(1, n, db)
           d2 == Pending(2, n, d1)
           d3 == Pending(3, n, d2)
           d4 == Pending(4, n, d3)
           d5 == Pending(5, n, d4)
           m(k) == IF k < n THEN Level(k) ELSE n
           s(k) == IF k <= n THEN Level(k - 1) ELSE n
<1>1. applied \in 0..5 /\ At(applied, db)  BY DEF DbInv, Latest
<1>2. s(1) = applied /\ s(2) = m(1) /\ s(3) = m(2) /\ s(4) = m(3) /\ s(5) = m(4) /\ m(5) = n
  BY <1>1 DEF Level
<1>3. Kept(db, db)  BY DEF Kept
<1>4. Upgraded(n) = d5  BY DEF Upgraded
<1> HIDE DEF d1, d2, d3, d4, d5, m, s
<1>5. At(m(1), d1) /\ (applied > 0 => Kept(db, d1))
  BY <1>1, <1>2, <1>3, PendingIs DEF d1, m, s
<1>6. At(m(2), d2) /\ (applied > 0 => Kept(db, d2))
  BY <1>2, <1>5, PendingIs DEF d2, m, s
<1>7. At(m(3), d3) /\ (applied > 0 => Kept(db, d3))
  BY <1>2, <1>6, PendingIs DEF d3, m, s
<1>8. At(m(4), d4) /\ (applied > 0 => Kept(db, d4))
  BY <1>2, <1>7, PendingIs DEF d4, m, s
<1>9. At(m(5), d5) /\ (applied > 0 => Kept(db, d5))
  BY <1>2, <1>8, PendingIs DEF d5, m, s
<1>10. QED  BY <1>2, <1>4, <1>9

-----------------------------------------------------------------------------
(* Rows come and go within the columns of their tables. *)

\* Nothing but rows differs.
SameSchema(d, e) ==
    /\ Proper(e) /\ DOMAIN e.tables = DOMAIN d.tables
    /\ \A t \in DOMAIN d.tables : Cols(e, t) = Cols(d, t)
    /\ e.uniques = d.uniques /\ e.keys = d.keys

LEMMA SameLevel ==
    ASSUME NEW d, NEW e, SameSchema(d, e), NEW k \in 0..5, At(k, d) PROVE At(k, e)
<1>1. CASE k = 0  BY <1>1 DEF At, SameSchema
<1>2. CASE k = 1
  <2>1. AtFirst(d)  BY <1>2, Levels
  <2>2. AtFirst(e)  BY <2>1 DEF AtFirst, SameSchema, FirstTables
  <2>3. QED  BY <1>2, <2>2, Levels
<1>3. CASE k \in 2..5
  <2>1. AtLater(k, d)  BY <1>3, Levels
  <2>2. AtLater(k, e)  BY <2>1 DEF AtLater, SameSchema, FirstTables
  <2>3. QED  BY <1>3, <2>2, Levels
<1>4. QED  BY <1>1, <1>2, <1>3

LEMMA InsertIs ==
    ASSUME NEW d, Proper(d), NEW t \in DOMAIN d.tables, NEW i, NEW row, DOMAIN row = Names(Cols(d, t)),
           Insert(d, t, i, row) # Refused
    PROVE  SameSchema(d, Insert(d, t, i, row))
<1> DEFINE rows == With(Rows(d, t), i, row)
           e == SetTable(d, t, Cols(d, t), rows)
<1>1. Insert(d, t, i, row) = e  BY DEF Insert, When
<1>2. DOMAIN rows = DOMAIN Rows(d, t) \cup {i} /\ \A j \in DOMAIN rows : rows[j] = IF j = i THEN row ELSE Rows(d, t)[j]
  BY DEF With
<1>3. \A j \in DOMAIN rows : DOMAIN rows[j] = Names(Cols(d, t))  BY <1>2 DEF Proper
<1> HIDE DEF rows
<1>4. /\ Proper(e) /\ DOMAIN e.tables = DOMAIN d.tables \cup {t} /\ Elsewhere(d, e, t)
      /\ e.uniques = d.uniques /\ e.keys = d.keys /\ Cols(e, t) = Cols(d, t)
  BY <1>3, TableSet
<1> HIDE DEF e
<1>5. \A w \in DOMAIN d.tables : Cols(e, w) = Cols(d, w)
  BY <1>4 DEF Elsewhere, Cols
<1>6. QED  BY <1>1, <1>4, <1>5 DEF SameSchema

LEMMA DeleteIs ==
    ASSUME NEW d, Proper(d), NEW t, NEW i PROVE SameSchema(d, Delete(d, t, i))
<1> DEFINE left(u) == Restrict(Rows(d, u), DOMAIN Rows(d, u) \ Gone(d, t, i, u))
           tables == [u \in DOMAIN d.tables |-> [columns |-> Cols(d, u), rows |-> left(u)]]
           e == Delete(d, t, i)
<1>1. e = Database(tables, d.uniques, d.keys)  BY DEF Delete
<1> HIDE DEF left, e
<1>2. \A u \in DOMAIN d.tables : Cols(e, u) = Cols(d, u) /\ Rows(e, u) = left(u)
  <2>1. e.tables = tables  BY <1>1, Fields
  <2>2. ASSUME NEW u \in DOMAIN d.tables PROVE Cols(e, u) = Cols(d, u) /\ Rows(e, u) = left(u)
    <3>1. e.tables[u] = [columns |-> Cols(d, u), rows |-> left(u)]  BY <2>1
    <3>2. e.tables[u].columns = Cols(d, u) /\ e.tables[u].rows = left(u)  BY <3>1
    <3>3. Cols(e, u) = e.tables[u].columns /\ Rows(e, u) = e.tables[u].rows  BY DEF Cols, Rows
    <3>4. QED  BY <3>2, <3>3
  <2>3. QED  BY <2>2
<1>3. \A u : DOMAIN left(u) \subseteq DOMAIN Rows(d, u) /\ \A j \in DOMAIN left(u) : left(u)[j] = Rows(d, u)[j]
  BY DEF Restrict, left
<1>4. e.tables = tables /\ e.uniques = d.uniques /\ e.keys = d.keys /\ DOMAIN tables = DOMAIN d.tables
  BY <1>1, Fields
<1> HIDE DEF tables
<1>5. e = Database(e.tables, e.uniques, e.keys)  BY <1>1, <1>4
<1>6. ASSUME NEW u \in DOMAIN e.tables, NEW j \in DOMAIN Rows(e, u)
      PROVE  DOMAIN Rows(e, u)[j] = Names(Cols(e, u))
  <2>1. j \in DOMAIN Rows(d, u) /\ Rows(e, u)[j] = Rows(d, u)[j] /\ Cols(e, u) = Cols(d, u)
    BY <1>2, <1>3, <1>4
  <2>2. QED  BY <1>4, <2>1 DEF Proper
<1>7. Proper(e)  BY <1>5, <1>6 DEF Proper
<1>8. QED  BY <1>2, <1>4, <1>7 DEF SameSchema, e

-----------------------------------------------------------------------------
(* The invariant, and what follows from it. *)

LEMMA DbInitInv == DbInit => DbInv
<1> SUFFICES ASSUME DbInit PROVE DbInv
  OBVIOUS
<1>1. db = Database([t \in {} |-> {}], {}, {}) /\ applied = 0 /\ inPlace \in BOOLEAN
  BY DEF DbInit, EmptyDatabase
<1>2. db.tables = [t \in {} |-> {}] /\ db.uniques = {} /\ db.keys = {}  BY <1>1, Fields
<1>3. Proper(db) /\ DOMAIN db.tables = {}  BY <1>1, <1>2 DEF Proper
<1>4. QED  BY <1>1, <1>2, <1>3 DEF DbInv, At, Latest

LEMMA RunStep ==
    ASSUME DbInv, NEW n \in 1..Latest, Run(n) PROVE DbInv' /\ (applied > 0 => Kept(db, db'))
<1>1. n \in 1..5 /\ applied < n  BY DEF Run, Latest
<1>2. db' = Upgraded(n) /\ applied' = n /\ inPlace' = inPlace  BY DEF Run
<1>3. At(n, Upgraded(n)) /\ (applied > 0 => Kept(db, Upgraded(n)))  BY <1>1, UpgradedIs
<1>4. At(n, db')  BY <1>2, <1>3
<1>5. DbInv'  BY <1>1, <1>2, <1>4 DEF DbInv, Latest
<1>6. QED  BY <1>2, <1>3, <1>5

LEMMA RevertStep ==
    ASSUME DbInv, Revert PROVE DbInv' /\ (applied' > 0 => Kept(db, db'))
<1>1. applied \in 1..5 /\ At(applied, db) /\ inPlace \in BOOLEAN  BY DEF DbInv, Revert, Latest
<1>2. /\ Down(applied, db) # Refused /\ db' = Down(applied, db)
      /\ applied' = applied - 1 /\ inPlace' = inPlace
  BY DEF Revert, Downgraded
<1>3. At(applied - 1, db') /\ (applied > 1 => Kept(db, db'))  BY <1>1, <1>2, DownIs
<1>4. applied' \in 0..5  BY <1>1, <1>2
<1>5. At(applied', db')  BY <1>2, <1>3
<1>6. DbInv'  BY <1>1, <1>2, <1>4, <1>5 DEF DbInv, Latest
<1>7. applied' > 0 => applied > 1  BY <1>1, <1>2
<1>8. QED  BY <1>3, <1>6, <1>7

LEMMA RowsStep ==
    ASSUME DbInv, SameSchema(db, db'), UNCHANGED <<applied, inPlace>> PROVE DbInv'
<1>1. At(applied, db')  BY SameLevel DEF DbInv, Latest
<1>2. QED  BY <1>1 DEF DbInv

LEMMA ProperNow == DbInv => Proper(db)
BY Levels DEF DbInv, Latest

LEMMA WriteStep ==
    ASSUME DbInv, NEW t \in Tables, NEW i \in Ids, NEW bare \in BOOLEAN, Write(t, i, bare) PROVE DbInv'
<1>1. /\ t \in DOMAIN db.tables /\ Insert(db, t, i, NewRow(t, i, bare)) # Refused
      /\ db' = Insert(db, t, i, NewRow(t, i, bare)) /\ UNCHANGED <<applied, inPlace>>
  BY DEF Write, Exists
<1>2. DOMAIN NewRow(t, i, bare) = Names(Cols(db, t))  BY DEF NewRow
<1>3. SameSchema(db, db')  BY <1>1, <1>2, ProperNow, InsertIs
<1>4. QED  BY <1>1, <1>3, RowsStep

LEMMA EraseStep == ASSUME DbInv, NEW i \in Ids, Erase(i) PROVE DbInv'
BY ProperNow, DeleteIs, RowsStep DEF Erase

\* The invariant: whatever runs, reverts and writes a database has been through, its
\* schema is the one its list of applied migrations stands for.
THEOREM DbInductive == DbSpec => []DbInv
<1>1. DbInv /\ [DbNext]_dbVars => DbInv'
  <2> SUFFICES ASSUME DbInv, [DbNext]_dbVars PROVE DbInv'
    OBVIOUS
  <2>1. CASE UNCHANGED dbVars  BY <2>1 DEF dbVars, DbInv
  <2>2. CASE DbNext  BY <2>2, RunStep, RevertStep, WriteStep, EraseStep DEF DbNext
  <2>3. QED  BY <2>1, <2>2
<1>2. QED  BY <1>1, DbInitInv, PTL DEF DbSpec

\* migration:run brings a database up to date from every release, over any data and
\* after any reverts.
THEOREM UpgradesSucceed == DbSpec => []UpgradeSucceeds
<1>1. DbInv => UpgradeSucceeds
  <2> SUFFICES ASSUME DbInv, applied < 5 PROVE Upgraded(5) # Refused
    BY DEF UpgradeSucceeds, Latest
  <2>1. At(5, Upgraded(5))  BY UpgradedIs
  <2>2. QED  BY <2>1, Levels, NotRefused
<1>2. QED  BY <1>1, DbInductive, PTL

\* Once up to date, by whatever way, the tables are the entities'.
THEOREM EntitiesAlwaysFit == DbSpec => []EntitiesFit
<1>1. DbInv => EntitiesFit
  <2> SUFFICES ASSUME DbInv, applied = Latest PROVE EntitiesFit
    BY DEF EntitiesFit
  <2>1. AtLater(5, db)  BY Levels DEF DbInv, Latest
  <2>2. DOMAIN Entities = {"businesses", "transactions", "edit_logs", "users", "invites"}
    BY DEF Entities
  <2>3. /\ Names(Cols(db, "businesses")) = Entities["businesses"].all
        /\ Cols(db, "businesses").nullable = Entities["businesses"].nullable
    BY <2>1 DEF AtLater, BusinessColumns, Columns, Names, Entities
  <2>4. /\ Names(Cols(db, "transactions")) = Entities["transactions"].all
        /\ Cols(db, "transactions").nullable = Entities["transactions"].nullable
    <3> DEFINE nullable == {"businessId", "userId", "amount", "transactionId", "timestamp",
                            "bankName", "imageKey", "fileUniqueId"}
               all == {"telegramUserId", "telegramName", "businessId", "userId", "status", "amount",
                       "transactionId", "timestamp", "bankName", "confidence", "isDuplicate",
                       "editedByUploader", "imageKey", "fileUniqueId", "createdAt"}
    <3>1. Entities["transactions"] = [all |-> all, nullable |-> nullable]  BY DEF Entities
    <3>2. TransactionColumns(5) =
            Columns({"telegramUserId", "telegramName", "confidence"},
                    {"isDuplicate", "createdAt", "status", "editedByUploader"}, nullable)
      BY DEF TransactionColumns, Payment
    <3>3. Names(TransactionColumns(5)) = all /\ TransactionColumns(5).nullable = nullable
      BY <3>2 DEF Names, Columns
    <3> HIDE DEF all, nullable
    <3>4. Cols(db, "transactions") = TransactionColumns(5)  BY <2>1 DEF AtLater
    <3>5. QED  BY <3>1, <3>3, <3>4
  <2>5. /\ Names(Cols(db, "edit_logs")) = Entities["edit_logs"].all
        /\ Cols(db, "edit_logs").nullable = Entities["edit_logs"].nullable
    BY <2>1 DEF AtLater, EditLogColumns, Columns, Names, Entities
  <2>6. /\ Names(Cols(db, "users")) = Entities["users"].all
        /\ Cols(db, "users").nullable = Entities["users"].nullable
    BY <2>1 DEF AtLater, UserColumns, Columns, Names, Entities
  <2>7. /\ Names(Cols(db, "invites")) = Entities["invites"].all
        /\ Cols(db, "invites").nullable = Entities["invites"].nullable
    BY <2>1 DEF AtLater, InviteColumns, Columns, Names, Entities
  <2>8. {u \in db.uniques : u.table \in DOMAIN Entities} = Relied
    BY <2>1, <2>2 DEF AtLater, UniquesAt, FirstUniques, UniqueOf, Relied
  <2>9. \A t \in DOMAIN Entities :
           Names(Cols(db, t)) = Entities[t].all /\ Cols(db, t).nullable = Entities[t].nullable
    BY <2>2, <2>3, <2>4, <2>5, <2>6, <2>7
  <2>10. QED  BY <2>8, <2>9 DEF EntitiesFit
<1>2. QED  BY <1>1, DbInductive, PTL

\* Only the second migration ever refuses to be reverted, and only for a Transaction
\* that lacks a field the first release requires, or that TypeORM would empty of it.
THEOREM DowngradesRefusedForCause == DbSpec => []DowngradeRefusedForCause
<1>1. DbInv => DowngradeRefusedForCause
  <2> SUFFICES ASSUME DbInv, applied > 0, Down(applied, db) = Refused
               PROVE  applied = 2 /\ Cause(db)
    BY DEF DowngradeRefusedForCause, Downgraded, Cause
  <2>1. applied \in 1..5 /\ At(applied, db) /\ inPlace \in BOOLEAN  BY DEF DbInv, Latest
  <2>2. ~At(applied - 1, Refused)
    <3>1. applied - 1 \in 0..5  BY <2>1
    <3>2. QED  BY <3>1, Levels, NotRefused
  <2>3. QED  BY <2>1, <2>2, DownIs
<1>2. QED  BY <1>1, DbInductive, PTL

\* No run and no revert between two releases that have Transactions costs one of them
\* its amount, its image or its edit log, or puts it into a Business.
THEOREM MigrationsKeepMoney == DbSpec => MoneyAndImagesKept
<1>1. DbInv /\ [DbNext]_dbVars => [applied' # applied /\ applied > 0 /\ applied' > 0 => Kept(db, db')]_dbVars
  <2> SUFFICES ASSUME DbInv, DbNext, applied' # applied, applied > 0, applied' > 0 PROVE Kept(db, db')
    OBVIOUS
  <2>1. CASE \E n \in 1..Latest : Run(n)  BY <2>1, RunStep
  <2>2. CASE Revert  BY <2>2, RevertStep
  <2>3. CASE \E t \in Tables, i \in Ids, bare \in BOOLEAN : Write(t, i, bare)  BY <2>3 DEF Write
  <2>4. CASE \E i \in Ids : Erase(i)  BY <2>4 DEF Erase
  <2>5. QED  BY <2>1, <2>2, <2>3, <2>4 DEF DbNext
<1>2. QED  BY <1>1, DbInductive, PTL DEF DbSpec, MoneyAndImagesKept

-----------------------------------------------------------------------------
(* Statements leave no constraint broken *)

\* Constraints are on columns that are there, and none is on the image, which is renamed.
Images == {"imageUrl", "imageKey"}
Constrainable(t, c) == t = "transactions" => c \notin Images
Placed(d) ==
    /\ \A u \in d.uniques :
         /\ u.table \in DOMAIN d.tables /\ u.columns \subseteq Names(Cols(d, u.table))
         /\ \A c \in u.columns : Constrainable(u.table, c)
    /\ \A key \in d.keys :
         /\ {key.table, key.of} \subseteq DOMAIN d.tables /\ key.column \in Names(Cols(d, key.table))
         /\ Constrainable(key.table, key.column)
Good(d) == Proper(d) /\ Placed(d) /\ Sound(d)
Held(d) == d = Refused \/ Good(d)

\* A change of columns breaks nothing that is on values it carries over.
LEMMA ChangedGood ==
    ASSUME NEW d, Good(d), NEW e, NEW t, NEW columns, NEW S, t \in DOMAIN d.tables,
           Changed(d, e, t, columns), Carried(d, e, t, S), S \subseteq Names(columns),
           \A u \in d.uniques : u.table = t => u.columns \subseteq S,
           \A key \in d.keys : key.table = t => key.column \in S,
           Filled(e, t)
    PROVE  Good(e)
<1>1. /\ DOMAIN e.tables = DOMAIN d.tables /\ e.uniques = d.uniques /\ e.keys = d.keys
      /\ Proper(e) /\ Cols(e, t) = columns
  BY DEF Changed
<1>2. \A w \in DOMAIN d.tables \ {t} : Cols(e, w) = Cols(d, w) /\ Rows(e, w) = Rows(d, w)
  BY DEF Changed, Elsewhere, Cols, Rows
<1>3. \A w \in DOMAIN d.tables : DOMAIN Rows(e, w) = DOMAIN Rows(d, w)
  BY <1>2 DEF Changed
<1>4. Placed(e)  BY <1>1, <1>2 DEF Good, Placed
<1>5. \A w \in DOMAIN e.tables : Filled(e, w)
  <2>1. ASSUME NEW w \in DOMAIN d.tables \ {t} PROVE Filled(e, w)
    <3>1. Filled(d, w)  BY DEF Good, Sound
    <3>2. QED  BY <1>2, <3>1 DEF Filled
  <2>2. QED  BY <1>1, <2>1
<1>6. ASSUME NEW u \in d.uniques PROVE Distinct(e, u)
  <2>1. Distinct(d, u) /\ u.table \in DOMAIN d.tables  BY DEF Good, Sound, Placed
  <2>2. \A i \in DOMAIN Rows(d, u.table), c \in u.columns : Rows(e, u.table)[i][c] = Rows(d, u.table)[i][c]
    BY <1>2, <2>1 DEF Carried
  <2>3. QED  BY <1>3, <2>1, <2>2 DEF Distinct
<1>7. ASSUME NEW key \in d.keys PROVE Anchored(e, key)
  <2>1. Anchored(d, key) /\ {key.table, key.of} \subseteq DOMAIN d.tables
    BY DEF Good, Sound, Placed
  <2>2. \A i \in DOMAIN Rows(d, key.table) :
           Rows(e, key.table)[i][key.column] = Rows(d, key.table)[i][key.column]
    BY <1>2, <2>1 DEF Carried
  <2>3. QED  BY <1>3, <2>1, <2>2 DEF Anchored
<1>8. QED  BY <1>1, <1>4, <1>5, <1>6, <1>7 DEF Good, Sound

LEMMA AddColumnHeld ==
    ASSUME NEW d, Held(d), NEW t, NEW c, NEW kind \in {"required", "defaulted", "nullable"}
    PROVE  /\ Held(AddColumn(d, t, c, kind))
           /\ AddColumn(d, t, c, kind) # Refused =>
                \A x : Has(d, t, x) => Has(AddColumn(d, t, c, kind), t, x)
<1> DEFINE e == AddColumn(d, t, c, kind)
<1>1. CASE ~(d # Refused /\ Exists(d, t) /\ ~Has(d, t, c) /\ (kind # "required" \/ DOMAIN Rows(d, t) = {}))
  <2>1. e = Refused  BY <1>1 DEF AddColumn, When
  <2>2. QED  BY <2>1 DEF Held
<1>2. CASE d # Refused /\ Exists(d, t) /\ ~Has(d, t, c) /\ (kind # "required" \/ DOMAIN Rows(d, t) = {})
  <2> DEFINE columns == Put(Cols(d, t), kind, c)
  <2>1. Good(d) /\ Proper(d) /\ t \in DOMAIN d.tables /\ c \notin Names(Cols(d, t))
    BY <1>2 DEF Held, Good, Exists, Has
  <2>2. Changed(d, e, t, columns) /\ Carried(d, e, t, Names(Cols(d, t)))
    BY <1>2, <2>1, AddColumnIs
  <2>3. e = SetTable(d, t, columns, [i \in DOMAIN Rows(d, t) |-> With(Rows(d, t)[i], c, Initial(kind))])
    BY <1>2, Accepted
  <2>4. Names(columns) = Names(Cols(d, t)) \cup {c}  BY NamesPut
  <2>5. \A i \in DOMAIN Rows(d, t) : Rows(e, t)[i][c] = Initial(kind)
    <3>1. Rows(e, t) = [i \in DOMAIN Rows(d, t) |-> With(Rows(d, t)[i], c, Initial(kind))]
      BY <2>3 DEF SetTable, Rows, Database
    <3>2. QED  BY <3>1 DEF With
  <2> HIDE DEF e
  <2>6. Filled(e, t)
    <3> SUFFICES ASSUME NEW i \in DOMAIN Rows(d, t), NEW x \in columns.required \cup columns.defaulted
                 PROVE  Rows(e, t)[i][x] # Null
      BY <2>2 DEF Filled, Changed
    <3>1. CASE x \in Cols(d, t).required \cup Cols(d, t).defaulted
      <4>1. Filled(d, t) /\ x \in Names(Cols(d, t))  BY <2>1, <3>1 DEF Good, Sound, Names
      <4>2. QED  BY <2>2, <3>1, <4>1 DEF Filled, Carried
    <3>2. CASE x \notin Cols(d, t).required \cup Cols(d, t).defaulted
      <4>1. x = c /\ kind # "nullable"  BY <3>2 DEF Put, Columns
      <4>2. Initial(kind) # Null  BY <4>1 DEF Initial, Null
      <4>3. QED  BY <2>5, <4>1, <4>2
    <3>3. QED  BY <3>1, <3>2
  <2>7. Good(e)
    <3>1. /\ \A u \in d.uniques : u.table = t => u.columns \subseteq Names(Cols(d, t))
          /\ \A key \in d.keys : key.table = t => key.column \in Names(Cols(d, t))
      BY <2>1 DEF Good, Placed
    <3> HIDE DEF columns
    <3>2. QED  BY <2>1, <2>2, <2>4, <2>6, <3>1, ChangedGood
  <2>8. \A x : Has(d, t, x) => Has(e, t, x)
    BY <2>2, <2>4 DEF Has, Exists, Changed
  <2>9. QED  BY <2>7, <2>8 DEF Held, e
<1>3. QED  BY <1>1, <1>2

\* Fewer constraints.
LEMMA FewerGood ==
    ASSUME NEW d, Good(d), NEW uniques \in SUBSET d.uniques, NEW keys \in SUBSET d.keys
    PROVE  Good(Database(d.tables, uniques, keys))
<1> DEFINE e == Database(d.tables, uniques, keys)
<1>1. Proper(e)  BY ConstraintsSet DEF Good
<1>2. e.tables = d.tables /\ e.uniques = uniques /\ e.keys = keys  BY Fields
<1> HIDE DEF e
<1>3. Placed(e)  BY <1>2 DEF Good, Placed, Cols
<1>4. Sound(e)
  <2>1. \A t : Filled(e, t) = Filled(d, t)  BY <1>2 DEF Filled, Rows, Cols
  <2>2. \A u : Distinct(e, u) = Distinct(d, u)  BY <1>2 DEF Distinct, Rows
  <2>3. \A key : Anchored(e, key) = Anchored(d, key)  BY <1>2 DEF Anchored, Rows
  <2>4. QED  BY <1>2, <2>1, <2>2, <2>3 DEF Good, Sound
<1>5. QED  BY <1>1, <1>3, <1>4 DEF Good, e

LEMMA DropColumnHeld == ASSUME NEW d, Held(d), NEW t, NEW c PROVE Held(DropColumn(d, t, c))
<1> DEFINE e == DropColumn(d, t, c)
<1>1. CASE ~(d # Refused /\ Has(d, t, c))
  <2>1. e = Refused  BY <1>1 DEF DropColumn, When
  <2>2. QED  BY <2>1 DEF Held
<1>2. CASE d # Refused /\ Has(d, t, c)
  <2> DEFINE uniques == {u \in d.uniques : ~(u.table = t /\ c \in u.columns)}
             keys == {key \in d.keys : ~(key.table = t /\ key.column = c)}
             f == Database(d.tables, uniques, keys)
  <2>1. Good(d)  BY <1>2 DEF Held
  <2>2. Good(f)  BY <2>1, FewerGood
  <2>3. f.tables = d.tables /\ f.uniques = uniques /\ f.keys = keys  BY Fields
  <2>4. Free(f, t, c)  BY <2>3 DEF Free
  <2>5. DropColumn(f, t, c) = e
    <3>1. Cols(f, t) = Cols(d, t) /\ Rows(f, t) = Rows(d, t)  BY <2>3 DEF Cols, Rows
    <3>2. f # Refused /\ Has(f, t, c)  BY <1>2, <2>2, <2>3, <3>1, NotRefused DEF Good, Has, Exists
    <3>3. \A columns, rows : SetTable(f, t, columns, rows).tables = SetTable(d, t, columns, rows).tables
      BY <2>3 DEF SetTable, Database
    <3>4. /\ {u \in f.uniques : ~(u.table = t /\ c \in u.columns)} = uniques
          /\ {key \in f.keys : ~(key.table = t /\ key.column = c)} = keys
      BY <2>3
    <3> HIDE DEF f
    <3>5. QED  BY <1>2, <3>1, <3>2, <3>3, <3>4 DEF DropColumn, When
  <2> HIDE DEF f, e
  <2> DEFINE columns == Take(Cols(f, t), c)
  <2>6. t \in DOMAIN f.tables /\ c \in Names(Cols(f, t)) /\ Proper(f)
    BY <1>2, <2>2, <2>3 DEF Has, Exists, Cols, Good
  <2>7. Changed(f, e, t, columns) /\ Carried(f, e, t, Names(Cols(f, t)) \ {c})
    BY <2>4, <2>5, <2>6, DropColumnIs
  <2>8. Names(columns) = Names(Cols(f, t)) \ {c}  BY NamesTake
  <2>9. Filled(e, t)
    <3>1. Filled(f, t)  BY <2>2, <2>6 DEF Good, Sound
    <3>2. columns.required \cup columns.defaulted \subseteq
            (Cols(f, t).required \cup Cols(f, t).defaulted) \cap Names(columns)
      BY DEF Take, Columns, Names
    <3> HIDE DEF columns
    <3>3. QED  BY <2>7, <2>8, <3>1, <3>2 DEF Filled, Changed, Carried
  <2>10. /\ \A u \in f.uniques : u.table = t => u.columns \subseteq Names(Cols(f, t)) \ {c}
         /\ \A key \in f.keys : key.table = t => key.column \in Names(Cols(f, t)) \ {c}
    BY <2>2, <2>4 DEF Good, Placed, Free
  <2> HIDE DEF columns
  <2>11. Good(e)  BY <2>2, <2>6, <2>7, <2>8, <2>9, <2>10, ChangedGood
  <2>12. QED  BY <2>11 DEF Held, e
<1>3. QED  BY <1>1, <1>2

LEMMA RenameColumnHeld ==
    ASSUME NEW d, Held(d), NEW c \in Images, NEW x
    PROVE  Held(RenameColumn(d, "transactions", c, x))
<1> DEFINE t == "transactions"
           e == RenameColumn(d, t, c, x)
<1>1. CASE ~(d # Refused /\ Has(d, t, c) /\ ~Has(d, t, x))
  <2>1. e = Refused  BY <1>1 DEF RenameColumn, When
  <2>2. QED  BY <2>1 DEF Held
<1>2. CASE d # Refused /\ Has(d, t, c) /\ ~Has(d, t, x)
  <2> DEFINE kind == KindOf(d, t, c)
             columns == Put(Take(Cols(d, t), c), kind, x)
             S == Names(Cols(d, t)) \ {c}
  <2>1. /\ Good(d) /\ Proper(d) /\ t \in DOMAIN d.tables
        /\ c \in Names(Cols(d, t)) /\ x \notin Names(Cols(d, t))
    BY <1>2 DEF Held, Good, Has, Exists
  <2>2. Changed(d, e, t, columns) /\ Carried(d, e, t, S) /\ Moved(d, e, t, c, x)
    BY <2>1, RenameColumnIs
  <2> HIDE DEF e
  <2>3. S \subseteq Names(columns)
    BY DEF Put, Take, Columns, Names
  <2>4. Filled(e, t)
    <3> SUFFICES ASSUME NEW i \in DOMAIN Rows(d, t), NEW y \in columns.required \cup columns.defaulted
                 PROVE  Rows(e, t)[i][y] # Null
      BY <2>2 DEF Filled, Changed
    <3>1. Filled(d, t)  BY <2>1 DEF Good, Sound
    <3>2. CASE y \in (Cols(d, t).required \cup Cols(d, t).defaulted) \ {c}
      <4>1. y \in S  BY <3>2 DEF Names
      <4>2. QED  BY <2>2, <3>1, <3>2, <4>1 DEF Filled, Carried
    <3>3. CASE y \notin (Cols(d, t).required \cup Cols(d, t).defaulted) \ {c}
      <4>1. y = x /\ kind # "nullable"  BY <3>3 DEF Put, Take, Columns
      <4>2. c \in Cols(d, t).required \cup Cols(d, t).defaulted
        BY <2>1, <4>1 DEF KindOf, Names
      <4>3. QED  BY <2>2, <3>1, <4>1, <4>2 DEF Filled, Moved
    <3>4. QED  BY <3>2, <3>3
  <2>5. /\ \A u \in d.uniques : u.table = t => u.columns \subseteq S
        /\ \A key \in d.keys : key.table = t => key.column \in S
    BY <2>1 DEF Good, Placed, Constrainable
  <2> HIDE DEF columns, S
  <2>6. Good(e)  BY <2>1, <2>2, <2>3, <2>4, <2>5, ChangedGood
  <2>7. QED  BY <2>6 DEF Held, e
<1>3. QED  BY <1>1, <1>2

LEMMA AlterColumnHeld ==
    ASSUME NEW d, Held(d), NEW t, NEW c, NEW kind \in {"required", "defaulted", "nullable"}
    PROVE  Held(AlterColumn(d, t, c, kind))
<1> DEFINE e == AlterColumn(d, t, c, kind)
           guard == /\ d # Refused /\ Has(d, t, c)
                    /\ kind = "nullable" \/ \A i \in DOMAIN Rows(d, t) : Rows(d, t)[i][c] # Null
<1>1. CASE ~guard
  <2>1. e = Refused  BY <1>1 DEF AlterColumn, When
  <2>2. QED  BY <2>1 DEF Held
<1>2. CASE guard
  <2> DEFINE columns == Put(Take(Cols(d, t), c), kind, c)
             S == Names(Cols(d, t))
  <2>1. Good(d) /\ Proper(d) /\ t \in DOMAIN d.tables /\ c \in Names(Cols(d, t))
    BY <1>2 DEF Held, Good, Has, Exists
  <2>2. Changed(d, e, t, columns) /\ Carried(d, e, t, S)
    BY <1>2, <2>1, AlterColumnIs
  <2> HIDE DEF e
  <2>3. S \subseteq Names(columns)
    <3>1. Names(columns) = Names(Take(Cols(d, t), c)) \cup {c}  BY NamesPut
    <3>2. QED  BY <3>1, NamesTake
  <2>4. Filled(e, t)
    <3> SUFFICES ASSUME NEW i \in DOMAIN Rows(d, t), NEW y \in columns.required \cup columns.defaulted
                 PROVE  Rows(e, t)[i][y] # Null
      BY <2>2 DEF Filled, Changed
    <3>1. Filled(d, t)  BY <2>1 DEF Good, Sound
    <3>2. CASE y \in Cols(d, t).required \cup Cols(d, t).defaulted
      <4>1. y \in S  BY <3>2 DEF Names
      <4>2. QED  BY <2>2, <3>1, <3>2, <4>1 DEF Filled, Carried
    <3>3. CASE y \notin Cols(d, t).required \cup Cols(d, t).defaulted
      <4>1. y = c /\ kind # "nullable"  BY <3>3 DEF Put, Take, Columns
      <4>2. QED  BY <1>2, <2>1, <2>2, <4>1 DEF Carried
    <3>4. QED  BY <3>2, <3>3
  <2>5. /\ \A u \in d.uniques : u.table = t => u.columns \subseteq S
        /\ \A key \in d.keys : key.table = t => key.column \in S
    BY <2>1 DEF Good, Placed
  <2> HIDE DEF columns, S
  <2>6. Good(e)  BY <2>1, <2>2, <2>3, <2>4, <2>5, ChangedGood
  <2>7. QED  BY <2>6 DEF Held, e
<1>3. QED  BY <1>1, <1>2

LEMMA ChangeColumnHeld ==
    ASSUME NEW d, Held(d), NEW t, NEW c, NEW kind \in {"required", "defaulted", "nullable"}, NEW altered \in BOOLEAN
    PROVE  Held(ChangeColumn(d, t, c, kind, altered))
BY AlterColumnHeld, AddColumnHeld, DropColumnHeld DEF ChangeColumn

LEMMA RelaxedHeld == ASSUME inPlace \in BOOLEAN, NEW d, Held(d), NEW c PROVE Held(Relaxed(d, c))
<1>1. Altered(c) \in BOOLEAN  BY DEF Altered
<1>2. Held(ChangeColumn(d, "transactions", c, "nullable", Altered(c)))  BY <1>1, ChangeColumnHeld
<1>3. QED  BY <1>2 DEF Relaxed, Relax
LEMMA TightenedHeld == ASSUME inPlace \in BOOLEAN, NEW d, Held(d), NEW c PROVE Held(Tightened(d, c))
<1>1. Altered(c) \in BOOLEAN  BY DEF Altered
<1>2. QED  BY <1>1, ChangeColumnHeld DEF Tightened

LEMMA CreateTableHeld ==
    ASSUME NEW d, Held(d), NEW t, NEW columns
    PROVE  /\ Held(CreateTable(d, t, columns))
           /\ CreateTable(d, t, columns) # Refused =>
                \A c \in Names(columns) : Has(CreateTable(d, t, columns), t, c)
<1> DEFINE e == CreateTable(d, t, columns)
<1>1. CASE ~(d # Refused /\ ~Exists(d, t))
  <2>1. e = Refused  BY <1>1 DEF CreateTable, When
  <2>2. QED  BY <2>1 DEF Held
<1>2. CASE d # Refused /\ ~Exists(d, t)
  <2>1. Good(d) /\ Proper(d) /\ t \notin DOMAIN d.tables  BY <1>2 DEF Held, Good, Exists
  <2>2. /\ Proper(e) /\ DOMAIN e.tables = DOMAIN d.tables \cup {t} /\ Elsewhere(d, e, t)
        /\ e.uniques = d.uniques /\ e.keys = d.keys
        /\ Cols(e, t) = columns /\ DOMAIN Rows(e, t) = {}
    BY <2>1, CreateTableIs
  <2> HIDE DEF e
  <2>3. \A w \in DOMAIN d.tables : Cols(e, w) = Cols(d, w) /\ Rows(e, w) = Rows(d, w)
    BY <2>1, <2>2 DEF Elsewhere, Cols, Rows
  <2>4. Placed(e)  BY <2>1, <2>2, <2>3 DEF Good, Placed
  <2>5. ASSUME NEW w \in DOMAIN e.tables PROVE Filled(e, w)
    BY <2>1, <2>2, <2>3 DEF Good, Sound, Filled
  <2>6. ASSUME NEW u \in e.uniques PROVE Distinct(e, u)
    <3>1. Distinct(d, u) /\ u.table \in DOMAIN d.tables  BY <2>1, <2>2 DEF Good, Sound, Placed
    <3>2. QED  BY <2>3, <3>1 DEF Distinct
  <2>7. ASSUME NEW key \in e.keys PROVE Anchored(e, key)
    <3>1. Anchored(d, key) /\ {key.table, key.of} \subseteq DOMAIN d.tables
      BY <2>1, <2>2 DEF Good, Sound, Placed
    <3>2. QED  BY <2>3, <3>1 DEF Anchored
  <2>8. Good(e)  BY <2>2, <2>4, <2>5, <2>6, <2>7 DEF Good, Sound
  <2>9. \A c \in Names(columns) : Has(e, t, c)  BY <2>2 DEF Has, Exists
  <2>10. QED  BY <2>8, <2>9 DEF Held, e
<1>3. QED  BY <1>1, <1>2

LEMMA DropTableHeld == ASSUME NEW d, Held(d), NEW t PROVE Held(DropTable(d, t))
<1> DEFINE e == DropTable(d, t)
           guard == d # Refused /\ Exists(d, t) /\ \A key \in d.keys : key.of = t => key.table = t
<1>1. CASE ~guard
  <2>1. e = Refused  BY <1>1 DEF DropTable, When
  <2>2. QED  BY <2>1 DEF Held
<1>2. CASE guard
  <2>1. Good(d) /\ Proper(d) /\ t \in DOMAIN d.tables /\ \A key \in d.keys : key.of = t => key.table = t
    BY <1>2 DEF Held, Good, Exists
  <2>2. /\ Proper(e) /\ DOMAIN e.tables = DOMAIN d.tables \ {t} /\ Elsewhere(d, e, t)
        /\ e.uniques = {u \in d.uniques : u.table # t}
        /\ e.keys = {key \in d.keys : key.table # t}
    BY <2>1, DropTableIs
  <2> HIDE DEF e
  <2>3. \A w \in DOMAIN e.tables : w \in DOMAIN d.tables /\ Cols(e, w) = Cols(d, w) /\ Rows(e, w) = Rows(d, w)
    BY <2>2 DEF Elsewhere, Cols, Rows
  <2>4. Placed(e)  BY <2>1, <2>2, <2>3 DEF Good, Placed
  <2>5. ASSUME NEW w \in DOMAIN e.tables PROVE Filled(e, w)
    BY <2>1, <2>3 DEF Good, Sound, Filled
  <2>6. ASSUME NEW u \in e.uniques PROVE Distinct(e, u)
    <3>1. Distinct(d, u) /\ u.table \in DOMAIN e.tables  BY <2>1, <2>2, <2>4 DEF Good, Sound, Placed
    <3>2. QED  BY <2>3, <3>1 DEF Distinct
  <2>7. ASSUME NEW key \in e.keys PROVE Anchored(e, key)
    <3>1. Anchored(d, key) /\ {key.table, key.of} \subseteq DOMAIN e.tables
      BY <2>1, <2>2, <2>4 DEF Good, Sound, Placed
    <3>2. QED  BY <2>3, <3>1 DEF Anchored
  <2>8. Good(e)  BY <2>2, <2>4, <2>5, <2>6, <2>7 DEF Good, Sound
  <2>9. QED  BY <2>8 DEF Held, e
<1>3. QED  BY <1>1, <1>2

LEMMA AddUniqueHeld ==
    ASSUME NEW d, Held(d), NEW t, NEW columns, columns # {}, \A c \in columns : Constrainable(t, c),
           d # Refused => \A c \in columns : Has(d, t, c)
    PROVE  Held(AddUnique(d, t, columns))
<1> DEFINE e == AddUnique(d, t, columns)
           unique == UniqueOf(t, columns)
<1>1. CASE ~(d # Refused /\ Distinct(d, unique))
  <2>1. e = Refused  BY <1>1 DEF AddUnique, When, UniqueOf
  <2>2. QED  BY <2>1 DEF Held
<1>2. CASE d # Refused /\ Distinct(d, unique)
  <2>1. Good(d) /\ Proper(d)  BY <1>2 DEF Held, Good
  <2>2. Constrained(d, e, d.uniques \cup {unique}, d.keys)
    BY <1>2, <2>1, AddUniqueIs DEF UniqueOf
  <2> HIDE DEF e
  <2>3. t \in DOMAIN d.tables /\ columns \subseteq Names(Cols(d, t))  BY <1>2 DEF Has, Exists
  <2>4. /\ unique.table = t /\ unique.columns = columns  BY DEF UniqueOf
  <2> HIDE DEF unique
  <2>5. Placed(e)  BY <2>1, <2>2, <2>3, <2>4 DEF Good, Placed, Constrained, Cols
  <2>6. Sound(e)
    <3>1. \A w : Filled(e, w) = Filled(d, w)  BY <2>2 DEF Constrained, Filled, Rows, Cols
    <3>2. \A u : Distinct(e, u) = Distinct(d, u)  BY <2>2 DEF Constrained, Distinct, Rows
    <3>3. \A key : Anchored(e, key) = Anchored(d, key)  BY <2>2 DEF Constrained, Anchored, Rows
    <3>4. QED  BY <1>2, <2>1, <2>2, <3>1, <3>2, <3>3 DEF Constrained, Good, Sound
  <2>7. QED  BY <2>2, <2>5, <2>6 DEF Held, Good, Constrained, e
<1>3. QED  BY <1>1, <1>2

LEMMA AddKeyHeld ==
    ASSUME NEW d, Held(d), NEW t, NEW c, Constrainable(t, c), NEW of, NEW rule
    PROVE  Held(AddKey(d, t, c, of, rule))
<1> DEFINE e == AddKey(d, t, c, of, rule)
           key == KeyOf(t, c, of, rule)
           guard == d # Refused /\ Exists(d, of) /\ Has(d, t, c) /\ Anchored(d, key)
<1>1. CASE ~guard
  <2>1. e = Refused  BY <1>1 DEF AddKey, When, KeyOf
  <2>2. QED  BY <2>1 DEF Held
<1>2. CASE guard
  <2>1. Good(d) /\ Proper(d)  BY <1>2 DEF Held, Good
  <2>2. e = Database(d.tables, d.uniques, d.keys \cup {key})
    BY <1>2 DEF AddKey, When, KeyOf
  <2>3. Proper(e) /\ e.tables = d.tables /\ e.uniques = d.uniques /\ e.keys = d.keys \cup {key}
    BY <2>1, <2>2, ConstraintsSet, Fields
  <2> HIDE DEF e
  <2>4. {t, of} \subseteq DOMAIN d.tables /\ c \in Names(Cols(d, t))  BY <1>2 DEF Has, Exists
  <2>5. key.table = t /\ key.column = c /\ key.of = of  BY DEF KeyOf
  <2> HIDE DEF key
  <2>6. Placed(e)  BY <2>1, <2>3, <2>4, <2>5 DEF Good, Placed, Cols
  <2>7. Sound(e)
    <3>1. \A w : Filled(e, w) = Filled(d, w)  BY <2>3 DEF Filled, Rows, Cols
    <3>2. \A u : Distinct(e, u) = Distinct(d, u)  BY <2>3 DEF Distinct, Rows
    <3>3. \A k : Anchored(e, k) = Anchored(d, k)  BY <2>3 DEF Anchored, Rows
    <3>4. QED  BY <1>2, <2>1, <2>3, <3>1, <3>2, <3>3 DEF Good, Sound
  <2>8. QED  BY <2>3, <2>6, <2>7 DEF Held, Good, e
<1>3. QED  BY <1>1, <1>2

LEMMA DropUniqueHeld == ASSUME NEW d, Held(d), NEW t, NEW columns PROVE Held(DropUnique(d, t, columns))
<1>1. CASE d = Refused  BY <1>1 DEF DropUnique, When, Held
<1>2. CASE d # Refused
  <2>1. Good(d)  BY <1>2 DEF Held
  <2>2. DropUnique(d, t, columns) = Database(d.tables, d.uniques \ {UniqueOf(t, columns)}, d.keys)
    BY <1>2 DEF DropUnique, When, UniqueOf
  <2>3. QED  BY <2>1, <2>2, FewerGood DEF Held
<1>3. QED  BY <1>1, <1>2
LEMMA DropKeyHeld == ASSUME NEW d, Held(d), NEW t, NEW c PROVE Held(DropKey(d, t, c))
<1>1. CASE d = Refused  BY <1>1 DEF DropKey, When, Held
<1>2. CASE d # Refused
  <2>1. Good(d)  BY <1>2 DEF Held
  <2>2. DropKey(d, t, c) = Database(d.tables, d.uniques, {k \in d.keys : ~(k.table = t /\ k.column = c)})
    BY <1>2 DEF DropKey, When
  <2>3. QED  BY <2>1, <2>2, FewerGood DEF Held
<1>3. QED  BY <1>1, <1>2

-----------------------------------------------------------------------------
(* Migrations leave no constraint broken *)

\* A new table with its unique index.
LEMMA NewUniqueHeld ==
    ASSUME NEW d, Held(d), NEW t, NEW columns, NEW c \in Names(columns), Constrainable(t, c)
    PROVE  Held(AddUnique(CreateTable(d, t, columns), t, {c}))
BY CreateTableHeld, AddUniqueHeld

LEMMA InitialUpHeld == ASSUME NEW d, Held(d) PROVE Held(InitialUp(d))
<1>1. ASSUME NEW x, Held(x) PROVE Held(BusinessesUp(x))
  <2>1. "name" \in Names(Columns({"name"}, {"createdAt"}, {}))  BY DEF Names, Columns
  <2>2. QED  BY <1>1, <2>1, NewUniqueHeld DEF BusinessesUp, Constrainable
<1>2. ASSUME NEW x, Held(x) PROVE Held(ManagersUp(x))
  <2>1. "email" \in Names(ManagerColumns)  BY DEF Names, Columns, ManagerColumns
  <2>2. Held(AddUnique(CreateTable(x, "managers", ManagerColumns), "managers", {"email"}))
    BY <1>2, <2>1, NewUniqueHeld DEF Constrainable
  <2>3. QED  BY <2>2, AddKeyHeld DEF ManagersUp, ManagerColumns, Constrainable
<1>3. ASSUME NEW x, Held(x) PROVE Held(TransactionsUp(x))
  BY <1>3, CreateTableHeld DEF TransactionsUp
<1>4. ASSUME NEW x, Held(x) PROVE Held(EditLogsUp(x))
  <2>1. Held(CreateTable(x, "edit_logs", EditLogColumns))  BY <1>4, CreateTableHeld
  <2>2. QED  BY <2>1, AddKeyHeld DEF EditLogsUp, EditLogColumns, Constrainable
<1>5. QED  BY <1>1, <1>2, <1>3, <1>4 DEF InitialUp

LEMMA InitialDownHeld == ASSUME NEW d, Held(d) PROVE Held(InitialDown(d))
<1> DEFINE d1 == DropTable(DropKey(d, "edit_logs", "transactionId"), "edit_logs")
           d2 == DropTable(d1, "transactions")
           d3 == DropTable(DropKey(d2, "managers", "businessId"), "managers")
<1>1. Held(d1)  BY DropKeyHeld, DropTableHeld
<1>2. InitialDown(d) = DropTable(d3, "businesses")  BY DEF InitialDown
<1> HIDE DEF d1
<1>3. Held(d2)  BY <1>1, DropTableHeld
<1> HIDE DEF d2
<1>4. Held(d3)  BY <1>3, DropKeyHeld, DropTableHeld
<1> HIDE DEF d3
<1>5. QED  BY <1>2, <1>4, DropTableHeld

LEMMA MultiTenancyUpHeld ==
    ASSUME inPlace \in BOOLEAN, NEW d, Held(d) PROVE Held(MultiTenancyUp(d))
<1>1. ASSUME NEW x, Held(x) PROVE Held(UsersUp(x))
  <2> DEFINE columns == Columns({"telegramUserId", "displayName", "role"}, {"createdAt"}, {"businessId", "removedAt"})
  <2>1. "telegramUserId" \in Names(columns)  BY DEF Names, Columns
  <2> HIDE DEF columns
  <2>2. Held(AddUnique(CreateTable(x, "users", columns), "users", {"telegramUserId"}))
    BY <1>1, <2>1, NewUniqueHeld DEF Constrainable
  <2>3. QED  BY <2>2, AddKeyHeld DEF UsersUp, Constrainable, columns
<1>2. ASSUME NEW x, Held(x) PROVE Held(InvitesUp(x))
  <2> DEFINE d2 == AddUnique(CreateTable(x, "invites", InviteColumns), "invites", {"inviteeTelegramId"})
             d3 == AddKey(d2, "invites", "businessId", "businesses", "CASCADE")
  <2>1. "inviteeTelegramId" \in Names(InviteColumns)  BY DEF Names, Columns, InviteColumns
  <2>2. InvitesUp(x) = AddKey(d3, "invites", "createdByUserId", "users", "CASCADE")
    BY DEF InvitesUp, InviteColumns
  <2>3. Held(d2)  BY <1>2, <2>1, NewUniqueHeld DEF Constrainable
  <2> HIDE DEF d2
  <2>4. Held(d3)  BY <2>3, AddKeyHeld DEF Constrainable
  <2> HIDE DEF d3
  <2>5. QED  BY <2>2, <2>4, AddKeyHeld DEF Constrainable
<1>3. ASSUME NEW x, Held(x) PROVE Held(BusinessColumnsUp(x))
  BY <1>3, DropUniqueHeld, AddColumnHeld DEF BusinessColumnsUp, StatusKind
<1>4. ASSUME NEW x, Held(x) PROVE Held(OwnersUp(x))
  BY <1>4, AddColumnHeld DEF OwnersUp
<1>5. ASSUME NEW x, Held(x) PROVE Held(StatusUp(x))
  BY <1>5, AddColumnHeld DEF StatusUp, StatusKind
<1>6. ASSUME NEW x, Held(x) PROVE Held(RelaxUp(x))
  BY <1>6, RelaxedHeld DEF RelaxUp
<1>7. ASSUME NEW x, Held(x) PROVE Held(ImageUp(x))
  BY <1>7, RenameColumnHeld DEF ImageUp, Images
<1>8. ASSUME NEW x, Held(x) PROVE Held(KeysUp(x))
  BY <1>8, AddKeyHeld DEF KeysUp, Constrainable, Images
<1>9. Held(OwnersUp(BusinessColumnsUp(InvitesUp(UsersUp(d)))))
  BY <1>1, <1>2, <1>3, <1>4
<1>10. QED  BY <1>5, <1>6, <1>7, <1>8, <1>9 DEF MultiTenancyUp

LEMMA MultiTenancyDownHeld ==
    ASSUME inPlace \in BOOLEAN, NEW d, Held(d) PROVE Held(MultiTenancyDown(d))
<1>1. ASSUME NEW x, Held(x) PROVE Held(KeysDown(x))
  BY <1>1, DropKeyHeld DEF KeysDown
<1>2. ASSUME NEW x, Held(x) PROVE Held(ImageDown(x))
  BY <1>2, RenameColumnHeld DEF ImageDown, Images
<1>3. ASSUME NEW x, Held(x) PROVE Held(StatusDown(x))
  BY <1>3, DropColumnHeld DEF StatusDown
<1>4. ASSUME NEW x, Held(x) PROVE Held(OwnersDown(x))
  BY <1>4, DropColumnHeld DEF OwnersDown
<1>5. ASSUME NEW x, Held(x) PROVE Held(TightenDown(x))
  BY <1>5, TightenedHeld DEF TightenDown
<1>6. ASSUME NEW x, Held(x) PROVE Held(BusinessColumnsDown(x))
  BY <1>6, DropColumnHeld DEF BusinessColumnsDown
<1>7. ASSUME NEW x, Held(x) PROVE Held(TenancyTablesDown(x))
  <2> DEFINE d1 == DropKey(DropKey(x, "invites", "businessId"), "invites", "createdByUserId")
             d2 == DropTable(d1, "invites")
  <2>1. TenancyTablesDown(x) = DropTable(DropKey(d2, "users", "businessId"), "users")
    BY DEF TenancyTablesDown
  <2>2. Held(d1)  BY <1>7, DropKeyHeld
  <2> HIDE DEF d1
  <2>3. Held(d2)  BY <2>2, DropTableHeld
  <2> HIDE DEF d2
  <2>4. QED  BY <2>1, <2>3, DropKeyHeld, DropTableHeld
<1>8. Held(OwnersDown(StatusDown(ImageDown(KeysDown(d)))))  BY <1>1, <1>2, <1>3, <1>4
<1>9. QED  BY <1>5, <1>6, <1>7, <1>8 DEF MultiTenancyDown

LEMMA FileIdUpHeld ==
    ASSUME NEW d, Held(d), Has(d, "transactions", "businessId") PROVE Held(FileIdUp(d))
<1> DEFINE t == "transactions"
           e == AddColumn(d, t, "fileUniqueId", "nullable")
           columns == {"businessId", "fileUniqueId"}
<1>1. Held(e) /\ (e # Refused => Has(e, t, "businessId"))  BY AddColumnHeld
<1>2. e # Refused => Has(e, t, "fileUniqueId")
  <2> SUFFICES ASSUME e # Refused PROVE Has(e, t, "fileUniqueId")
    OBVIOUS
  <2>1. d # Refused /\ Exists(d, t) /\ ~Has(d, t, "fileUniqueId")  BY DEF AddColumn, When
  <2>2. Proper(d) /\ t \in DOMAIN d.tables /\ "fileUniqueId" \notin Names(Cols(d, t))
    BY <2>1 DEF Held, Good, Exists, Has
  <2>3. Changed(d, e, t, Put(Cols(d, t), "nullable", "fileUniqueId"))
    BY <2>2, AddColumnIs
  <2> HIDE DEF e
  <2>4. "fileUniqueId" \in Names(Cols(e, t)) /\ t \in DOMAIN e.tables
    BY <2>2, <2>3, NamesPut DEF Changed
  <2>5. QED  BY <2>4 DEF Has, Exists
<1>3. FileIdUp(d) = AddUnique(e, t, columns)  BY DEF FileIdUp
<1> HIDE DEF e
<1>4. QED  BY <1>1, <1>2, <1>3, AddUniqueHeld DEF Constrainable, Images

LEMMA AddMissingHeld ==
    ASSUME NEW d, Held(d), NEW t, NEW c, NEW kind \in {"required", "defaulted", "nullable"}
    PROVE  Held(AddMissing(d, t, c, kind))
BY AddColumnHeld DEF AddMissing
LEMMA DropPresentHeld == ASSUME NEW d, Held(d), NEW t, NEW c PROVE Held(DropPresent(d, t, c))
BY DropColumnHeld DEF DropPresent

LEMMA UpHeld ==
    ASSUME inPlace \in BOOLEAN, NEW k \in 1..5, NEW d, At(k - 1, d), Good(d) PROVE Good(Up(k, d))
<1>1. Held(d)  BY DEF Held
<1>2. At(k, Up(k, d))  BY UpIs
<1>3. Held(Up(k, d))
  <2>1. CASE k = 1  BY <1>1, <2>1, InitialUpHeld DEF Up
  <2>2. CASE k = 2  BY <1>1, <2>2, MultiTenancyUpHeld DEF Up
  <2>3. CASE k = 3
    <3>1. AtLater(2, d)  BY <2>3, Levels
    <3>2. Has(d, "transactions", "businessId")
      BY <3>1 DEF AtLater, Has, Exists, Names, TransactionColumns, Columns, FirstTables
    <3>3. QED  BY <1>1, <2>3, <3>2, FileIdUpHeld DEF Up
  <2>4. CASE k = 4  BY <1>1, <2>4, AddMissingHeld DEF Up, LanguageUp
  <2>5. CASE k = 5  BY <1>1, <2>5, AddMissingHeld DEF Up, ReasonUp
  <2>6. QED  BY <2>1, <2>2, <2>3, <2>4, <2>5
<1>4. Up(k, d) # Refused  BY <1>2, Levels, NotRefused
<1>5. QED  BY <1>3, <1>4 DEF Held

LEMMA DownHeld ==
    ASSUME inPlace \in BOOLEAN, NEW k \in 1..5, NEW d, Good(d) PROVE Held(Down(k, d))
<1>1. Held(d)  BY DEF Held
<1>2. CASE k = 1  BY <1>1, <1>2, InitialDownHeld DEF Down
<1>3. CASE k = 2  BY <1>1, <1>3, MultiTenancyDownHeld DEF Down
<1>4. CASE k = 3
  <2>1. Held(FileIdDown(d))  BY <1>1, DropUniqueHeld, DropColumnHeld DEF FileIdDown
  <2>2. QED  BY <1>4, <2>1 DEF Down
<1>5. CASE k = 4  BY <1>1, <1>5, DropPresentHeld DEF Down, LanguageDown
<1>6. CASE k = 5  BY <1>1, <1>6, DropPresentHeld DEF Down, ReasonDown
<1>7. QED  BY <1>2, <1>3, <1>4, <1>5, <1>6

LEMMA PendingGood ==
    ASSUME DbInv, NEW n \in 1..5, applied < n, NEW k \in 1..5, NEW d, Good(d),
           At(IF k <= n THEN Level(k - 1) ELSE n, d)
    PROVE  Good(Pending(k, n, d))
<1>1. applied \in 0..5 /\ inPlace \in BOOLEAN  BY DEF DbInv, Latest
<1>2. CASE applied < k /\ k <= n
  <2>1. Pending(k, n, d) = Up(k, d)  BY <1>2 DEF Pending
  <2>2. Level(k - 1) = k - 1  BY <1>1, <1>2 DEF Level
  <2>3. At(k - 1, d)  BY <1>2, <2>2
  <2>4. QED  BY <1>1, <2>1, <2>3, UpHeld
<1>3. CASE ~(applied < k /\ k <= n)  BY <1>3 DEF Pending
<1>4. QED  BY <1>2, <1>3

LEMMA UpgradedGood ==
    ASSUME DbInv, Good(db), NEW n \in 1..5, applied < n PROVE Good(Upgraded(n))
<1> DEFINE d1 == Pending(1, n, db)
           d2 == Pending(2, n, d1)
           d3 == Pending(3, n, d2)
           d4 == Pending(4, n, d3)
           d5 == Pending(5, n, d4)
           m(k) == IF k < n THEN Level(k) ELSE n
           s(k) == IF k <= n THEN Level(k - 1) ELSE n
           Saved(d) == applied > 0 => Kept(db, d)
<1>1. applied \in 0..5 /\ At(applied, db)  BY DEF DbInv, Latest
<1>2. s(1) = applied /\ s(2) = m(1) /\ s(3) = m(2) /\ s(4) = m(3) /\ s(5) = m(4)
  BY <1>1 DEF Level
<1>3. Upgraded(n) = d5  BY DEF Upgraded
<1> HIDE DEF d1, d2, d3, d4, d5, m, s
<1>4. Kept(db, db)  BY DEF Kept
<1>5. At(m(1), d1) /\ Saved(d1) /\ Good(d1)
  BY <1>1, <1>2, <1>4, PendingIs, PendingGood DEF d1, m, s
<1>6. At(m(2), d2) /\ Saved(d2) /\ Good(d2)
  BY <1>2, <1>5, PendingIs, PendingGood DEF d2, m, s
<1>7. At(m(3), d3) /\ Saved(d3) /\ Good(d3)
  BY <1>2, <1>6, PendingIs, PendingGood DEF d3, m, s
<1>8. At(m(4), d4) /\ Saved(d4) /\ Good(d4)
  BY <1>2, <1>7, PendingIs, PendingGood DEF d4, m, s
<1>9. Good(d5)
  BY <1>2, <1>8, PendingGood DEF d5, s
<1>10. QED  BY <1>3, <1>9

-----------------------------------------------------------------------------
(* So do rows that come and go *)

LEMMA SamePlaces == ASSUME NEW d, NEW e, SameSchema(d, e), Placed(d) PROVE Placed(e)
BY DEF SameSchema, Placed

\* Only transactions are erased: the rows that refer to one go with it.
LEMMA ErasedSound ==
    ASSUME NEW d, Good(d), NEW i,
           \A key \in d.keys :
             /\ key.of # "edit_logs"
             /\ key.of = "transactions" => key.table = "edit_logs" /\ key.onDelete = "CASCADE"
    PROVE  Sound(Delete(d, "transactions", i))
<1> DEFINE t == "transactions"
           e == Delete(d, t, i)
           left(u) == DOMAIN Rows(d, u) \ Gone(d, t, i, u)
<1>1. ASSUME NEW u \in DOMAIN d.tables
      PROVE  /\ Cols(e, u) = Cols(d, u) /\ DOMAIN Rows(e, u) = left(u)
             /\ \A j \in left(u) : Rows(e, u)[j] = Rows(d, u)[j]
  <2>1. e.tables[u] = [columns |-> Cols(d, u), rows |-> Restrict(Rows(d, u), left(u))]
    BY DEF Delete, Database
  <2> DEFINE rows == Restrict(Rows(d, u), left(u))
             columns == Cols(d, u)
  <2>2. DOMAIN rows = left(u) /\ \A j \in left(u) : rows[j] = Rows(d, u)[j]
    BY DEF Restrict
  <2>3. e.tables[u] = [columns |-> columns, rows |-> rows]  BY <2>1
  <2> HIDE DEF rows, columns, e
  <2>4. Cols(e, u) = columns /\ Rows(e, u) = rows  BY <2>3 DEF Cols, Rows
  <2>5. QED  BY <2>2, <2>4 DEF columns
<1>2. SameSchema(d, e)  BY DeleteIs DEF Good
<1>3. \A u : left(u) \subseteq DOMAIN Rows(d, u)  OBVIOUS
<1> HIDE DEF e
<1>4. ASSUME NEW u \in DOMAIN e.tables PROVE Filled(e, u)
  <2>1. u \in DOMAIN d.tables /\ Filled(d, u)  BY <1>2 DEF SameSchema, Good, Sound
  <2> HIDE DEF left
  <2>2. QED  BY <1>1, <1>3, <2>1 DEF Filled
<1>5. ASSUME NEW u \in e.uniques PROVE Distinct(e, u)
  <2>1. Distinct(d, u) /\ u.table \in DOMAIN d.tables  BY <1>2 DEF SameSchema, Good, Sound, Placed
  <2> HIDE DEF left
  <2>2. QED  BY <1>1, <1>3, <2>1 DEF Distinct
<1>6. ASSUME NEW key \in e.keys PROVE Anchored(e, key)
  <2>1. /\ Anchored(d, key) /\ {key.table, key.of} \subseteq DOMAIN d.tables /\ key \in d.keys
    BY <1>2 DEF SameSchema, Good, Sound, Placed
  <2> SUFFICES ASSUME NEW j \in left(key.table), Rows(d, key.table)[j][key.column] # Null
               PROVE  Rows(d, key.table)[j][key.column] \in left(key.of)
    <3>1. /\ DOMAIN Rows(e, key.table) = left(key.table) /\ DOMAIN Rows(e, key.of) = left(key.of)
          /\ \A j \in left(key.table) : Rows(e, key.table)[j] = Rows(d, key.table)[j]
      BY <1>1, <2>1
    <3> HIDE DEF left
    <3>2. QED  BY <3>1 DEF Anchored
  <2> DEFINE r == Rows(d, key.table)[j][key.column]
  <2>2. r \in DOMAIN Rows(d, key.of)  BY <2>1 DEF Anchored
  <2>3. CASE key.of = t
    <3>1. r # i
      <4>1. key.table # t /\ key \in {k \in d.keys : k.table = key.table /\ k.of = t /\ k.onDelete = "CASCADE"}
        BY <2>1, <2>3
      <4>2. j \notin Referring(d, i, key)  BY <4>1 DEF Gone
      <4>3. QED  BY <4>2 DEF Referring
    <3>2. Gone(d, t, i, t) \subseteq {i}
      BY DEF Gone
    <3>3. QED  BY <2>2, <2>3, <3>1, <3>2
  <2>4. CASE key.of # t
    <3>1. \A k \in d.keys : ~(k.table = key.of /\ k.of = t)  BY <2>1
    <3>2. Gone(d, t, i, key.of) = {}  BY <2>4, <3>1 DEF Gone
    <3>3. QED  BY <2>2, <3>2
  <2>5. QED  BY <2>3, <2>4
<1>7. QED  BY <1>4, <1>5, <1>6 DEF Sound, e

LEMMA KeysNow ==
    ASSUME DbInv
    PROVE  \A key \in db.keys :
             /\ key.of # "edit_logs"
             /\ key.of = "transactions" => key.table = "edit_logs" /\ key.onDelete = "CASCADE"
<1>1. applied \in 0..5 /\ At(applied, db)  BY DEF DbInv, Latest
<1>2. CASE applied = 0  BY <1>1, <1>2 DEF At
<1>3. CASE applied = 1
  <2>1. db.keys = FirstKeys  BY <1>1, <1>3, Levels DEF AtFirst
  <2>2. QED  BY <2>1 DEF FirstKeys, KeyOf
<1>4. CASE applied \in 2..5
  <2>1. db.keys = FirstKeys \cup NewKeys \cup TransactionKeys  BY <1>1, <1>4, Levels DEF AtLater
  <2>2. QED  BY <2>1 DEF FirstKeys, NewKeys, TransactionKeys, KeyOf
<1>5. QED  BY <1>1, <1>2, <1>3, <1>4

\* Every row has just the columns of its table, and no migration, revert or write
\* leaves a required column empty, two rows alike under a unique index or a reference
\* that leads nowhere.
THEOREM DbTypeCorrect == DbSpec => []DbTypeOK
<1>1. DbInit => Good(db)
  <2> SUFFICES ASSUME DbInit PROVE Good(db)
    OBVIOUS
  <2>1. db = Database([t \in {} |-> {}], {}, {})  BY DEF DbInit, EmptyDatabase
  <2>2. db.tables = [t \in {} |-> {}] /\ db.uniques = {} /\ db.keys = {}  BY <2>1, Fields
  <2>3. Proper(db) /\ DOMAIN db.tables = {}  BY <2>1, <2>2 DEF Proper
  <2>4. QED  BY <2>2, <2>3 DEF Good, Placed, Sound
<1>2. DbInv /\ Good(db) /\ [DbNext]_dbVars => Good(db)'
  <2> SUFFICES ASSUME DbInv, Good(db), [DbNext]_dbVars PROVE Good(db')
    OBVIOUS
  <2>1. applied \in 0..5 /\ inPlace \in BOOLEAN /\ Proper(db) /\ Placed(db)
    BY DEF DbInv, Latest, Good
  <2>2. CASE UNCHANGED dbVars  BY <2>2 DEF dbVars
  <2>3. ASSUME NEW n \in 1..Latest, Run(n) PROVE Good(db')
    BY <2>3, UpgradedGood DEF Run, Latest
  <2>4. CASE Revert
    <3>1. applied \in 1..5 /\ db' = Down(applied, db) /\ db' # Refused
      BY <2>1, <2>4 DEF Revert, Downgraded
    <3>2. QED  BY <2>1, <3>1, DownHeld DEF Held
  <2>5. ASSUME NEW t \in Tables, NEW i \in Ids, NEW bare \in BOOLEAN, Write(t, i, bare) PROVE Good(db')
    <3> DEFINE row == NewRow(t, i, bare)
    <3>1. t \in DOMAIN db.tables /\ Insert(db, t, i, row) # Refused /\ db' = Insert(db, t, i, row)
      BY <2>5 DEF Write, Exists
    <3>2. DOMAIN row = Names(Cols(db, t))  BY DEF NewRow
    <3> HIDE DEF row
    <3>3. SameSchema(db, db')  BY <2>1, <3>1, <3>2, InsertIs
    <3>4. Sound(db')  BY <3>1 DEF Insert, When
    <3>5. QED  BY <2>1, <3>3, <3>4, SamePlaces DEF Good, SameSchema
  <2>6. ASSUME NEW i \in Ids, Erase(i) PROVE Good(db')
    <3>1. db' = Delete(db, "transactions", i)  BY <2>6 DEF Erase
    <3>2. SameSchema(db, db')  BY <2>1, <3>1, DeleteIs
    <3>3. Sound(db')  BY <3>1, KeysNow, ErasedSound
    <3>4. QED  BY <2>1, <3>2, <3>3, SamePlaces DEF Good, SameSchema
  <2>7. QED  BY <2>2, <2>3, <2>4, <2>5, <2>6 DEF DbNext
<1>3. DbInv /\ Good(db) => DbTypeOK
  <2> SUFFICES ASSUME DbInv, Good(db) PROVE DbTypeOK
    OBVIOUS
  <2>1. applied \in 0..Latest /\ inPlace \in BOOLEAN /\ At(applied, db)  BY DEF DbInv
  <2>2. applied = 0 => DOMAIN db.tables = {}  BY <2>1 DEF At
  <2>3. applied = 1 => DOMAIN db.tables = FirstTables  BY <2>1, Levels DEF AtFirst
  <2>4. applied \in 2..5 => DOMAIN db.tables = FirstTables \cup {"users", "invites"}
    BY <2>1, Levels DEF AtLater
  <2>5. DOMAIN db.tables \subseteq Tables  BY <2>1, <2>2, <2>3, <2>4 DEF Latest, Tables, FirstTables
  <2>6. QED  BY <2>1, <2>5 DEF DbTypeOK, Good, Proper
<1>4. QED  BY <1>1, <1>2, <1>3, DbInductive, PTL DEF DbSpec
=============================================================================
