--------------------------- MODULE MCDeviceRoster ---------------------------
(* Three devices, at an open relay and at one that asks for sessions: all new, one with keys, one *)
(* with an account, two that share it or are about to, and a package of another account.         *)
EXTENDS DeviceRoster

NoUser == [invites |-> {}, codes |-> {}, packages |-> {}]
Nothing(auth) ==
    [authenticated |-> auth, relay |-> NewRelay, local |-> [d \in Device |-> NewLocal],
     user |-> NoUser, minted |-> 0, commands |-> 3]
\* Device 1 has run device-key init.
Keyed ==
    [Nothing(TRUE) EXCEPT !.local[1].keys = TRUE, !.local[1].ark = 1, !.minted = 1, !.commands = 2]

\* Account 1, whose root key and recovery code are 1 too, as Bootstrap leaves it on device 1.
Blob1 == [ark |-> 1, acct |-> 1, secret |-> 1]
Member(auth) ==
    [NewLocal EXCEPT !.keys = TRUE, !.ark = 1, !.id = 1, !.db = 1, !.server = TRUE,
                     !.session = IF auth THEN 1 ELSE None,
                     !.intent = IF auth THEN [flow |-> "create", acct |-> 1, active |-> TRUE] ELSE None]
Vouch(by, of) == [kind |-> "trust", by |-> by, of |-> of, epoch |-> 0]
Created(auth) ==
    [authenticated |-> auth,
     relay |-> [NewRelay EXCEPT !.records[1] = {1}, !.attests[1] = <<Vouch(1, 1)>>, !.recovery[1] = Blob1,
                                !.bound = IF auth THEN 1 ELSE None, !.live = IF auth THEN {1} ELSE {}],
     local |-> [d \in Device |-> IF d = 1 THEN [Member(auth) EXCEPT !.capture = Blob1] ELSE NewLocal],
     user |-> [NoUser EXCEPT !.codes = {1}], minted |-> 1, commands |-> 3]

\* Device 2 shares the account: it was recovered at an open relay.
Shared ==
    [Created(FALSE) EXCEPT !.relay.records[1] = {1, 2}, !.relay.attests[1] = <<Vouch(1, 1), Vouch(2, 2)>>,
                           !.local[2] = Member(FALSE), !.user.invites = {[acct |-> 1, by |-> 1]}]
\* Device 1 has revoked device 2, and the user holds a key package of another account.
Foreign ==
    [Shared EXCEPT !.user = [invites |-> {}, codes |-> {}, packages |-> {[ark |-> 2, id |-> 2]}], !.minted = 2,
        !.relay.wraps[1][1] = <<[kind |-> "epoch", ark |-> None, epoch |-> 1]>>,
        !.relay.attests[1] = Append(@, [kind |-> "revoke", by |-> 1, of |-> 2, epoch |-> 1]),
        !.local[1].epoch = 1, !.commands = 2]
\* Device 2 has logged in to join.
Joining ==
    [Created(TRUE) EXCEPT !.relay.live = {1, 2}, !.user.invites = {[acct |-> 1, by |-> 1]},
        !.local[2] = [NewLocal EXCEPT !.keys = TRUE, !.id = 1, !.session = 1,
                                      !.intent = [flow |-> "join", acct |-> 1, active |-> FALSE]]]

MCSetups == {[Nothing(FALSE) EXCEPT !.commands = 2], Keyed, [Created(TRUE) EXCEPT !.commands = 2], Shared, Foreign, Joining}
OpenSetups == {[Created(FALSE) EXCEPT !.commands = 4]}
=============================================================================
