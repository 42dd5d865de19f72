---------------------------- MODULE MCAdmission -----------------------------
(***************************************************************************)
(* A small instance of Admission: a listener and another bot besides       *)
(* Raydio, two channels, roles that open them and close them, and what     *)
(* YouTube may answer.                                                     *)
(***************************************************************************)
EXTENDS Admission, TLC

CONSTANTS ann, rival, raydio, lobby, den, everyone, dj, guest, first, second, play

AllUsers == {ann, rival, raydio}
AllBots == {rival, raydio}
TwoChannels == {lobby, den}
ThreeRoles == {everyone, dj, guest}
TwoSuggests == {first, second}
OnePlay == {play}

Nobody == [r \in Roles |-> NoOverwrite]
Nowhere == [u \in Users |-> NoOverwrite]

Open == [kind |-> "voice", user_limit |-> 0, of_role |-> Nobody, of_member |-> Nowhere]
Small == [Open EXCEPT !.user_limit = 1]
Stage == [Open EXCEPT !.kind = "other"]

\* Everyone is kept out but a role, which the bot has to be let speak.
Private ==
    [Open EXCEPT !.of_role = (everyone :> [allow |-> {}, deny |-> Needed])
                              @@ (dj :> [allow |-> {"view", "connect"}, deny |-> {}]) @@ @,
                 !.of_member = (raydio :> [allow |-> {"speak"}, deny |-> {}]) @@ @]

\* A role is let speak that another one is kept from.
Divided ==
    [Open EXCEPT !.of_role = (dj :> [allow |-> {"speak"}, deny |-> {}])
                              @@ (guest :> [allow |-> {}, deny |-> {"speak"}]) @@ @]

Changed == {Private, Small, Stage}
Given == {{}, {"administrator"}}

Beginnings ==
    {[owner |-> ann,
      channels |-> [c \in Channels |-> IF c = lobby THEN Open ELSE access],
      roles |-> [r \in Roles |-> IF r = everyone THEN Needed ELSE {}],
      bot_roles |-> held,
      voices |-> [u \in Users |-> IF u = ann THEN [channel |-> den, bot |-> FALSE]
                                  ELSE None]] :
        access \in {Private, Divided}, held \in {{}, {dj, guest}}}

Words == [song |-> [url |-> FALSE, youtube |-> FALSE,
                    list |-> FALSE, video |-> FALSE],
          Song |-> [url |-> FALSE, youtube |-> FALSE,
                    list |-> FALSE, video |-> FALSE],
          mix |-> [url |-> TRUE, youtube |-> TRUE,
                   list |-> TRUE, video |-> TRUE],
          site |-> [url |-> TRUE, youtube |-> FALSE,
                    list |-> FALSE, video |-> FALSE]]

Symmetry == Permutations(TwoSuggests)

LowerCase == [song |-> "song", Song |-> "song", mix |-> "mix", site |-> "site"]

Raw(name) == [name |-> name, wellformed |-> TRUE, blank |-> FALSE, long |-> FALSE,
              stream |-> FALSE, youtube |-> TRUE]

Found == {[type |-> "error", tracks |-> <<>>],
          [type |-> "search",
           tracks |-> <<[Raw("talk") EXCEPT !.youtube = FALSE], Raw("one"), Raw("two")>>],
          [type |-> "playlist",
           tracks |-> <<Raw("one"), [Raw("radio") EXCEPT !.stream = TRUE],
                        Raw("two"), Raw("three")>>]}
=============================================================================
