----------------------------- MODULE MCNLSearch -----------------------------
(* TLC instance of NLSearch: two age groups whose words tie in length, two *)
(* aliases that tie, two names that tie, and texts that combine the        *)
(* wordings of bounds, with numbers on both sides of one another and of    *)
(* the largest int.                                                        *)
EXTENDS NLSearch

MCAgeGroupOf == ("child" :> "child") @@ ("adult" :> "adult") @@ ("adults" :> "adult")
MCCountryOf == ("us" :> "US") @@ ("uk" :> "GB") @@ ("drc" :> "CD")
MCCodeOf == ("ghana" :> "GH") @@ ("kenya" :> "KE") @@ ("india" :> "IN")
MCLength ==
    [w \in {"child", "adult", "ghana", "kenya", "india"} |-> 5] @@
    [w \in {"us", "uk"} |-> 2] @@ ("drc" :> 3) @@ ("adults" :> 6)

Plain ==
    [genders |-> {}, groups |-> {}, between |-> NoPair, range |-> NoPair,
     above |-> Absent, below |-> Absent, exact |-> Absent, young |-> FALSE,
     old |-> FALSE, places |-> {}, codes |-> << >>]

AgeTexts ==
    {[Plain EXCEPT !.between = b, !.above = a, !.below = u, !.young = "young" \in w,
                   !.old = "old" \in w, !.exact = e] :
        b \in {NoPair, <<30, 20>>}, a \in {Absent, 18, 25}, u \in {Absent, 22},
        w \in {{}, {"young"}, {"old"}}, e \in {Absent, 20}}

GroupTexts ==
    {[Plain EXCEPT !.groups = g] : g \in {{"child", "adult"}, {"child", "adult", "adults"}}}

PlaceTexts ==
    {[Plain EXCEPT !.places = p, !.codes = c] :
        p \in {{}, {"us", "uk"}, {"us", "drc"}, {"ghana", "kenya"}, {"us", "kenya"},
               {"india"}},
        c \in {<< >>, <<"IN", "KE">>, <<"OF", "KE">>}}

MCTexts ==
    AgeTexts \cup GroupTexts \cup PlaceTexts \cup
    {[Plain EXCEPT !.genders = {"male"}], [Plain EXCEPT !.genders = {"male", "female"}],
     [Plain EXCEPT !.range = <<20, 200>>], [Plain EXCEPT !.above = 200],
     [Plain EXCEPT !.above = 200, !.below = 22], [Plain EXCEPT !.exact = 200],
     [Plain EXCEPT !.young = TRUE, !.old = TRUE], [Plain EXCEPT !.old = TRUE, !.below = 70],
     [Plain EXCEPT !.between = <<30, 20>>, !.range = <<5, 10>>],
     [Plain EXCEPT !.genders = {"female"}, !.groups = {"adult"}, !.places = {"kenya"}]}
=============================================================================
