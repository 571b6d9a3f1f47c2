----------------------------- MODULE MCListQuery -----------------------------
(* TLC instance of ListQuery: four profiles, with equal ages, fractions of *)
(* a second that begin one another, and a probability between two that     *)
(* round alike; a 4-bit int that pages overflow.                           *)
EXTENDS ListQuery

Profile(gender, age, prob, sec, frac) ==
    [gender |-> gender, age |-> age, prob |-> prob, sec |-> sec, frac |-> frac]

MCRow == <<Profile("male", 20, 31, 9, <<1>>), Profile("female", 20, 33, 9, <<1, 2>>),
           Profile("male", 30, 50, 10, << >>), Profile("male", 20, 34, 10, <<5>>)>>

Good == [gender : {"", "male", "Male"}, minAge : {Absent}, minProb : {Absent, 30, 32},
         sortBy : {"", "age"}, order : {"", "desc"}, page : {1, 2, 7},
         limit : {Absent, 5}]

(* One parameter at a time that is refused, or spelled out by default. *)
Plain == [gender |-> "", minAge |-> Absent, minProb |-> Absent, sortBy |-> "",
          order |-> "", page |-> Absent, limit |-> Absent]

MCRaws ==
    Good \cup
    {Plain, [Plain EXCEPT !.gender = "other"], [Plain EXCEPT !.sortBy = "name"],
     [Plain EXCEPT !.sortBy = "created_at"], [Plain EXCEPT !.minAge = 21],
     [Plain EXCEPT !.minAge = -2], [Plain EXCEPT !.minProb = 101],
     [Plain EXCEPT !.minProb = -3], [Plain EXCEPT !.minProb = NaN], [Plain EXCEPT !.order = "up"],
     [Plain EXCEPT !.order = "asc"], [Plain EXCEPT !.page = 0],
     [Plain EXCEPT !.page = 6, !.limit = 3], [Plain EXCEPT !.page = 8], [Plain EXCEPT !.limit = 0]}
=============================================================================
