------------------------------ MODULE Jukebox ------------------------------
(***************************************************************************)
(* What the player promises about playlists, without saying how songs are  *)
(* numbered: there is an order in which the songs are played, a position   *)
(* in it, and the commands asked for are served one after another.  A      *)
(* selected song is the one started; next and previous move by one place;  *)
(* another shuffle mode changes the order around the current song; what    *)
(* the box does by itself after the end of a song is forgotten as soon as  *)
(* it serves a command of the listener.                                    *)
(*                                                                         *)
(* `excused' is raised in the situations in which the promise is not kept, *)
(* and nothing is promised after that.                                     *)
(***************************************************************************)
EXTENDS Integers, Sequences, Functions

CONSTANTS
    Lists,      \* the playlists, non-empty sequences of songs
    NoSong      \* nothing is heard

VARIABLES
    order,      \* the songs in the order they are played, <<>> before the first list
    pos,        \* the place of the current song, counted from 0
    heard,      \* the song being heard
    random,     \* the next song is drawn at random
    asked,      \* the commands not served yet: [cmd, song, auto]
    excused

vars == <<order, pos, heard, random, asked, excused>>

Places(list) == 0..(Len(list) - 1)
SongAt(list, i) == list[i + 1]

Reorderings(list) ==
    {[i \in 1..Len(list) |-> list[p[i]]] : p \in Bijection(1..Len(list), 1..Len(list))}

Init ==
    /\ order = <<>>
    /\ pos = -1
    /\ heard = NoSong
    /\ random = FALSE
    /\ asked = <<>>
    /\ excused = FALSE

Ask == \E new \in {1, 2} :
    /\ Len(asked') = Len(asked) + new
    /\ SubSeq(asked', 1, Len(asked)) = asked
    /\ \A i \in (Len(asked) + 1)..Len(asked') : ~asked'[i].auto
    /\ UNCHANGED <<order, pos, heard, random>>

\* A song ends by itself; the box may then ask for a command of its own.
End ==
    /\ heard # NoSong
    /\ heard' = NoSong
    /\ \/ asked' = asked
       \/ /\ Len(asked') = Len(asked) + 1
          /\ SubSeq(asked', 1, Len(asked)) = asked
          /\ asked'[Len(asked')].auto
          /\ asked'[Len(asked')].cmd \in {"next", "play"}
    /\ UNCHANGED <<order, pos, random>>

\* The song at the new place is started; its file may turn out unplayable.
Start == heard' \in {NoSong, SongAt(order', pos')}

Selected(song) ==
    /\ order' \in {order} \union UNION {Reorderings(list) : list \in Lists}
    /\ pos' \in Places(order')
    /\ SongAt(order', pos') = song
    /\ Start

Move(places) == pos' \in places /\ UNCHANGED order /\ Start

Stays == UNCHANGED <<order, pos>>

\* The same songs, and the current one stays current.
Reordered ==
    /\ UNCHANGED heard
    /\ order' \in Reorderings(order)
    /\ pos' \in Places(order')
    /\ SongAt(order', pos') = SongAt(order, pos)

Forward == {(pos + 1) % Len(order)}
Backward == {(pos - 1) % Len(order)}
Elsewhere == IF Len(order) = 1 THEN {pos} ELSE Places(order) \ {pos}

Effect(c) ==
    \/ c.cmd = "select" /\ Selected(c.song)
    \/ c.cmd = "next" /\ order # <<>> /\ Move(IF random THEN Elsewhere ELSE Forward)
    \/ c.cmd = "prev" /\ order # <<>> /\ Move(Backward)
    \/ c.cmd = "play" /\ order # <<>> /\ Move({pos})
    \/ c.cmd = "stop" /\ heard' = NoSong /\ Stays
    \/ c.cmd = "mode" /\ order # <<>> /\ Reordered
    \/ c.cmd # "select" /\ order = <<>> /\ UNCHANGED heard /\ Stays

\* What is left when the box forgets what it asked for by itself: the commands
\* of the listener, each of them once and in their order.
OfListener(commands) == {i \in DOMAIN commands : ~commands[i].auto}
Forgetting(commands, left) ==
    \E kept \in Bijection(DOMAIN left, OfListener(commands)) :
        /\ \A i \in DOMAIN left : left[i] = commands[kept[i]]
        /\ \A i, j \in DOMAIN left : i < j => kept[i] < kept[j]

Serve ==
    /\ asked # <<>>
    /\ Effect(Head(asked))
    /\ \/ Head(asked).cmd = "mode" /\ asked' = Tail(asked)
       \/ /\ Head(asked).cmd # "mode" /\ UNCHANGED random
          /\ Forgetting(Tail(asked), asked')

Next ==
    \/ ~excused /\ UNCHANGED excused /\ (Ask \/ End \/ Serve)
    \/ ~excused /\ excused'
    \/ excused /\ excused'

Spec == Init /\ [][Next]_vars
=============================================================================
