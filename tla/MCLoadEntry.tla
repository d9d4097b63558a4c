---------------------------- MODULE MCLoadEntry -----------------------------
(***************************************************************************)
(* Model-checks load_entry on one-entry crontabs: each line below, after  *)
(* nothing, a comment line or a blank line, and followed by nothing or by *)
(* a good entry (which a rejected line's recovery must not eat).          *)
(***************************************************************************)
EXTENDS LoadEntry

\* The lines, one per path through load_entry:
\*   (empty)            no entry at all
\*   0 0 * * 7 u c d\n  Sunday as 7
\*   -0 0 * * * u c\n   DONT_LOG option
\*   -                  option, then end of file
\*   @daily u c\n       macro
\*   @reboot n c\n      @reboot, user with a long home
\*   @bad u c\n         unknown macro
\*   @daily\n           macro without a command
\*   0 0 * * 5-1\n      reversed range at end of line
\*   0 0 * * */0\n      zero step at end of line
\*   0 0 * * *\n        premature end of line
\*   0 0 * * * * c\n    the common typo
\*   0 0 * * * z c\n    unknown user
\*   0 0 * * * u\n      no command after the user
\*   0 0 * * * u c      no newline at end of file
\*   60 0 * * * u c\n   minute out of range
MCLines == <<
    <<>>,
    <<"0"," ","0"," ","*"," ","*"," ","7"," ","u"," ","c"," ","d","\n">>,
    <<"-","0"," ","0"," ","*"," ","*"," ","*"," ","u"," ","c","\n">>,
    <<"-">>,
    <<"@","d","a","i","l","y"," ","u"," ","c","\n">>,
    <<"@","r","e","b","o","o","t"," ","n"," ","c","\n">>,
    <<"@","b","a","d"," ","u"," ","c","\n">>,
    <<"@","d","a","i","l","y","\n">>,
    <<"0"," ","0"," ","*"," ","*"," ","5","-","1","\n">>,
    <<"0"," ","0"," ","*"," ","*"," ","*","/","0","\n">>,
    <<"0"," ","0"," ","*"," ","*"," ","*","\n">>,
    <<"0"," ","0"," ","*"," ","*"," ","*"," ","*"," ","c","\n">>,
    <<"0"," ","0"," ","*"," ","*"," ","*"," ","z"," ","c","\n">>,
    <<"0"," ","0"," ","*"," ","*"," ","*"," ","u","\n">>,
    <<"0"," ","0"," ","*"," ","*"," ","*"," ","u"," ","c">>,
    <<"6","0"," ","0"," ","*"," ","*"," ","*"," ","u"," ","c","\n">> >>

MCPrefixes == {<<>>, <<"#","x","\n">>, <<" ","\n">>}
MCNexts    == {<<>>, <<"1"," ","2"," ","3"," ","4"," ","5"," ","u"," ","c","\n">>}

MCFiles == {p \o MCLines[i] \o n : p \in MCPrefixes, i \in DOMAIN MCLines, n \in MCNexts}

\* root, and a user whose home directory does not fit in envstr.
MCPasswd == (<<"u">> :> [uid |-> 0, dir |-> "/root", dirLen |-> 5])
         @@ (<<"n">> :> [uid |-> 1000, dir |-> "/home/n", dirLen |-> 1000])

=============================================================================
