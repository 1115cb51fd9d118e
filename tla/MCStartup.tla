------------------------------ MODULE MCStartup ------------------------------
(***************************************************************************)
(* Two devices of which one may lack a definition, bindings that enable,   *)
(* disable, repeat and leave out, two functions that need none, one or     *)
(* both devices or list more than fit, up to two tests of which one has an *)
(* implementation, each with members left out; a directory for each file   *)
(* that cannot be used.                                                    *)
(***************************************************************************)
EXTENDS Startup

CONSTANTS led, button, blink, press, t1, t2

LOCAL On(d) == [device |-> d, enable |-> TRUE]
LOCAL Off(d) == [device |-> d, enable |-> FALSE]
LOCAL Silent(d) == [device |-> d, enable |-> Missing]

LOCAL Devices == {<<[name |-> led], [name |-> button]>>, <<[name |-> led], [name |-> Missing]>>}

LOCAL Bindings ==
    {<<>>, <<Off(led)>>, <<Silent(led), On(button)>>, <<On(led), On(button), On(led)>>,
     <<On(Missing), On(led)>>}

LOCAL Function(n, d) == [name |-> n, devices |-> d]

LOCAL Functions ==
    {<<Function(blink, <<led, Missing, led, button>>)>>,
     <<Function(Missing, <<led>>), Function(blink, <<Missing>>)>>}
    \union {<<Function(blink, <<button, led>>), Function(press, d)>> :
               d \in {<<button>>, <<led, Missing>>}}

LOCAL Test(n, f) == [name |-> n, function |-> f]

LOCAL Tests ==
    {<<Test(t2, Missing)>>, <<Test(t1, blink), Test(t2, blink)>>,
     <<Test(t2, press), Test(t1, blink)>>}

LOCAL Good ==
    [device : Devices, function : Functions, test : Tests, platform : Bindings]

MCDirectory ==
    Good \union {[(CHOOSE d \in Good : TRUE) EXCEPT ![f] = Unusable] :
                    f \in {"device", "function", "test", "platform"}}

MCCommandLine ==
    {<<"-l">>, <<"dir", "-a">>, <<"dir", "--run", t2>>, <<"dir", "-l", "-R">>}
=============================================================================
