------------------------------- MODULE MCCodecs -------------------------------
(* One or two values of every format, with and without their optional parts.   *)
EXTENDS Codecs
ServiceFiles == {<<g, p, <<Crc32(<<Magic>> \o g \o <<Len(p)>> \o p)>>>> : g \in {<<2>>}, p \in {<<1>>, <<0, 2>>}}
SomeSamples ==
    [sealed |-> {<<<<1>>, <<0>>, <<1, 2>>, <<3>>>>},
     peer |-> {<<<<1, 0>>, <<1>>, <<2>>, <<1>>, <<2>>, <<3>>, <<>>, <<0>>>>, <<<<1>>, <<1>>, <<2>>, <<1>>, <<1>>, <<1>>, <<0, 1>>, <<2>>>>},
     raft |-> {<<<<1>>, <<1>>, <<2>>, <<3>>, <<0, 1>>>>},
     forward |-> {<<<<1, 2, 3>>>>},
     event |-> {<<<<1>>, <<1>>, <<>>, <<1, 2>>>>, <<<<3>>, <<2>>, <<1>>, <<1>>>>},
     current |-> {<<<<1>>, <<2>>>>},
     bundle |-> {<<<<1>>, <<2>>, <<1>>, <<2, 1>>, <<0, 3>>>>},
     entry |-> {<<<<1>>, <<0>>, <<0>>, <<2>>, <<0>>>>, <<<<2>>, <<1>>, <<2>>, <<3>>, <<1, 0>>>>},
     file |-> {<<p, <<Crc32(p)>>>> : p \in {<<>>, <<1, 2>>}},
     snapshot |-> ServiceFiles, ledger |-> ServiceFiles,
     storeMarker |-> {<<<<1, 2>>, <<3>>>>}, journalMarker |-> {<<<<1>>, <<2, 2>>>>}, tail |-> {<<<<2>>, <<3>>>>},
     archive |-> {[head |-> <<<<0>>, <<1>>, <<1>>, <<1>>, <<>>, <<1>>, <<>>, <<1>>, <<1>>, <<1>>, <<1>>, <<1>>, <<0>>, <<1>>>>,
                   records |-> <<>>, tag |-> <<1>>],
                  [head |-> <<<<2>>, <<1>>, <<1>>, <<1>>, <<2, 3>>, <<2>>, <<3>>, <<1>>, <<1>>, <<1>>, <<1>>, <<1>>, <<0>>, <<1>>>>,
                   records |-> <<<<<<1>>, <<>>, <<2>>, <<0>>>>, <<<<2>>, <<2>>, <<3>>, <<1, 0>>>>>>, tag |-> <<2>>]},
     status |-> {<<<<1, Colon>>, <<1>>, <<2>>>>, <<<<3>>, <<2>>, <<0, 1>>>>},
     legacy |-> {<<<<1, Colon>>, <<1>>, <<2>>>>, <<<<3>>, <<2>>, <<0, 1>>>>}]
==============================================================================
