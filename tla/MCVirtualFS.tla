---------------------------- MODULE MCVirtualFS ----------------------------
(* An instance of VirtualFS for TLC: names 1 to 3, of which 1 begins 2.    *)
EXTENDS VirtualFS, TLC

ThreeNames == 1..3
UpName     == 0
OnePrefix  == {<<1, 2>>}

d == Node("dir")
f == Node("file")
To(p) == Link(TRUE, p)

\* Links to a directory and through a link; links in a circle; a link to a link
\* and relative links; one that leads to a link through another, files and no links.
ManyDisks == {
  <<1>> :> d @@ <<1, 1>> :> d @@ <<1, 1, 2>> :> f @@ <<2>> :> To(<<1>>) @@ <<3>> :> To(<<2, 1>>),
  <<1>> :> To(<<2, 1>>) @@ <<2>> :> To(<<1, 1>>) @@ <<3>> :> d,
  <<1>> :> d @@ <<1, 1>> :> Link(FALSE, <<0, 3>>) @@ <<1, 2>> :> Link(FALSE, <<3>>)
    @@ <<2>> :> To(<<1, 1>>) @@ <<3>> :> d @@ <<3, 3>> :> f,
  <<1>> :> d @@ <<1, 1>> :> d @@ <<1, 3>> :> To(<<1, 1>>) @@ <<1, 1, 1>> :> f
    @@ <<2>> :> To(<<1>>) @@ <<3>> :> To(<<2, 3>>),
  <<1>> :> f @@ <<2>> :> d @@ <<2, 1>> :> f @@ <<3>> :> d @@ <<3, 2>> :> d}

TwoStarts == {<<>>, <<1>>}
FewSkips  == {{}, {<<1>>}, {<<2>>}, {<<3>>}, {<<1, 1>>}}
OneFails  == {{}, {<<1>>}, {<<2>>}, {<<1, 1>>}}

E(p, n) == Entry(p, n)

\* Entries without their directories, below a file, below a link, and twice.
ManyArchives == {
  <<E(<<1, 1>>, f), E(<<1>>, d), E(<<1, 2>>, f), E(<<2, 1>>, d), E(<<2, 1, 3>>, f), E(<<3>>, f)>>,
  <<E(<<1>>, f), E(<<1, 1>>, f)>>,
  <<E(<<2>>, d), E(<<1>>, To(<<2>>)), E(<<1, 3>>, f)>>,
  <<E(<<1>>, d), E(<<1, 1>>, f), E(<<3>>, d), E(<<3, 2>>, f), E(<<1>>, f), E(<<3>>, d), E(<<2>>, f)>>,
  <<E(<<1, 1>>, d), E(<<1>>, d), E(<<1, 1, 1>>, f), E(<<1, 2>>, d), E(<<1, 2, 3>>, f)>>}
=============================================================================
