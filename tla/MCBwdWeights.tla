----------------------------- MODULE MCBwdWeights -----------------------------
(***************************************************************************)
(* Convolutions for which balance() makes grids of three or four threads.  *)
(***************************************************************************)
EXTENDS BwdWeights

\* Three images, one block of each kind of channels: three threads, of which
\* one has something to add up.
Plain == [harness |-> "mb", fma4 |-> FALSE, is_1stconv |-> FALSE,
          with_bias |-> FALSE, mb |-> 3, ngroups |-> 1, nb_oc |-> 1, nb_ic |-> 1,
          ic_block |-> 16, oc_block |-> 16, ih |-> 3, iw |-> 3, id |-> 1,
          oh |-> 3, ow |-> 3, od |-> 1, kh |-> 1, kw |-> 1, kd |-> 1,
          stride_h |-> 1, stride_w |-> 1, stride_d |-> 1]

\* Two by two threads over images and output channels: those with two images
\* and those with one transpose in pairs.
Pairs == [Plain EXCEPT !.fma4 = TRUE, !.nb_oc = 2]

\* Two groups of channels, with a pair each.
Groups == [Pairs EXCEPT !.ngroups = 2, !.mb = 2]

First == [Plain EXCEPT !.fma4 = TRUE, !.is_1stconv = TRUE, !.with_bias = TRUE]

\* Two by two threads over 20 rows and two blocks of input channels.
InRows == [Plain EXCEPT !.harness = "2d", !.mb = 2, !.nb_ic = 2, !.ih = 10,
                        !.oh = 10, !.kh = 3, !.with_bias = TRUE]

\* One image of ten rows, which nobody shares: two threads over output channels,
\* one of which may finish while the other one has not begun.
Alone == [InRows EXCEPT !.mb = 1, !.nb_ic = 1, !.nb_oc = 2]

\* Three threads over the planes of one image.
InPlanes == [Plain EXCEPT !.harness = "3d", !.mb = 1, !.id = 4, !.od = 3,
                          !.kd = 2, !.with_bias = TRUE]

Small4 == {Plain, Pairs, Groups, First, InRows, Alone, InPlanes}
===============================================================================
