------------------------- MODULE DisastrOSConstants -------------------------
(* The numeric codes of disastrOS_constants.h that the handlers return or    *)
(* take as arguments.  The pool sizes of that header are CONSTANTS of the    *)
(* modules that use them.                                                    *)
EXTENDS Integers

\* Values a handler leaves in syscall_retvalue.
DSOS_EWAIT                 == -5
DSOS_ESLEEP                == -7
DSOS_ERESOURCECREATE       == -8
DSOS_ERESOURCEOPEN         == -9
DSOS_ERESOURCENOEXCL       == -10
DSOS_ERESOURCENOFD         == -11
DSOS_ERESOURCECLOSE        == -12
DSOS_ERESOURCEINUSE        == -13
DSOS_ERESOURCETYPEWRONG    == -15
DSOS_MESSAGELENGTHNOTVALID == -17
DSOS_MESSAGEQUEUEFULL      == -18
DSOS_MESSAGEQUEUEEMPTY     == -19
DSOS_RESOURCENOTFOUND      == -20
DSOS_WAITINGFORMESSAGE     == -22

\* Opening modes, and the two registered resource types.
DSOS_CREATE == 1
DSOS_READ   == 2
DSOS_WRITE  == 3
DSOS_EXCL   == 4

STANDARD_RESOURCE_TYPE == 0
MESSAGE_QUEUE_TYPE     == 1
MAX_TYPE_RESOURCES     == 2

\* Any other open mode is accepted by the handlers; one stands for all.
Modes == {0, DSOS_CREATE, DSOS_READ, DSOS_WRITE, DSOS_EXCL}

\* A type beyond MAX_TYPE_RESOURCES - 1 is accepted as an argument too.
Types == 0 .. MAX_TYPE_RESOURCES
=============================================================================
