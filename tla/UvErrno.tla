------------------------------ MODULE UvErrno ------------------------------
(***************************************************************************)
(* The error codes of libuv (include/uv-errno.h, and UV_ERRNO_MAP and      *)
(* uv_errno_t of include/uv.h), which every callback of libuv gets as its  *)
(* status.  The headers are compiled twice: into the libuv that comes as a *)
(* binary (lib/libuv.lib), and into the program.  The two may see another  *)
(* errno.h: macros are missing, or somebody has redefined them.  What the  *)
(* binary means by a status the program must not take for something else.  *)
(***************************************************************************)
EXTENDS Integers

CONSTANTS
  Unit,     \* what is compiled with the headers: the binary and the program
  Doubtful  \* the errno macros that a unit may miss, or see redefined

VARIABLES
  platform,  \* the one that the units are compiled for
  compiled,  \* the units that have been compiled
  missing,   \* the errno macros that are not defined in a unit
  redefined  \* the errno macros that have another value in a unit

errnoVars == <<platform, compiled, missing, redefined>>

\* The codes that do not depend on errno.h.
FixedCodes ==
  [ EOF |-> -4095, UNKNOWN |-> -4094, EAI_ADDRFAMILY |-> -3000,
    EAI_AGAIN |-> -3001, EAI_BADFLAGS |-> -3002, EAI_CANCELED |-> -3003,
    EAI_FAIL |-> -3004, EAI_FAMILY |-> -3005, EAI_MEMORY |-> -3006,
    EAI_NODATA |-> -3007, EAI_NONAME |-> -3008, EAI_OVERFLOW |-> -3009,
    EAI_SERVICE |-> -3010, EAI_SOCKTYPE |-> -3011,
    EAI_BADHINTS |-> -3013, EAI_PROTOCOL |-> -3014 ]

(* The codes that hold when errno.h does not define the name, as listed.   *)

FallbackE2BIGToEMFILE ==
  [ E2BIG |-> -4093, EACCES |-> -4092, EADDRINUSE |-> -4091,
    EADDRNOTAVAIL |-> -4090, EAFNOSUPPORT |-> -4089, EAGAIN |-> -4088,
    EALREADY |-> -4084, EBADF |-> -4083, EBUSY |-> -4082,
    ECANCELED |-> -4081, ECHARSET |-> -4080, ECONNABORTED |-> -4079,
    ECONNREFUSED |-> -4078, ECONNRESET |-> -4077, EDESTADDRREQ |-> -4076,
    EEXIST |-> -4075, EFAULT |-> -4074, EHOSTUNREACH |-> -4073,
    EINTR |-> -4072, EINVAL |-> -4071, EIO |-> -4070, EISCONN |-> -4069,
    EISDIR |-> -4068, ELOOP |-> -4067, EMFILE |-> -4066 ]

FallbackEMSGSIZEToESHUTDOWN ==
  [ EMSGSIZE |-> -4065, ENAMETOOLONG |-> -4064, ENETDOWN |-> -4063,
    ENETUNREACH |-> -4062, ENFILE |-> -4061, ENOBUFS |-> -4060,
    ENODEV |-> -4059, ENOENT |-> -4058, ENOMEM |-> -4057,
    ENONET |-> -4056, ENOSPC |-> -4055, ENOSYS |-> -4054,
    ENOTCONN |-> -4053, ENOTDIR |-> -4052, ENOTEMPTY |-> -4051,
    ENOTSOCK |-> -4050, ENOTSUP |-> -4049, EPERM |-> -4048,
    EPIPE |-> -4047, EPROTO |-> -4046, EPROTONOSUPPORT |-> -4045,
    EPROTOTYPE |-> -4044, EROFS |-> -4043, ESHUTDOWN |-> -4042 ]

FallbackESPIPEToENOTTY ==
  [ ESPIPE |-> -4041, ESRCH |-> -4040, ETIMEDOUT |-> -4039,
    ETXTBSY |-> -4038, EXDEV |-> -4037, EFBIG |-> -4036,
    ENOPROTOOPT |-> -4035, ERANGE |-> -4034, ENXIO |-> -4033,
    EMLINK |-> -4032, EHOSTDOWN |-> -4031, EREMOTEIO |-> -4030,
    ENOTTY |-> -4029 ]

System ==
  DOMAIN FallbackE2BIGToEMFILE \cup DOMAIN FallbackEMSGSIZEToESHUTDOWN
    \cup DOMAIN FallbackESPIPEToENOTTY

Fallback ==
  [name \in System |->
     CASE name \in DOMAIN FallbackE2BIGToEMFILE       -> FallbackE2BIGToEMFILE[name]
       [] name \in DOMAIN FallbackEMSGSIZEToESHUTDOWN -> FallbackEMSGSIZEToESHUTDOWN[name]
       [] name \in DOMAIN FallbackESPIPEToENOTTY      -> FallbackESPIPEToENOTTY[name]]

\* The names that become members of uv_errno_t.
UV_ERRNO_MAP ==
  { "E2BIG", "EACCES", "EADDRINUSE", "EADDRNOTAVAIL", "EAFNOSUPPORT",
    "EAGAIN", "EAI_ADDRFAMILY", "EAI_AGAIN", "EAI_BADFLAGS",
    "EAI_BADHINTS", "EAI_CANCELED", "EAI_FAIL", "EAI_FAMILY",
    "EAI_MEMORY", "EAI_NODATA", "EAI_NONAME", "EAI_OVERFLOW",
    "EAI_PROTOCOL", "EAI_SERVICE", "EAI_SOCKTYPE", "EALREADY", "EBADF",
    "EBUSY", "ECANCELED", "ECHARSET", "ECONNABORTED", "ECONNREFUSED",
    "ECONNRESET", "EDESTADDRREQ", "EEXIST", "EFAULT", "EFBIG",
    "EHOSTUNREACH", "EINTR", "EINVAL", "EIO", "EISCONN", "EISDIR",
    "ELOOP", "EMFILE", "EMSGSIZE", "ENAMETOOLONG", "ENETDOWN",
    "ENETUNREACH", "ENFILE", "ENOBUFS", "ENODEV", "ENOENT", "ENOMEM",
    "ENONET", "ENOPROTOOPT", "ENOSPC", "ENOSYS", "ENOTCONN", "ENOTDIR",
    "ENOTEMPTY", "ENOTSOCK", "ENOTSUP", "EPERM", "EPIPE", "EPROTO",
    "EPROTONOSUPPORT", "EPROTOTYPE", "ERANGE", "EROFS", "ESHUTDOWN",
    "ESPIPE", "ESRCH", "ETIMEDOUT", "ETXTBSY", "EXDEV", "UNKNOWN", "EOF",
    "ENXIO", "EMLINK", "EHOSTDOWN", "EREMOTEIO", "ENOTTY" }

\* Each of them has a macro UV__, or uv.h would not compile.
ASSUME ErrnoAssumption ==
  /\ UV_ERRNO_MAP = System \cup DOMAIN FixedCodes
  /\ Doubtful \subseteq System

-----------------------------------------------------------------------------
\* The errno of a name: different numbers in 1 .. 2999, and on BSD-like
\* systems 64 for EHOSTDOWN.  A redefined one is a code of Windows sockets.
Errno(u, name) ==
  IF name \in redefined[u] THEN 14300 + Fallback[name]
  ELSE IF platform = "bsd" /\ name = "EHOSTDOWN" THEN 64
  ELSE 4300 + Fallback[name]

\* Faulty variants: the system errno on Windows too, and no EHOSTDOWN.
SystemCodeAnywhere(u, name) ==
  IF name \notin missing[u] THEN - Errno(u, name)
  ELSE IF platform = "bsd" /\ name = "EHOSTDOWN" THEN -64
  ELSE Fallback[name]
SystemCodeNoHostDown(u, name) ==
  IF name \notin missing[u] /\ platform # "windows" THEN - Errno(u, name)
  ELSE Fallback[name]

\* The #if of every name, with the #elif that EHOSTDOWN has.
SystemCode(u, name) ==
  IF name \notin missing[u] /\ platform # "windows" THEN - Errno(u, name)
  ELSE IF platform = "bsd" /\ name = "EHOSTDOWN" THEN -64
  ELSE Fallback[name]

\* The value of UV_<name> in unit u.
uv_errno_t(u, name) ==
  IF name \in System THEN SystemCode(u, name) ELSE FixedCodes[name]

UV_ERRNO_MAX == FixedCodes["EOF"] - 1

ErrnoInit ==
  /\ platform \in {"windows", "bsd", "other"}
  /\ compiled = {}
  /\ missing = [u \in Unit |-> {}]
  /\ redefined = [u \in Unit |-> {}]

\* A unit is compiled.  Redefining errno is a practice of Windows.
Compile(u) ==
  /\ u \notin compiled
  /\ compiled' = compiled \cup {u}
  /\ \E m \in SUBSET Doubtful :
       /\ missing' = [missing EXCEPT ![u] = m]
       /\ \E r \in SUBSET (Doubtful \ m) :
            /\ platform # "windows" => r = {}
            /\ redefined' = [redefined EXCEPT ![u] = r]
  /\ UNCHANGED platform

ErrnoNext == \E u \in Unit : Compile(u)

ErrnoSpec == ErrnoInit /\ [][ErrnoNext]_errnoVars

-----------------------------------------------------------------------------
\* A status that one unit means as one error is never another error to the
\* other unit, nor two errors to itself (a switch over them compiles); and
\* it passes for an error, a number below zero, wherever the library tests
\* one (accept.cpp:45, connect.cpp:169, netlib.h:332), above UV_ERRNO_MAX.
NeverMistaken ==
  \A u, v \in compiled, m, n \in UV_ERRNO_MAP :
    /\ uv_errno_t(u, m) = uv_errno_t(v, n) => m = n
    /\ uv_errno_t(u, m) < 0 /\ uv_errno_t(u, m) > UV_ERRNO_MAX

\* On Windows the binary and the program agree about every error, whatever
\* has become of errno there (uv-errno.h:45-47).  Elsewhere they do if both
\* see the macro or neither does, and about EHOSTDOWN on BSD-like systems in
\* any case (uv-errno.h:407-410).
CodesAgree ==
  \A u, v \in compiled, n \in UV_ERRNO_MAP :
    \/ platform = "windows"
    \/ platform = "bsd" /\ n = "EHOSTDOWN"
    \/ n \in missing[u] <=> n \in missing[v]
    => uv_errno_t(u, n) = uv_errno_t(v, n)
=============================================================================
